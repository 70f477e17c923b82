---------------------------- MODULE OutboundProofs ----------------------------
(***************************************************************************)
(* Proofs about Outbound, for any lines that pack and have sessions, any   *)
(* nodes, routes and mail, and any number of processes that die.           *)
(***************************************************************************)
EXTENDS Outbound, TLAPS

\* A process works on the outbound of a node, or goes through a session's addresses.
Holding(u)  == line[u].at \in {"list", "archive", "send", "sent", "unlink", "strike"}
Scanning(u) == line[u].at \in {"scan", "send", "sent", "unlink", "strike"}

\* What a process works on it has the flag of, although nothing in the files says so.
FlagInv(u) ==
  LET l == line[u] IN
  /\ l.at \in {"find", "list", "archive"} => l.cmd \in DOMAIN l.route
  /\ l.at = "find" /\ Command(u).cmd = "route" /\ ~l.nopack => busy[Command(u).hub] = u
  /\ l.at \in {"list", "archive"} => l.node \in Nodes
  /\ Holding(u) => busy[l.node] = u
  /\ Scanning(u) => /\ l.k \in DOMAIN l.list /\ DOMAIN l.ok = DOMAIN l.list
                    /\ l.node = l.list[l.k]
                    /\ \A j \in DOMAIN l.list : l.ok[j] => busy[l.list[j]] = u
                    /\ Holding(u) => l.ok[l.k]

\* The file that is sent is there, and what is about to be deleted has arrived.
FileInv(u) ==
  LET l == line[u]
      c == IF l.ext = 0 THEN out[l.node] ELSE bundle[l.node][l.name] IN
  /\ l.at \in {"send", "sent", "unlink"} =>
       IF l.ext = 0 THEN out[l.node] # {} ELSE l.name \in DOMAIN bundle[l.node]
  /\ l.at \in {"sent", "unlink"} =>
       \A m \in c : <<m, l.node>> \in arrived \/ (l.ext = 0 /\ m \in env.added)

\* The place of a session in its list: the line there names the file, and the lines before
\* it that are not struck off name files that are not there.
ListInv(u) ==
  LET l == line[u]
      x == lo[l.node][l.ext] IN
  /\ l.at = "archive" => \E i \in DOMAIN Flags : Lists(l.node, i, l.name)
  /\ l.at \in {"send", "sent", "unlink", "strike"} /\ l.ext # 0 =>
       l.pos \in DOMAIN x /\ x[l.pos].name = l.name
  /\ l.at = "strike" =>
       /\ l.ext # 0
       /\ l.name \in DOMAIN bundle[l.node] =>
            bundle[l.node][l.name] = {} \/ <<l.node, l.name>> \in env.refused
  /\ Scanning(u) /\ l.ext = 0 => l.pos = 0
  /\ Scanning(u) /\ l.ok[l.k] /\ l.ext # 0 =>
       \A j \in DOMAIN x : (j < l.pos \/ (j = l.pos /\ l.at = "scan")) /\ ~x[j].sent =>
         x[j].name \notin DOMAIN bundle[l.node]

LineInv(u) == FlagInv(u) /\ FileInv(u) /\ ListInv(u)
Inv        == TypeOK /\ \A u \in Lines : LineInv(u)

-----------------------------------------------------------------------------
(* Types *)

LEMMA Constants ==
  /\ None \notin Nodes /\ None \notin Lines /\ "left" \notin Lines
  /\ Packers \subseteq Lines /\ Callers \subseteq Lines
  /\ DOMAIN Flags = 1 .. Len(Flags) /\ Len(Flags) \in Nat /\ 1 \in DOMAIN Flags
  /\ 0 \notin DOMAIN Flags
  /\ 0 \in Digits /\ Digits \subseteq Nat
  /\ \A r \in Routes : /\ Len(r) \in Nat /\ DOMAIN r = 1 .. Len(r)
                       /\ \A i \in 1 .. Len(r) : /\ r[i].hub \in Nodes /\ r[i].nodes \subseteq Nodes
                                                 /\ \E j \in DOMAIN Flags : Flags[j] = r[i].flag
  /\ \A s \in Sessions : /\ s \in Seq(Nodes) /\ Len(s) \in Nat /\ Len(s) > 0
                         /\ DOMAIN s = 1 .. Len(s) /\ \A i \in 1 .. Len(s) : s[i] \in Nodes
<1>0. Names \in Nat /\ Names # 0
  BY OutboundAssumption
<1>1. 0 \in Digits /\ Digits \subseteq Nat
  BY <1>0 DEF Digits
<1> USE OutboundAssumption
<1>2. Len(Flags) \in Nat /\ DOMAIN Flags = 1 .. Len(Flags) /\ Len(Flags) # 0
  OBVIOUS
<1>3. ASSUME NEW r \in Routes
      PROVE  /\ Len(r) \in Nat /\ DOMAIN r = 1 .. Len(r)
             /\ \A i \in 1 .. Len(r) : /\ r[i].hub \in Nodes /\ r[i].nodes \subseteq Nodes
                                       /\ \E j \in DOMAIN Flags : Flags[j] = r[i].flag
  <2> DEFINE C == [cmd : Commands, flag : {Flags[i] : i \in DOMAIN Flags},
                   hub : Nodes, nodes : SUBSET Nodes]
  <2>1. r \in Seq(C)
    OBVIOUS
  <2>2. \A c \in C : /\ c.hub \in Nodes /\ c.nodes \subseteq Nodes
                    /\ \E j \in DOMAIN Flags : Flags[j] = c.flag
    OBVIOUS
  <2> HIDE DEF C
  <2>3. Len(r) \in Nat /\ DOMAIN r = 1 .. Len(r) /\ \A i \in 1 .. Len(r) : r[i] \in C
    BY <2>1
  <2> QED BY <2>2, <2>3
<1>4. ASSUME NEW s \in Sessions
      PROVE  /\ s \in Seq(Nodes) /\ Len(s) \in Nat /\ Len(s) > 0
             /\ DOMAIN s = 1 .. Len(s) /\ \A i \in 1 .. Len(s) : s[i] \in Nodes
  <2>1. s \in Seq(Nodes) /\ s # <<>>
    OBVIOUS
  <2> QED BY <2>1
<1> QED BY <1>1, <1>2, <1>3, <1>4

\* A directory, by its files
LEMMA DirFacts ==
  /\ \A b \in Dirs : DOMAIN b \subseteq Digits /\ \A d \in DOMAIN b : b[d] \subseteq Mail
  /\ \A D \in SUBSET Digits : \A b \in [D -> SUBSET Mail] : b \in Dirs
BY DEF Dirs

States == {"idle", "next", "find", "list", "archive", "restore",
           "scan", "send", "sent", "unlink", "strike", "done"}

\* The fields of a record
LEMMA Fields ==
  ASSUME NEW l \in Records
  PROVE  /\ l.at \in States /\ l.route \in Routes \cup {<<>>} /\ l.cmd \in Nat
         /\ l.todo \subseteq Nodes /\ l.node \in Nodes \cup {None} /\ l.nopack \in BOOLEAN
         /\ l.blko \in Nodes \cup {None} /\ l.name \in Digits
         /\ l.list \in Sessions \cup {<<>>} /\ l.ok \in Seq(BOOLEAN) /\ l.orig \in BOOLEAN
         /\ l.k \in Nat /\ l.ext \in {0} \cup DOMAIN Flags /\ l.pos \in Nat
         /\ l.halted \in BOOLEAN
BY DEF Records, States

LEMMA IdleRecord == Idle \in Records
<1>1. <<>> \in Seq(BOOLEAN)
  OBVIOUS
<1> QED BY <1>1, Constants DEF Idle, Records

LEMMA InitTypes == Init => TypeOK
<1> SUFFICES ASSUME Init PROVE TypeOK
  OBVIOUS
<1> USE OutboundAssumption, Constants
<1>1. line \in [Lines -> Records]
  BY IdleRecord DEF Init
<1>2. <<>> \in [{} -> SUBSET Mail] /\ <<>> \in Seq(Entries)
  OBVIOUS
<1>3. <<>> \in Dirs
  BY <1>2, DirFacts
<1>4. bundle \in [Nodes -> Dirs]
  BY <1>3 DEF Init
<1>5. lo \in [Nodes -> [DOMAIN Flags -> Seq(Entries)]]
  BY <1>2 DEF Init
<1>6. env \in Histories
  BY DEF Init, Histories
<1>7. /\ xpr \in [Nodes -> SUBSET Mail] /\ aside \in [Nodes -> SUBSET Mail]
      /\ out \in [Nodes -> SUBSET Mail]
  BY DEF Init
<1>8. /\ pkt \subseteq Mail /\ shelf \subseteq Mail /\ stray \subseteq Mail
      /\ busy \in [Nodes -> Lines \cup {None, "left"}] /\ arrived \subseteq Mail \X Nodes
  BY DEF Init
<1> QED BY <1>1, <1>4, <1>5, <1>6, <1>7, <1>8 DEF TypeOK

\* Where a line of the packer or of a session stands
LEMMA Places ==
  ASSUME Inv, NEW t \in Lines
  PROVE  /\ line[t] \in Records
         /\ line[t].at \in {"find", "list", "archive"} =>
              /\ line[t].route \in Routes /\ line[t].cmd \in DOMAIN line[t].route
              /\ Command(t).hub \in Nodes /\ Command(t).nodes \subseteq Nodes
              /\ \E j \in DOMAIN Flags : Flags[j] = Command(t).flag
         /\ line[t].at \in {"list", "archive"} => line[t].node \in Nodes
         /\ Scanning(t) =>
              /\ line[t].list \in Sessions /\ line[t].node \in Nodes
              /\ line[t].k \in 1 .. Len(line[t].list) /\ Len(line[t].list) \in Nat
              /\ DOMAIN line[t].list = 1 .. Len(line[t].list)
              /\ \A j \in DOMAIN line[t].list : line[t].list[j] \in Nodes
<1>1. line[t] \in Records /\ LineInv(t)
  BY DEF Inv, TypeOK
<1>2. ASSUME line[t].at \in {"find", "list", "archive"}
      PROVE  /\ line[t].route \in Routes /\ line[t].cmd \in DOMAIN line[t].route
             /\ Command(t).hub \in Nodes /\ Command(t).nodes \subseteq Nodes
             /\ \E j \in DOMAIN Flags : Flags[j] = Command(t).flag
  <2>1. line[t].cmd \in DOMAIN line[t].route
    BY <1>1, <1>2 DEF LineInv, FlagInv
  <2>2. line[t].route # <<>>
    BY <2>1
  <2>3. line[t].route \in Routes
    BY <1>1, <2>2, Fields
  <2> QED BY <2>1, <2>3, Constants DEF Command
<1>3. line[t].at \in {"list", "archive"} => line[t].node \in Nodes
  BY <1>1 DEF LineInv, FlagInv
<1>4. ASSUME Scanning(t)
      PROVE  /\ line[t].list \in Sessions /\ line[t].node \in Nodes
             /\ line[t].k \in 1 .. Len(line[t].list) /\ Len(line[t].list) \in Nat
             /\ DOMAIN line[t].list = 1 .. Len(line[t].list)
             /\ \A j \in DOMAIN line[t].list : line[t].list[j] \in Nodes
  <2>1. line[t].k \in DOMAIN line[t].list /\ line[t].node = line[t].list[line[t].k]
    BY <1>1, <1>4 DEF LineInv, FlagInv
  <2>2. line[t].list # <<>>
    BY <2>1
  <2>3. line[t].list \in Sessions
    BY <1>1, <2>2, Fields
  <2> QED BY <2>1, <2>3, Constants
<1> QED BY <1>1, <1>2, <1>3, <1>4

-----------------------------------------------------------------------------
(* Lines do not disturb each other *)

\* What a step of t does to nodes whose flag another line has
Change(t) ==
  /\ \A u \in Lines : u # t => line'[u] = line[u]
  /\ \A n \in Nodes : busy[n] \in Lines /\ busy[n] # t =>
       /\ busy'[n] = busy[n] /\ bundle'[n] = bundle[n] /\ lo'[n] = lo[n]
       /\ \A d \in Digits : <<n, d>> \in env.refused => <<n, d>> \in env'.refused
       /\ out[n] # {} => out'[n] # {} /\ \A m \in out'[n] : m \in out[n] \/ m \in env'.added
  /\ arrived \subseteq arrived' /\ env.added \subseteq env'.added

\* What is true of a line stays true in such a step of another one.
LEMMA Others ==
  ASSUME Inv, NEW t, Change(t), NEW u \in Lines, u # t
  PROVE  LineInv(u)'
<1> DEFINE n == line[u].node
<1>1. line'[u] = line[u]
  BY DEF Change
<1>2. Holding(u)' = Holding(u) /\ Scanning(u)' = Scanning(u) /\ Command(u)' = Command(u)
  BY <1>1 DEF Holding, Scanning, Command
<1>3. FlagInv(u) /\ FileInv(u) /\ ListInv(u) /\ line[u].name \in Digits
  BY Places, Fields DEF Inv, LineInv
<1>4. ASSUME NEW x \in Nodes, busy[x] = u
      PROVE  /\ busy'[x] = u /\ bundle'[x] = bundle[x] /\ lo'[x] = lo[x]
             /\ \A d \in Digits : <<x, d>> \in env.refused => <<x, d>> \in env'.refused
             /\ out[x] # {} => out'[x] # {} /\ \A m \in out'[x] : m \in out[x] \/ m \in env'.added
  BY <1>4 DEF Change
<1>5. Holding(u) => n \in Nodes /\ busy[n] = u
  BY <1>3, Places DEF Holding, Scanning, FlagInv
<1>6. Scanning(u) /\ line[u].ok[line[u].k] => n \in Nodes /\ busy[n] = u
  BY <1>3, Places DEF FlagInv
<1>7. FlagInv(u)'
  <2>1. line[u].at = "find" /\ Command(u).cmd = "route" /\ ~line[u].nopack => busy'[Command(u).hub] = u
    BY <1>3, <1>4, Places DEF FlagInv
  <2>2. Holding(u) => busy'[n] = u
    BY <1>4, <1>5
  <2>3. Scanning(u) => \A j \in DOMAIN line[u].list : line[u].ok[j] => busy'[line[u].list[j]] = u
    BY <1>3, <1>4, Places DEF FlagInv
  <2> QED BY <1>1, <1>2, <1>3, <2>1, <2>2, <2>3 DEF FlagInv
<1>8. FileInv(u)'
  <2>1. CASE line[u].at \in {"send", "sent", "unlink"}
    <3>1. n \in Nodes /\ busy[n] = u
      BY <1>5, <2>1 DEF Holding
    <3>2. /\ bundle'[n] = bundle[n]
          /\ out[n] # {} => out'[n] # {} /\ \A m \in out'[n] : m \in out[n] \/ m \in env'.added
      BY <1>4, <3>1
    <3>3. arrived \subseteq arrived' /\ env.added \subseteq env'.added
      BY DEF Change
    <3> QED BY <1>1, <1>3, <2>1, <3>2, <3>3 DEF FileInv
  <2>2. CASE line[u].at \notin {"send", "sent", "unlink"}
    BY <1>1, <2>2 DEF FileInv
  <2> QED BY <2>1, <2>2
<1>9. ListInv(u)'
  <2>1. CASE Holding(u) \/ (Scanning(u) /\ line[u].ok[line[u].k])
    <3>1. n \in Nodes /\ busy[n] = u
      BY <1>5, <1>6, <2>1
    <3>2. /\ bundle'[n] = bundle[n] /\ lo'[n] = lo[n]
          /\ \A d \in Digits : <<n, d>> \in env.refused => <<n, d>> \in env'.refused
      BY <1>4, <3>1
    <3> QED BY <1>1, <1>2, <1>3, <3>2 DEF ListInv, Lists
  <2>2. CASE ~Holding(u) /\ ~(Scanning(u) /\ line[u].ok[line[u].k])
    BY <1>1, <1>2, <1>3, <2>2 DEF ListInv, Holding
  <2> QED BY <2>1, <2>2
<1> QED BY <1>7, <1>8, <1>9 DEF LineInv

\* So a step of a line has to keep only what is true of that line itself.
LEMMA Mine ==
  ASSUME Inv, TypeOK', NEW t, Change(t), t \in Lines => LineInv(t)'
  PROVE  Inv'
BY Others DEF Inv

\* A line that works on no node and is in no session
LEMMA Quiet ==
  ASSUME NEW t, line'[t].at \in {"idle", "next", "restore", "done"}
  PROVE  LineInv(t)'
BY DEF LineInv, FlagInv, FileInv, ListInv, Holding, Scanning

\* Steps that change no files
LEMMA MoveTypes ==
  ASSUME TypeOK, NEW t \in Lines, NEW l \in Records, line' = [line EXCEPT ![t] = l],
         busy' \in [Nodes -> Lines \cup {None, "left"}],
         UNCHANGED <<packets, bundle, lo, arrived, env>>
  PROVE  TypeOK'
BY DEF TypeOK, packets

LEMMA FreedType ==
  ASSUME TypeOK, NEW t \in Lines
  PROVE  Freed(t) \in [Nodes -> Lines \cup {None, "left"}]
BY DEF TypeOK, Freed

\* Steps that change no files and no flags, or those of the line itself
LEMMA MoveChange ==
  ASSUME TypeOK, NEW t \in Lines, NEW l, line' = [line EXCEPT ![t] = l],
         \A n \in Nodes : busy[n] \in Lines /\ busy[n] # t => busy'[n] = busy[n],
         UNCHANGED <<packets, bundle, lo, arrived>>, env.added \subseteq env'.added,
         env.refused \subseteq env'.refused
  PROVE  Change(t)
BY DEF TypeOK, Change, packets

-----------------------------------------------------------------------------
(* Writing and packing *)

LEMMA ExportStep ==
  ASSUME Inv, NEW m \in Mail, Export(m)
  PROVE  Inv'
<1>1. Dest[m] \in Nodes
  BY OutboundAssumption
<1>2. env' \in Histories
  BY DEF Inv, TypeOK, Histories, Export
<1>3. TypeOK'
  BY <1>1, <1>2 DEF Inv, TypeOK, Export
<1>4. Change(None)
  BY DEF Change, Export, Inv, TypeOK, Histories
<1> QED BY <1>3, <1>4, Mine, Constants

LEMMA BeginStep ==
  ASSUME Inv, NEW t \in Lines, Begin(t)
  PROVE  Inv'
<1>1. PICK r \in Routes : line' = [line EXCEPT ![t] = [Idle EXCEPT !.at = "next", !.route = r]]
  BY DEF Begin
<1> DEFINE l == [Idle EXCEPT !.at = "next", !.route = r]
<1>2. l \in Records /\ l.at = "next"
  BY IdleRecord DEF Records
<1>3. /\ env.packs > 0 /\ env' = [env EXCEPT !.packs = @ - 1]
      /\ shelf' = shelf \cup pkt /\ pkt' = {}
      /\ UNCHANGED <<xpr, aside, out, stray, bundle, lo, busy, arrived>>
  BY DEF Begin
<1>4. env \in Histories /\ env.packs \in Nat /\ env.packs - 1 \in Nat
  BY <1>3 DEF Inv, TypeOK, Histories
<1>5. env' \in Histories
  BY <1>3, <1>4 DEF Histories
<1>6. TypeOK'
  BY <1>1, <1>2, <1>3, <1>5 DEF Inv, TypeOK
<1>7. line'[t].at = "next"
  BY <1>1, <1>2 DEF Inv, TypeOK
<1>8. Change(t)
  BY <1>1, <1>3, <1>4 DEF Change, Inv, TypeOK, Histories
<1> QED BY <1>6, <1>7, <1>8, Mine, Quiet

LEMMA NextCommandStep ==
  ASSUME Inv, NEW t \in Lines, NextCommand(t)
  PROVE  Inv'
<1> DEFINE c == line[t].route[line[t].cmd + 1]
           ns == IF c.cmd = "route" THEN c.nodes \cup {c.hub} ELSE c.nodes
           b == c.cmd = "route" /\ busy[c.hub] # None
           l == [[line[t] EXCEPT !.cmd = @ + 1, !.at = "find"] EXCEPT !.todo = ns, !.nopack = b]
<1>1. line[t] \in Records /\ line[t].at = "next" /\ line[t].cmd < Len(line[t].route)
  BY DEF Inv, TypeOK, NextCommand, At
<1>2. /\ line' = [line EXCEPT ![t] = l] /\ UNCHANGED <<packets, bundle, lo, arrived, env>>
      /\ busy' = IF c.cmd = "route" /\ busy[c.hub] = None THEN [busy EXCEPT ![c.hub] = t] ELSE busy
  BY DEF NextCommand
<1>3. line[t].cmd \in Nat /\ line[t].route \in Routes \cup {<<>>}
  BY <1>1, Fields
<1>4. line[t].route \in Routes
  BY <1>1, <1>3
<1>5. line[t].cmd + 1 \in DOMAIN line[t].route /\ line[t].cmd + 1 \in Nat
  BY <1>1, <1>3, <1>4, Constants
<1>6. c.hub \in Nodes /\ ns \in SUBSET Nodes /\ b \in BOOLEAN
  BY <1>4, <1>5, Constants
<1>7. l \in Records
  <2> HIDE DEF ns, b
  <2> QED BY <1>1, <1>5, <1>6 DEF Records
<1>8. /\ l.at = "find" /\ l.cmd = line[t].cmd + 1 /\ l.route = line[t].route /\ l.nopack = b
  BY <1>1 DEF Records
<1>9. busy' \in [Nodes -> Lines \cup {None, "left"}]
  BY <1>2, <1>6 DEF Inv, TypeOK
<1>10. TypeOK'
  BY <1>2, <1>7, <1>9, MoveTypes DEF Inv
<1>11. line'[t] = l
  BY <1>2 DEF Inv, TypeOK
<1>12. Change(t)
  <2>1. \A n \in Nodes : busy[n] \in Lines /\ busy[n] # t => busy'[n] = busy[n]
    BY <1>2, <1>6, Constants DEF Inv, TypeOK
  <2> QED BY <1>2, <2>1, MoveChange DEF Inv
<1>13. LineInv(t)'
  <2>1. Command(t)' = c
    BY <1>8, <1>11 DEF Command
  <2>2. c.cmd = "route" /\ ~b => busy'[c.hub] = t
    BY <1>2, <1>6 DEF Inv, TypeOK
  <2>3. FlagInv(t)'
    BY <1>5, <1>8, <1>11, <2>1, <2>2 DEF FlagInv, Holding, Scanning
  <2>4. FileInv(t)' /\ ListInv(t)'
    BY <1>8, <1>11 DEF FileInv, ListInv, Scanning
  <2> QED BY <2>3, <2>4 DEF LineInv
<1> QED BY <1>10, <1>12, <1>13, Mine

\* A line gives up its flags and goes on at at.
LEMMA FreeStep ==
  ASSUME Inv, NEW t \in Lines, NEW l \in Records, line' = [line EXCEPT ![t] = l],
         busy' = Freed(t), UNCHANGED <<packets, bundle, lo, arrived, env>>,
         LineInv(t)'
  PROVE  Inv'
<1>1. TypeOK'
  BY FreedType, MoveTypes DEF Inv
<1>2. Change(t)
  BY MoveChange DEF Inv, TypeOK, Histories, Freed
<1> QED BY <1>1, <1>2, Mine

LEMMA FindNoneStep ==
  ASSUME Inv, NEW t \in Lines, FindNone(t)
  PROVE  Inv'
<1> DEFINE c == Command(t)
<1>1. line[t] \in Records /\ line[t].at = "find" /\ UNCHANGED <<packets, bundle, lo, arrived, env>>
  BY DEF Inv, TypeOK, FindNone, At
<1>2. c.hub \in Nodes
  BY <1>1, Places
<1>3. CASE c.cmd = "route" /\ ~line[t].nopack
  <2> DEFINE l == [line[t] EXCEPT !.at = "list", !.node = c.hub]
  <2>1. line' = [line EXCEPT ![t] = l] /\ UNCHANGED busy
    BY <1>3 DEF FindNone, Inv, TypeOK
  <2>2. l \in Records
    BY <1>1, <1>2 DEF Records
  <2>3. l.at = "list" /\ l.node = c.hub /\ l.cmd = line[t].cmd /\ l.route = line[t].route
    BY <1>1 DEF Records
  <2>4. line'[t] = l
    BY <2>1 DEF Inv, TypeOK
  <2>5. busy[c.hub] = t /\ line[t].cmd \in DOMAIN line[t].route
    BY <1>1, <1>3 DEF Inv, LineInv, FlagInv
  <2>6. FlagInv(t)'
    BY <1>2, <2>1, <2>3, <2>4, <2>5 DEF FlagInv, Holding, Scanning
  <2>7. FileInv(t)' /\ ListInv(t)'
    BY <2>3, <2>4 DEF FileInv, ListInv, Scanning
  <2>8. TypeOK'
    BY <1>1, <2>1, <2>2, MoveTypes DEF Inv, TypeOK
  <2>9. Change(t)
    BY <1>1, <2>1, MoveChange DEF Inv, TypeOK, Histories
  <2> QED BY <2>6, <2>7, <2>8, <2>9, Mine DEF LineInv
<1>4. CASE ~(c.cmd = "route" /\ ~line[t].nopack)
  <2> DEFINE l == [line[t] EXCEPT !.at = "next"]
  <2>1. line' = [line EXCEPT ![t] = l] /\ busy' = Freed(t)
    BY <1>4 DEF FindNone, Goes, Inv, TypeOK
  <2>2. l \in Records /\ l.at = "next"
    BY <1>1 DEF Records
  <2>3. line'[t].at = "next"
    BY <2>1, <2>2 DEF Inv, TypeOK
  <2>4. LineInv(t)'
    BY <2>3, Quiet
  <2> HIDE DEF l
  <2> QED BY <1>1, <2>1, <2>2, <2>4, FreeStep
<1> QED BY <1>3, <1>4

LEMMA PackDoneStep ==
  ASSUME Inv, NEW t \in Lines, PackDone(t)
  PROVE  Inv'
<1> DEFINE l == [Idle EXCEPT !.at = "restore", !.todo = Nodes]
<1>1. l \in Records /\ l.at = "restore"
  BY IdleRecord DEF Records
<1>2. line' = [line EXCEPT ![t] = l] /\ busy' = Freed(t) /\ UNCHANGED <<packets, bundle, lo, arrived, env>>
  BY DEF PackDone
<1>3. line'[t].at = "restore"
  BY <1>1, <1>2 DEF Inv, TypeOK
<1>4. LineInv(t)'
  BY <1>3, Quiet
<1> HIDE DEF l
<1> QED BY <1>1, <1>2, <1>4, FreeStep

LEMMA RestoreDoneStep ==
  ASSUME Inv, NEW t \in Lines, RestoreDone(t)
  PROVE  Inv'
<1>1. Idle \in Records /\ Idle.at = "idle"
  BY IdleRecord DEF Idle
<1>2. line' = [line EXCEPT ![t] = Idle] /\ UNCHANGED <<packets, bundle, lo, busy, arrived, env>>
  BY DEF RestoreDone
<1>3. line'[t].at = "idle"
  BY <1>1, <1>2 DEF Inv, TypeOK
<1>4. TypeOK'
  BY <1>1, <1>2, MoveTypes DEF Inv, TypeOK
<1>5. Change(t)
  BY <1>2, MoveChange DEF Inv
<1> QED BY <1>3, <1>4, <1>5, Mine, Quiet

\* The line goes on looking for packets.
LEMMA Looking ==
  ASSUME NEW t, line'[t].at = "find", line'[t].cmd \in DOMAIN line'[t].route,
         Command(t)'.cmd = "route" /\ ~line'[t].nopack => busy'[Command(t)'.hub] = t
  PROVE  LineInv(t)'
BY DEF LineInv, FlagInv, FileInv, ListInv, Holding, Scanning

\* What the line knows of a packet it has found
LEMMA FoundLine ==
  ASSUME Inv, NEW t \in Lines, NEW n \in Nodes, NEW at \in {"find", "list"}, Found(t, n, at)
  PROVE  /\ line' \in [Lines -> Records] /\ xpr' \in [Nodes -> SUBSET Mail]
         /\ \A u \in Lines : u # t => line'[u] = line[u]
         /\ line'[t].at = at /\ line'[t].cmd = line[t].cmd /\ line'[t].route = line[t].route
         /\ line'[t].nopack = line[t].nopack /\ line'[t].todo = line[t].todo \ {n}
         /\ line'[t].node = IF Command(t).cmd = "route" THEN line[t].node ELSE n
         /\ Command(t)' = Command(t) /\ line[t].at = "find" /\ n \in line[t].todo
         /\ xpr' = [xpr EXCEPT ![n] = {}]
<1> DEFINE m == IF Command(t).cmd = "route" THEN line[t].node ELSE n
           b == IF Command(t).cmd = "sendall" THEN n ELSE line[t].blko
           ns == line[t].todo \ {n}
           l == [line[t] EXCEPT !.at = at, !.todo = ns, !.node = m, !.blko = b]
<1>1. line[t] \in Records /\ line[t].at = "find" /\ n \in line[t].todo
  BY DEF Inv, TypeOK, Found, At
<1>2. m \in Nodes \cup {None} /\ b \in Nodes \cup {None} /\ ns \in SUBSET Nodes
  BY <1>1, Fields
<1>3. line' = [line EXCEPT ![t] = l] /\ xpr' = [xpr EXCEPT ![n] = {}]
  BY DEF Found, Inv, TypeOK
<1>4. l \in Records
  <2> HIDE DEF m, b, ns
  <2> QED BY <1>1, <1>2 DEF Records
<1>5. /\ l.at = at /\ l.cmd = line[t].cmd /\ l.route = line[t].route
      /\ l.nopack = line[t].nopack /\ l.todo = ns /\ l.node = m
  <2> HIDE DEF m, b, ns
  <2> QED BY <1>1 DEF Records
<1>6. line'[t] = l /\ line' \in [Lines -> Records] /\ \A u \in Lines : u # t => line'[u] = line[u]
  <2> HIDE DEF l
  <2> QED BY <1>3, <1>4 DEF Inv, TypeOK
<1>7. xpr' \in [Nodes -> SUBSET Mail]
  BY <1>3 DEF Inv, TypeOK
<1>8. Command(t)' = Command(t)
  BY <1>5, <1>6 DEF Command
<1> QED BY <1>1, <1>3, <1>5, <1>6, <1>7, <1>8

LEMMA TakePacketStep ==
  ASSUME Inv, NEW t \in Lines, NEW n \in Nodes, TakePacket(t, n)
  PROVE  Inv'
<1> DEFINE c == Command(t)
           at == IF c.cmd = "route" THEN "find" ELSE "list"
<1>1. Found(t, n, at) /\ at \in {"find", "list"}
  BY DEF TakePacket
<1>2. /\ line' \in [Lines -> Records] /\ xpr' \in [Nodes -> SUBSET Mail]
      /\ \A u \in Lines : u # t => line'[u] = line[u]
      /\ line'[t].at = at /\ line'[t].cmd = line[t].cmd /\ line'[t].route = line[t].route
      /\ line'[t].nopack = line[t].nopack
      /\ line'[t].node = IF c.cmd = "route" THEN line[t].node ELSE n
      /\ Command(t)' = c /\ line[t].at = "find"
  <2> HIDE DEF at
  <2> QED BY <1>1, FoundLine
<1>3. /\ IF c.cmd = "route" THEN ~line[t].nopack /\ UNCHANGED busy
         ELSE busy[n] \in {None, t} /\ busy' = [busy EXCEPT ![n] = t]
      /\ pkt' = pkt \cup xpr[n]
      /\ UNCHANGED <<aside, out, shelf, stray, bundle, lo, arrived, env>>
  BY DEF TakePacket
<1>4. line[t].cmd \in DOMAIN line[t].route /\ c.hub \in Nodes
  BY <1>2, Places
<1>5. busy' \in [Nodes -> Lines \cup {None, "left"}]
  BY <1>3 DEF Inv, TypeOK
<1>6. TypeOK'
  BY <1>2, <1>3, <1>5 DEF Inv, TypeOK
<1>7. Change(t)
  BY <1>2, <1>3, Constants DEF Change, Inv, TypeOK, Histories
<1>8. LineInv(t)'
  <2>1. CASE c.cmd = "route"
    <3>1. ~line[t].nopack => busy'[c.hub] = t
      BY <1>2, <1>3, <2>1 DEF Inv, LineInv, FlagInv
    <3> QED BY <1>2, <1>4, <2>1, <3>1, Looking
  <2>2. CASE c.cmd # "route"
    <3>1. line'[t].at = "list" /\ line'[t].node = n /\ busy'[n] = t
      BY <1>2, <1>3, <2>2 DEF Inv, TypeOK
    <3> QED BY <1>2, <1>4, <3>1 DEF LineInv, FlagInv, FileInv, ListInv, Holding, Scanning
  <2> QED BY <2>1, <2>2
<1> QED BY <1>6, <1>7, <1>8, Mine

LEMMA SetAsideStep ==
  ASSUME Inv, NEW t \in Lines, NEW n \in Nodes, SetAside(t, n)
  PROVE  Inv'
<1> DEFINE c == Command(t)
           as == IF c.cmd = "send" THEN line[t].blko ELSE n
<1>1. Found(t, n, "find")
  BY DEF SetAside
<1>2. /\ line' \in [Lines -> Records] /\ xpr' \in [Nodes -> SUBSET Mail]
      /\ \A u \in Lines : u # t => line'[u] = line[u]
      /\ line'[t].at = "find" /\ line'[t].cmd = line[t].cmd /\ line'[t].route = line[t].route
      /\ line'[t].nopack = line[t].nopack
      /\ Command(t)' = c /\ line[t].at = "find"
  BY <1>1, FoundLine
<1>3. /\ IF c.cmd = "route" THEN line[t].nopack ELSE busy[n] \notin {None, t}
      /\ IF as = None THEN stray = {} /\ stray' = xpr[n] /\ UNCHANGED <<aside, env>>
         ELSE /\ aside[as] = {} /\ aside' = [aside EXCEPT ![as] = xpr[n]] /\ UNCHANGED stray
              /\ env' = IF as = n THEN env ELSE [env EXCEPT !.misnamed = @ \cup xpr[n]]
      /\ UNCHANGED <<out, pkt, shelf, bundle, lo, busy, arrived>>
  BY DEF SetAside
<1>4. line[t].cmd \in DOMAIN line[t].route
  BY <1>2, Places
<1>5. /\ stray' \subseteq Mail /\ aside' \in [Nodes -> SUBSET Mail] /\ env' \in Histories
      /\ env'.added = env.added /\ env'.refused = env.refused
  <2>1. xpr[n] \subseteq Mail /\ stray \subseteq Mail /\ aside \in [Nodes -> SUBSET Mail] /\ env \in Histories
    BY DEF Inv, TypeOK
  <2> HIDE DEF as
  <2>2. stray' \subseteq Mail /\ aside' \in [Nodes -> SUBSET Mail]
    BY <1>3, <2>1
  <2>3. CASE env' = env
    BY <2>1, <2>2, <2>3
  <2>4. CASE env' = [env EXCEPT !.misnamed = @ \cup xpr[n]]
    <3>1. env' \in Histories /\ env'.added = env.added /\ env'.refused = env.refused
      BY <2>1, <2>4 DEF Histories
    <3> QED BY <2>2, <3>1
  <2> QED BY <1>3, <2>3, <2>4
<1>6. TypeOK'
  BY <1>2, <1>3, <1>5 DEF Inv, TypeOK
<1>7. Change(t)
  BY <1>2, <1>3, <1>5 DEF Change
<1>8. LineInv(t)'
  BY <1>2, <1>3, <1>4, Looking
<1> QED BY <1>6, <1>7, <1>8, Mine

\* What the line knows when it has finished with a bundle
LEMMA PackedLine ==
  ASSUME Inv, NEW t \in Lines, line[t].at \in {"list", "archive"}, Packed(t)
  PROVE  /\ line' \in [Lines -> Records] /\ busy' \in [Nodes -> Lines \cup {None, "left"}]
         /\ \A u \in Lines : u # t => line'[u] = line[u]
         /\ \A n \in Nodes : busy[n] \in Lines /\ busy[n] # t => busy'[n] = busy[n]
         /\ line'[t].at = IF Command(t).cmd = "route" THEN "next" ELSE "find"
         /\ Command(t)' = Command(t) /\ LineInv(t)'
<1> DEFINE at == IF Command(t).cmd = "route" THEN "next" ELSE "find"
           l == [line[t] EXCEPT !.at = at]
<1>1. line' = [line EXCEPT ![t] = l] /\ busy' = Freed(t)
  BY DEF Packed, Goes, Inv, TypeOK
<1>2. line[t] \in Records /\ l \in Records
  BY Places DEF Records
<1>3. l.at = at /\ l.cmd = line[t].cmd /\ l.route = line[t].route
  BY <1>2 DEF Records
<1>4. line' \in [Lines -> Records] /\ line'[t] = l /\ \A u \in Lines : u # t => line'[u] = line[u]
  <2> HIDE DEF l
  <2> QED BY <1>1, <1>2 DEF Inv, TypeOK
<1>5. busy' \in [Nodes -> Lines \cup {None, "left"}]
  BY <1>1, FreedType DEF Inv
<1>6. \A n \in Nodes : busy[n] \in Lines /\ busy[n] # t => busy'[n] = busy[n]
  BY <1>1 DEF Freed
<1>7. Command(t)' = Command(t) /\ line'[t].cmd \in DOMAIN line'[t].route
  <2>1. line[t].cmd \in DOMAIN line[t].route
    BY Places
  <2>2. line'[t].cmd = line[t].cmd /\ line'[t].route = line[t].route
    BY <1>3, <1>4
  <2> QED BY <2>1, <2>2 DEF Command
<1>8. LineInv(t)'
  <2>1. CASE Command(t).cmd = "route"
    <3>1. line'[t].at = "next"
      BY <1>3, <1>4, <2>1
    <3> QED BY <3>1, Quiet
  <2>2. CASE Command(t).cmd # "route"
    <3>1. line'[t].at = "find"
      BY <1>3, <1>4, <2>2
    <3> QED BY <1>7, <2>2, <3>1, Looking
  <2> QED BY <2>1, <2>2
<1> QED BY <1>3, <1>4, <1>5, <1>6, <1>7, <1>8

\* The list that a command names, and the name of the bundle
LEMMA ListPlace ==
  ASSUME Inv, NEW t \in Lines, line[t].at = "list",
         NEW found \in IF DOMAIN bundle[line[t].node] = {} THEN {0} ELSE DOMAIN bundle[line[t].node]
  PROVE  /\ found \in Digits /\ (found + 1) % Names \in Digits
         /\ (CHOOSE j \in DOMAIN Flags : Flags[j] = Command(t).flag) \in DOMAIN Flags
<1>1. \E j \in DOMAIN Flags : Flags[j] = Command(t).flag
  BY Places
<1>2. (CHOOSE j \in DOMAIN Flags : Flags[j] = Command(t).flag) \in DOMAIN Flags
  BY <1>1
<1>3. bundle[line[t].node] \in Dirs
  BY Places DEF Inv, TypeOK
<1>4. found \in Digits
  BY <1>3, Constants, DirFacts
<1>5. (found + 1) % Names \in Digits
  <2>1. found \in Nat /\ Names \in Nat \ {0}
    BY <1>4, Constants, OutboundAssumption
  <2>2. (found + 1) % Names \in 0 .. Names - 1
    BY <2>1
  <2> QED BY <2>2 DEF Digits
<1> QED BY <1>2, <1>4, <1>5

LEMMA Appended ==
  ASSUME NEW S, NEW s \in Seq(S), NEW e \in S
  PROVE  /\ Append(s, e) \in Seq(S) /\ Len(s) \in Nat /\ DOMAIN s = 1 .. Len(s)
         /\ DOMAIN Append(s, e) = 1 .. Len(s) + 1
         /\ \A j \in DOMAIN s : Append(s, e)[j] = s[j]
         /\ Append(s, e)[Len(s) + 1] = e
OBVIOUS

\* call_packer() puts the bundle on the list if it is not there.
LEMMA ListedLine ==
  ASSUME TypeOK, NEW n \in Nodes, NEW i \in DOMAIN Flags, NEW d \in Digits,
         lo' = IF Lists(n, i, d) THEN lo ELSE [lo EXCEPT ![n][i] = Append(@, Line(d))]
  PROVE  /\ lo' \in [Nodes -> [DOMAIN Flags -> Seq(Entries)]]
         /\ \A x \in Nodes : x # n => lo'[x] = lo[x]
         /\ Lists(n, i, d)'
         /\ \A x \in Nodes, h \in DOMAIN Flags, e \in Digits : Lists(x, h, e) => Lists(x, h, e)'
<1> DEFINE s == lo[n][i]
<1>1. lo \in [Nodes -> [DOMAIN Flags -> Seq(Entries)]] /\ s \in Seq(Entries) /\ Line(d) \in Entries
  BY DEF TypeOK, Line, Entries
<1>2. CASE Lists(n, i, d)
  <2>1. lo' = lo
    BY <1>2
  <2> QED BY <1>1, <1>2, <2>1 DEF Lists
<1>3. CASE ~Lists(n, i, d)
  <2> DEFINE a == Append(s, Line(d))
  <2>1. /\ a \in Seq(Entries) /\ Len(s) + 1 \in DOMAIN a /\ a[Len(s) + 1] = Line(d)
        /\ \A j \in DOMAIN s : j \in DOMAIN a /\ a[j] = s[j]
    <3> HIDE DEF s
    <3>1. Len(s) \in Nat
      BY <1>1, Appended
    <3> QED BY <1>1, <3>1, Appended
  <2>2. lo' = [lo EXCEPT ![n][i] = a]
    BY <1>3
  <2> HIDE DEF a
  <2>3. lo' = [lo EXCEPT ![n] = [lo[n] EXCEPT ![i] = a]]
    BY <1>1, <2>2
  <2>4. [lo[n] EXCEPT ![i] = a] \in [DOMAIN Flags -> Seq(Entries)]
    BY <1>1, <2>1
  <2>5. lo' \in [Nodes -> [DOMAIN Flags -> Seq(Entries)]]
    BY <1>1, <2>3, <2>4
  <2>6. /\ \A x \in Nodes : x # n => lo'[x] = lo[x]
        /\ lo'[n][i] = a /\ \A h \in DOMAIN Flags : h # i => lo'[n][h] = lo[n][h]
    BY <1>1, <2>3
  <2>7. Lists(n, i, d)'
    BY <2>1, <2>6 DEF Lists, Line
  <2>8. ASSUME NEW x \in Nodes, NEW h \in DOMAIN Flags, NEW e \in Digits, Lists(x, h, e)
        PROVE  Lists(x, h, e)'
    <3>1. CASE x = n /\ h = i
      <4>1. PICK j \in DOMAIN s : s[j] = Line(e)
        BY <2>8, <3>1 DEF Lists
      <4>2. j \in DOMAIN lo'[n][i] /\ lo'[n][i][j] = Line(e)
        BY <2>1, <2>6, <4>1
      <4> QED BY <3>1, <4>2 DEF Lists, Line
    <3>2. CASE ~(x = n /\ h = i)
      BY <2>6, <2>8, <3>2 DEF Lists, Line
    <3> QED BY <3>1, <3>2
  <2> QED BY <2>5, <2>6, <2>7, <2>8
<1> QED BY <1>2, <1>3

LEMMA ListBundleStep ==
  ASSUME Inv, NEW t \in Lines, ListBundle(t)
  PROVE  Inv'
<1> DEFINE n == line[t].node
           i == CHOOSE j \in DOMAIN Flags : Flags[j] = Command(t).flag
           there == DOMAIN bundle[n]
<1>1. PICK found \in IF there = {} THEN {0} ELSE there :
        LET spent == found \in there /\ bundle[n][found] = {}
            d     == IF spent THEN (found + 1) % Names ELSE found
        IN
        /\ bundle' = IF spent THEN [bundle EXCEPT ![n] = [e \in there \ {found} |-> @[e]]] ELSE bundle
        /\ IF pkt = {} THEN Packed(t) /\ UNCHANGED <<lo, env>>
           ELSE /\ lo' = IF Lists(n, i, d) THEN lo ELSE [lo EXCEPT ![n][i] = Append(@, Line(d))]
                /\ env' = [env EXCEPT !.refused = @ \ {<<n, d>>}]
                /\ line' = [line EXCEPT ![t].at = "archive", ![t].name = d] /\ UNCHANGED busy
  BY DEF ListBundle
<1> DEFINE spent == found \in there /\ bundle[n][found] = {}
           d     == IF spent THEN (found + 1) % Names ELSE found
<1>2. /\ line[t].at = "list" /\ line[t] \in Records /\ UNCHANGED <<packets, arrived>>
      /\ n \in Nodes /\ busy[n] = t /\ line[t].cmd \in DOMAIN line[t].route
  BY Places DEF ListBundle, At, Inv, LineInv, FlagInv, Holding
<1>3. d \in Digits /\ i \in DOMAIN Flags
  BY <1>2, ListPlace
<1>4. bundle' \in [Nodes -> Dirs] /\ \A x \in Nodes : x # n => bundle'[x] = bundle[x]
  <2>1. bundle[n] \in Dirs
    BY <1>2 DEF Inv, TypeOK
  <2>2. [e \in there \ {found} |-> bundle[n][e]] \in [there \ {found} -> SUBSET Mail]
    BY <2>1, DirFacts
  <2>3. [e \in there \ {found} |-> bundle[n][e]] \in Dirs
    BY <2>1, <2>2, DirFacts
  <2> QED BY <1>1, <1>2, <2>3 DEF Inv, TypeOK
<1> HIDE DEF spent, d, i
<1>5. CASE pkt = {}
  <2>1. Packed(t) /\ UNCHANGED <<lo, env>>
    BY <1>1, <1>5
  <2>2. /\ line' \in [Lines -> Records] /\ busy' \in [Nodes -> Lines \cup {None, "left"}]
        /\ \A u \in Lines : u # t => line'[u] = line[u]
        /\ \A x \in Nodes : busy[x] \in Lines /\ busy[x] # t => busy'[x] = busy[x]
        /\ LineInv(t)'
    BY <1>2, <2>1, PackedLine
  <2>3. TypeOK'
    BY <1>2, <1>4, <2>1, <2>2 DEF Inv, TypeOK, packets
  <2>4. Change(t)
    BY <1>2, <1>4, <2>1, <2>2 DEF Change, packets
  <2> QED BY <2>2, <2>3, <2>4, Mine
<1>6. CASE pkt # {}
  <2> DEFINE l == [line[t] EXCEPT !.at = "archive", !.name = d]
  <2>1. /\ lo' = IF Lists(n, i, d) THEN lo ELSE [lo EXCEPT ![n][i] = Append(@, Line(d))]
        /\ env' = [env EXCEPT !.refused = @ \ {<<n, d>>}]
        /\ line' = [line EXCEPT ![t] = l] /\ UNCHANGED busy
    BY <1>1, <1>6 DEF spent, d, i, Inv, TypeOK
  <2>2. l \in Records
    BY <1>2, <1>3 DEF Records
  <2>3. /\ l.at = "archive" /\ l.name = d /\ l.node = n /\ l.cmd = line[t].cmd
        /\ l.route = line[t].route
    BY <1>2 DEF Records
  <2>4. line' \in [Lines -> Records] /\ line'[t] = l /\ \A u \in Lines : u # t => line'[u] = line[u]
    <3> HIDE DEF l
    <3> QED BY <2>1, <2>2 DEF Inv, TypeOK
  <2>8. /\ lo' \in [Nodes -> [DOMAIN Flags -> Seq(Entries)]]
        /\ \A x \in Nodes : x # n => lo'[x] = lo[x]
        /\ \E j \in DOMAIN lo'[n][i] : lo'[n][i][j] = Line(d)
    <3>1. ASSUME NEW y, y = n, NEW h, h = i, NEW e, e = d
          PROVE  Lists(y, h, e)' /\ lo' \in [Nodes -> [DOMAIN Flags -> Seq(Entries)]]
                 /\ \A x \in Nodes : x # y => lo'[x] = lo[x]
      <4>1. lo' = IF Lists(y, h, e) THEN lo ELSE [lo EXCEPT ![y][h] = Append(@, Line(e))]
        BY <2>1, <3>1
      <4> QED BY <1>2, <1>3, <3>1, <4>1, ListedLine DEF Inv
    <3> QED BY <3>1 DEF Lists, Line
  <2>10. /\ env' \in Histories /\ env'.added = env.added
         /\ \A x \in Nodes, e \in Digits : x # n /\ <<x, e>> \in env.refused => <<x, e>> \in env'.refused
    <3>1. env \in Histories /\ env.refused \ {<<n, d>>} \subseteq Nodes \X Digits
      BY DEF Inv, TypeOK, Histories
    <3>2. env' \in Histories /\ env'.added = env.added /\ env'.refused = env.refused \ {<<n, d>>}
      BY <2>1, <3>1 DEF Histories
    <3> QED BY <3>2
  <2>11. TypeOK'
    BY <1>2, <1>4, <2>1, <2>4, <2>8, <2>10 DEF Inv, TypeOK, packets
  <2>12. Change(t)
    BY <1>2, <1>4, <2>1, <2>4, <2>8, <2>10 DEF Change, packets
  <2>13. LineInv(t)'
    <3>1. FlagInv(t)'
      BY <1>2, <2>1, <2>3, <2>4 DEF FlagInv, Holding, Scanning
    <3>2. ListInv(t)'
      BY <1>3, <2>3, <2>4, <2>8 DEF ListInv, Scanning, Lists, Line
    <3>3. FileInv(t)'
      BY <2>3, <2>4 DEF FileInv
    <3> QED BY <3>1, <3>2, <3>3 DEF LineInv
  <2> QED BY <2>11, <2>12, <2>13, Mine
<1> QED BY <1>5, <1>6

\* The directory of a node with the packets added to the bundle d
Archived(n, d) ==
  [bundle EXCEPT ![n] =
     [e \in DOMAIN bundle[n] \cup {d} |-> (IF e \in DOMAIN bundle[n] THEN bundle[n][e] ELSE {})
                                            \cup (IF e = d THEN pkt ELSE {})]]

LEMMA ArchivedType ==
  ASSUME TypeOK, NEW n \in Nodes, NEW d \in Digits
  PROVE  Archived(n, d) \in [Nodes -> Dirs] /\ \A x \in Nodes : x # n => Archived(n, d)[x] = bundle[x]
<1> DEFINE b == bundle[n]
           X(e) == (IF e \in DOMAIN b THEN b[e] ELSE {}) \cup (IF e = d THEN pkt ELSE {})
           f == [e \in DOMAIN b \cup {d} |-> X(e)]
<1>1. b \in Dirs /\ pkt \subseteq Mail /\ DOMAIN b \cup {d} \subseteq Digits
  BY DirFacts DEF TypeOK
<1>2. \A e : X(e) \subseteq Mail
  BY <1>1, DirFacts
<1>3. f \in [DOMAIN b \cup {d} -> SUBSET Mail]
  <2> HIDE DEF X
  <2> QED BY <1>2
<1>4. f \in Dirs
  BY <1>1, <1>3, DirFacts
<1>5. Archived(n, d) = [bundle EXCEPT ![n] = f]
  BY DEF Archived
<1> HIDE DEF f
<1> QED BY <1>4, <1>5 DEF TypeOK

LEMMA ArchiveStep ==
  ASSUME Inv, NEW t \in Lines, Archive(t)
  PROVE  Inv'
<1> DEFINE n == line[t].node
           d == line[t].name
<1>1. /\ line[t].at = "archive" /\ Packed(t) /\ bundle' \in {bundle, Archived(n, d)}
      /\ shelf' \in {shelf, shelf \cup pkt} /\ pkt' = {}
      /\ UNCHANGED <<xpr, aside, out, stray, lo, arrived, env>>
  BY DEF Archive, At, Archived
<1>2. n \in Nodes /\ busy[n] = t /\ d \in Digits
  BY <1>1, Places, Fields DEF Inv, LineInv, FlagInv, Holding
<1>3. /\ line' \in [Lines -> Records] /\ busy' \in [Nodes -> Lines \cup {None, "left"}]
      /\ \A u \in Lines : u # t => line'[u] = line[u]
      /\ \A x \in Nodes : busy[x] \in Lines /\ busy[x] # t => busy'[x] = busy[x]
      /\ LineInv(t)'
  BY <1>1, PackedLine
<1>4. bundle' \in [Nodes -> Dirs] /\ \A x \in Nodes : x # n => bundle'[x] = bundle[x]
  BY <1>1, <1>2, ArchivedType DEF Inv, TypeOK
<1>5. TypeOK'
  BY <1>1, <1>3, <1>4 DEF Inv, TypeOK
<1>6. Change(t)
  BY <1>1, <1>2, <1>3, <1>4 DEF Change
<1> QED BY <1>3, <1>5, <1>6, Mine

LEMMA RestoreStep ==
  ASSUME Inv, NEW t \in Lines, Restore(t)
  PROVE  Inv'
<1>1. PICK n \in line[t].todo :
        /\ aside[n] # {}
        /\ line' = [line EXCEPT ![t].todo = @ \ {n}]
        /\ IF out[n] # {} /\ Open(n) THEN UNCHANGED <<aside, out, env>>
           ELSE /\ out' = [out EXCEPT ![n] = @ \cup aside[n]]
                /\ aside' = [aside EXCEPT ![n] = {}]
                /\ env' = IF out[n] = {} THEN env ELSE [env EXCEPT !.added = @ \cup aside[n]]
  BY DEF Restore
<1>2. /\ line[t].at = "restore" /\ line[t] \in Records /\ n \in Nodes
      /\ UNCHANGED <<xpr, pkt, shelf, stray, bundle, lo, busy, arrived>>
  BY Places, Fields DEF Restore, At
<1> DEFINE ns == line[t].todo \ {n}
           l == [line[t] EXCEPT !.todo = ns]
<1>3. l \in Records /\ l.at = "restore"
  <2>1. ns \in SUBSET Nodes
    BY <1>2, Fields
  <2> HIDE DEF ns
  <2> QED BY <1>2, <2>1 DEF Records
<1>4. line' \in [Lines -> Records] /\ line'[t].at = "restore" /\ \A u \in Lines : u # t => line'[u] = line[u]
  <2>1. line' = [line EXCEPT ![t] = l]
    BY <1>1 DEF Inv, TypeOK
  <2> HIDE DEF l
  <2> QED BY <1>3, <2>1 DEF Inv, TypeOK
<1>5. /\ aside' \in [Nodes -> SUBSET Mail] /\ out' \in [Nodes -> SUBSET Mail]
      /\ env' \in Histories /\ env.added \subseteq env'.added /\ env'.refused = env.refused
      /\ \A x \in Nodes : out[x] # {} =>
           out'[x] # {} /\ \A m \in out'[x] : m \in out[x] \/ m \in env'.added
  <2>1. /\ aside \in [Nodes -> SUBSET Mail] /\ out \in [Nodes -> SUBSET Mail] /\ env \in Histories
    BY DEF Inv, TypeOK
  <2>2. CASE out[n] # {} /\ Open(n)
    BY <1>1, <2>1, <2>2
  <2>3. CASE ~(out[n] # {} /\ Open(n))
    <3>1. /\ aside' \in [Nodes -> SUBSET Mail] /\ out' \in [Nodes -> SUBSET Mail]
          /\ out'[n] = out[n] \cup aside[n] /\ \A x \in Nodes : x # n => out'[x] = out[x]
      BY <1>1, <1>2, <2>1, <2>3
    <3>2. CASE out[n] = {}
      <4>1. env' = env
        BY <1>1, <2>3, <3>2
      <4> QED BY <2>1, <3>1, <3>2, <4>1
    <3>3. CASE out[n] # {}
      <4>1. env.added \cup aside[n] \subseteq Mail
        BY <1>2, <2>1 DEF Histories
      <4>2. env' = [env EXCEPT !.added = @ \cup aside[n]]
        BY <1>1, <2>3, <3>3
      <4>3. env' \in Histories /\ env'.added = env.added \cup aside[n] /\ env'.refused = env.refused
        BY <2>1, <4>1, <4>2 DEF Histories
      <4> QED BY <3>1, <4>3
    <3> QED BY <3>2, <3>3
  <2> QED BY <2>2, <2>3
<1>6. TypeOK'
  BY <1>2, <1>4, <1>5 DEF Inv, TypeOK
<1>7. Change(t)
  BY <1>2, <1>4, <1>5 DEF Change
<1> QED BY <1>4, <1>6, <1>7, Mine, Quiet

-----------------------------------------------------------------------------
(* Sessions *)

\* A session that works on an address has its flag, and is at one of the places it has.
LEMMA InSession ==
  ASSUME Inv, NEW t \in Lines, Scanning(t)
  PROVE  /\ line[t] \in Records /\ line[t].node \in Nodes
         /\ line[t].ok[line[t].k] => busy[line[t].node] = t
         /\ Holding(t) => line[t].ok[line[t].k]
         /\ line[t].ext = 0 => line[t].pos = 0
         /\ FlagInv(t) /\ FileInv(t) /\ ListInv(t)
         /\ line[t].at # "find" /\ line[t].at \notin {"list", "archive"}
<1>1. line[t] \in Records /\ FlagInv(t) /\ FileInv(t) /\ ListInv(t)
  BY Places DEF Inv, LineInv
<1>2. line[t].node \in Nodes
  BY Places
<1>3. /\ line[t].ok[line[t].k] => busy[line[t].node] = t
      /\ Holding(t) => line[t].ok[line[t].k]
  BY <1>1 DEF FlagInv
<1>4. line[t].ext = 0 => line[t].pos = 0
  BY <1>1 DEF ListInv
<1>5. line[t].at # "find" /\ line[t].at \notin {"list", "archive"}
  BY DEF Scanning
<1> QED BY <1>1, <1>2, <1>3, <1>4, <1>5

LEMMA ConnectStep ==
  ASSUME Inv, NEW t \in Lines, Connect(t)
  PROVE  Inv'
<1>1. PICK list \in Sessions, orig \in BOOLEAN :
        LET ok == [k \in DOMAIN list |-> busy[list[k]] = None] IN
        /\ orig => \E k \in DOMAIN list : ok[k]
        /\ line' = [line EXCEPT ![t] = [Idle EXCEPT !.at = "scan", !.list = list, !.ok = ok,
                                           !.orig = orig, !.k = 1, !.node = list[1]]]
        /\ busy' = [n \in Nodes |-> IF \E k \in DOMAIN list : list[k] = n /\ ok[k] THEN t ELSE busy[n]]
  BY DEF Connect
<1> DEFINE ok == [k \in DOMAIN list |-> busy[list[k]] = None]
           n1 == list[1]
           l == [Idle EXCEPT !.at = "scan", !.list = list, !.ok = ok, !.orig = orig, !.k = 1, !.node = n1]
<1>2. /\ DOMAIN list = 1 .. Len(list) /\ Len(list) \in Nat /\ 1 \in DOMAIN list
      /\ n1 \in Nodes /\ \A k \in DOMAIN list : list[k] \in Nodes
  BY Constants
<1>3. ok \in Seq(BOOLEAN) /\ DOMAIN ok = DOMAIN list
  BY <1>2
<1>4. l \in Records
  <2> HIDE DEF ok, n1
  <2> QED BY <1>2, <1>3, IdleRecord DEF Records
<1>5. /\ l.at = "scan" /\ l.list = list /\ l.ok = ok /\ l.k = 1 /\ l.node = n1
      /\ l.ext = 0 /\ l.pos = 0
  <2> HIDE DEF ok, n1
  <2> QED BY DEF Idle
<1>6. line' \in [Lines -> Records] /\ line'[t] = l /\ \A u \in Lines : u # t => line'[u] = line[u]
  <2>1. line' = [line EXCEPT ![t] = l]
    BY <1>1
  <2> HIDE DEF l
  <2> QED BY <1>4, <2>1 DEF Inv, TypeOK
<1>7. /\ busy' \in [Nodes -> Lines \cup {None, "left"}]
      /\ \A k \in DOMAIN list : ok[k] => busy'[list[k]] = t
      /\ \A n \in Nodes : busy[n] \in Lines /\ busy[n] # t => busy'[n] = busy[n]
  <2>1. busy' = [n \in Nodes |-> IF \E k \in DOMAIN list : list[k] = n /\ ok[k] THEN t ELSE busy[n]]
    BY <1>1
  <2>2. \A k \in DOMAIN list : ok[k] => busy[list[k]] = None
    OBVIOUS
  <2> HIDE DEF ok
  <2> QED BY <1>2, <2>1, <2>2, Constants DEF Inv, TypeOK
<1>8. /\ env.calls > 0 /\ env' = [env EXCEPT !.calls = @ - 1]
      /\ UNCHANGED <<packets, bundle, lo, arrived>>
  BY DEF Connect
<1>9. env' \in Histories /\ env'.added = env.added /\ env'.refused = env.refused
  <2>1. env \in Histories /\ env.calls \in Nat /\ env.calls - 1 \in Nat
    BY <1>8 DEF Inv, TypeOK, Histories
  <2> QED BY <1>8, <2>1 DEF Histories
<1>10. TypeOK'
  BY <1>6, <1>7, <1>8, <1>9 DEF Inv, TypeOK, packets
<1>11. Change(t)
  BY <1>6, <1>7, <1>8, <1>9 DEF Change, packets
<1>12. LineInv(t)'
  <2>1. \A k \in DOMAIN list : ok[k] => busy'[list[k]] = t
    BY <1>7
  <2> HIDE DEF ok, l
  <2>2. FlagInv(t)'
    BY <1>2, <1>3, <1>5, <1>6, <2>1 DEF FlagInv, Holding, Scanning
  <2>3. FileInv(t)' /\ ListInv(t)'
    BY <1>5, <1>6 DEF FileInv, ListInv, Scanning
  <2> QED BY <2>2, <2>3 DEF LineInv
<1> QED BY <1>10, <1>11, <1>12, Mine

LEMMA SendOutStep ==
  ASSUME Inv, NEW t \in Lines, SendOut(t)
  PROVE  Inv'
<1> DEFINE at == Offer(line[t])
           l == [line[t] EXCEPT !.at = at]
<1>1. /\ line[t].at = "scan" /\ line[t].ok[line[t].k] /\ line[t].ext = 0 /\ out[line[t].node] # {}
      /\ UNCHANGED <<packets, bundle, lo, busy, arrived, env>>
  BY DEF SendOut, At
<1>2. Scanning(t)
  BY <1>1 DEF Scanning
<1>3. at \in {"done", "send"}
  BY DEF Offer
<1>4. line' = [line EXCEPT ![t] = l]
  BY DEF SendOut, Goes, Inv, TypeOK
<1> HIDE DEF at
<1>5. l \in Records
  BY <1>2, <1>3, InSession DEF Records
<1>6. /\ l.at = at /\ l.list = line[t].list /\ l.ok = line[t].ok /\ l.k = line[t].k
      /\ l.node = line[t].node /\ l.ext = 0 /\ l.pos = 0
  BY <1>1, <1>2, InSession DEF Records
<1>7. line'[t] = l
  BY <1>4 DEF Inv, TypeOK
<1>8. TypeOK' /\ Change(t)
  <2>1. busy' \in [Nodes -> Lines \cup {None, "left"}]
    BY <1>1 DEF Inv, TypeOK
  <2> HIDE DEF l
  <2>2. TypeOK'
    BY <1>1, <1>4, <1>5, <2>1, MoveTypes DEF Inv
  <2>3. Change(t)
    BY <1>1, <1>4, MoveChange DEF Inv
  <2> QED BY <2>2, <2>3
<1>9. LineInv(t)'
  <2>1. CASE at = "done"
    <3>1. line'[t].at = "done"
      BY <1>6, <1>7, <2>1
    <3> QED BY <3>1, Quiet
  <2>2. CASE at = "send"
    <3>1. /\ line[t].k \in DOMAIN line[t].list /\ DOMAIN line[t].ok = DOMAIN line[t].list
          /\ line[t].node = line[t].list[line[t].k]
          /\ \A j \in DOMAIN line[t].list : line[t].ok[j] => busy[line[t].list[j]] = t
      BY <1>2, InSession DEF FlagInv
    <3> HIDE DEF l
    <3>2. FlagInv(t)'
      BY <1>1, <1>6, <1>7, <2>2, <3>1 DEF FlagInv, Holding, Scanning
    <3>3. FileInv(t)' /\ ListInv(t)'
      BY <1>1, <1>6, <1>7, <2>2 DEF FileInv, ListInv, Scanning, packets
    <3> QED BY <3>2, <3>3 DEF LineInv
  <2> QED BY <1>3, <2>1, <2>2
<1> QED BY <1>8, <1>9, Mine

\* Lists that have been read to their end, and their node
LEMMA WithoutLists ==
  ASSUME TypeOK, NEW l \in Records, l.node \in Nodes, NEW S
  PROVE  /\ Without(l, S) \in [Nodes -> [DOMAIN Flags -> Seq(Entries)]]
         /\ \A x \in Nodes : x # l.node => Without(l, S)[x] = lo[x]
         /\ \A i \in DOMAIN Flags :
              Without(l, S)[l.node][i] = IF i \in S /\ i >= l.ext /\ Reads(l, i) THEN <<>> ELSE lo[l.node][i]
<1> DEFINE X(i) == IF i \in S /\ i >= l.ext /\ Reads(l, i) THEN <<>> ELSE lo[l.node][i]
           f == [i \in DOMAIN Flags |-> X(i)]
<1>1. lo \in [Nodes -> [DOMAIN Flags -> Seq(Entries)]] /\ <<>> \in Seq(Entries)
  BY DEF TypeOK
<1>2. \A i \in DOMAIN Flags : X(i) \in Seq(Entries)
  BY <1>1
<1>3. f \in [DOMAIN Flags -> Seq(Entries)] /\ \A i \in DOMAIN Flags : f[i] = X(i)
  <2> HIDE DEF X
  <2> QED BY <1>2
<1>4. Without(l, S) = [lo EXCEPT ![l.node] = f]
  BY DEF Without
<1> HIDE DEF f
<1>5. Without(l, S) \in [Nodes -> [DOMAIN Flags -> Seq(Entries)]]
  BY <1>1, <1>3, <1>4
<1>6. (\A x \in Nodes : x # l.node => Without(l, S)[x] = lo[x]) /\ Without(l, S)[l.node] = f
  BY <1>1, <1>4
<1> QED BY <1>3, <1>5, <1>6

LEMMA GoesLine ==
  ASSUME TypeOK, NEW t \in Lines, NEW at \in States, Goes(t, at)
  PROVE  /\ line' \in [Lines -> Records] /\ \A u \in Lines : u # t => line'[u] = line[u]
         /\ line'[t] = [line[t] EXCEPT !.at = at] /\ line'[t].at = at
         /\ line'[t].list = line[t].list /\ line'[t].ok = line[t].ok /\ line'[t].k = line[t].k
         /\ line'[t].node = line[t].node /\ line'[t].ext = line[t].ext
         /\ line'[t].pos = line[t].pos /\ line'[t].name = line[t].name
<1> DEFINE l == [line[t] EXCEPT !.at = at]
<1>1. line[t] \in Records
  BY DEF TypeOK
<1>2. l \in Records
  BY <1>1 DEF Records, States
<1>3. /\ l.at = at /\ l.list = line[t].list /\ l.ok = line[t].ok /\ l.k = line[t].k
      /\ l.node = line[t].node /\ l.ext = line[t].ext /\ l.pos = line[t].pos /\ l.name = line[t].name
  BY <1>1 DEF Records
<1>4. line' = [line EXCEPT ![t] = l]
  BY DEF Goes, TypeOK
<1>5. line' \in [Lines -> Records] /\ line'[t] = l /\ \A u \in Lines : u # t => line'[u] = line[u]
  <2> HIDE DEF l
  <2> QED BY <1>2, <1>4 DEF TypeOK
<1> QED BY <1>3, <1>5

\* The session stays at its address.
LEMMA SameAddress ==
  ASSUME Inv, NEW t \in Lines, Scanning(t), UNCHANGED busy,
         line'[t].list = line[t].list, line'[t].ok = line[t].ok, line'[t].k = line[t].k,
         line'[t].node = line[t].node,
         line'[t].at \in {"scan", "send", "sent", "unlink", "strike"},
         line'[t].at = "scan" \/ line[t].ok[line[t].k]
  PROVE  FlagInv(t)'
<1>1. /\ line[t].k \in DOMAIN line[t].list /\ DOMAIN line[t].ok = DOMAIN line[t].list
      /\ line[t].node = line[t].list[line[t].k]
      /\ \A j \in DOMAIN line[t].list : line[t].ok[j] => busy[line[t].list[j]] = t
  BY InSession DEF FlagInv
<1> QED BY <1>1 DEF FlagInv, Holding, Scanning

\* The session goes on to its next address, or has none.
LEMMA NextAddressLine ==
  ASSUME Inv, NEW t \in Lines, Scanning(t), NEW l \in Records,
         l.list = line[t].list, l.ok = line[t].ok, l.k = line[t].k,
         line' = [line EXCEPT ![t] = NextAddress(l)], UNCHANGED busy
  PROVE  /\ line' \in [Lines -> Records] /\ LineInv(t)'
         /\ \A u \in Lines : u # t => line'[u] = line[u]
<1>1. /\ l.list \in Sessions /\ l.k \in 1 .. Len(l.list) /\ Len(l.list) \in Nat
      /\ DOMAIN l.list = 1 .. Len(l.list)
      /\ \A j \in DOMAIN l.list : l.list[j] \in Nodes
      /\ DOMAIN l.ok = DOMAIN l.list
      /\ \A j \in DOMAIN l.list : l.ok[j] => busy[l.list[j]] = t
  BY Places, InSession DEF FlagInv
<1>2. CASE l.k < Len(l.list)
  <2> DEFINE n == l.list[l.k + 1]
             k == l.k + 1
             l2 == [l EXCEPT !.at = "scan", !.k = k, !.node = n, !.ext = 0, !.pos = 0]
  <2>1. n \in Nodes /\ k \in DOMAIN l.list /\ k \in Nat /\ n = l.list[k]
    BY <1>1, <1>2
  <2>2. line' = [line EXCEPT ![t] = l2]
    BY <1>2 DEF NextAddress
  <2> HIDE DEF n, k
  <2>3. l2 \in Records
    BY <2>1 DEF Records
  <2>4. /\ l2.at = "scan" /\ l2.k = k /\ l2.node = n /\ l2.ext = 0 /\ l2.pos = 0
        /\ l2.list = l.list /\ l2.ok = l.ok
    BY DEF Records
  <2> HIDE DEF l2
  <2>5. line' \in [Lines -> Records] /\ line'[t] = l2 /\ \A u \in Lines : u # t => line'[u] = line[u]
    BY <2>2, <2>3 DEF Inv, TypeOK
  <2>6. FlagInv(t)'
    BY <1>1, <2>1, <2>4, <2>5 DEF FlagInv, Holding, Scanning
  <2>7. FileInv(t)' /\ ListInv(t)'
    BY <2>4, <2>5 DEF FileInv, ListInv, Scanning
  <2> QED BY <2>5, <2>6, <2>7 DEF LineInv
<1>3. CASE ~(l.k < Len(l.list))
  <2> DEFINE l2 == [l EXCEPT !.at = "done"]
  <2>1. line' = [line EXCEPT ![t] = l2]
    BY <1>3 DEF NextAddress
  <2>2. l2 \in Records /\ l2.at = "done"
    BY DEF Records
  <2> HIDE DEF l2
  <2>3. line' \in [Lines -> Records] /\ line'[t].at = "done" /\ \A u \in Lines : u # t => line'[u] = line[u]
    BY <2>1, <2>2 DEF Inv, TypeOK
  <2>4. LineInv(t)'
    BY <2>3, Quiet
  <2> QED BY <2>3, <2>4
<1> QED BY <1>2, <1>3

LEMMA EndAddressStep ==
  ASSUME Inv, NEW t \in Lines, EndAddress(t)
  PROVE  Inv'
<1>1. /\ line[t].at = "scan" /\ line' = [line EXCEPT ![t] = NextAddress(line[t])]
      /\ IF line[t].ok[line[t].k] THEN lo' = Without(line[t], DOMAIN Flags) ELSE UNCHANGED lo
      /\ UNCHANGED <<packets, bundle, busy, arrived, env>>
  BY DEF EndAddress, At
<1>2. Scanning(t)
  BY <1>1 DEF Scanning
<1>3. /\ line[t] \in Records /\ line[t].node \in Nodes
      /\ line[t].ok[line[t].k] => busy[line[t].node] = t
  BY <1>2, InSession
<1>4. /\ line' \in [Lines -> Records] /\ LineInv(t)'
      /\ \A u \in Lines : u # t => line'[u] = line[u]
  BY <1>1, <1>2, <1>3, NextAddressLine
<1>5. /\ lo' \in [Nodes -> [DOMAIN Flags -> Seq(Entries)]]
      /\ \A x \in Nodes : busy[x] # t => lo'[x] = lo[x]
  <2>1. CASE line[t].ok[line[t].k]
    BY <1>1, <1>3, <2>1, WithoutLists DEF Inv
  <2>2. CASE ~line[t].ok[line[t].k]
    BY <1>1, <2>2 DEF Inv, TypeOK
  <2> QED BY <2>1, <2>2
<1>6. TypeOK'
  BY <1>1, <1>4, <1>5 DEF Inv, TypeOK, packets
<1>7. Change(t)
  BY <1>1, <1>4, <1>5 DEF Change, packets
<1> QED BY <1>4, <1>6, <1>7, Mine

LEMMA HaltStep ==
  ASSUME Inv, NEW t \in Lines, Halt(t)
  PROVE  Inv'
<1> DEFINE l == [line[t] EXCEPT !.halted = TRUE]
<1>1. /\ line[t].at \in {"send", "sent"} /\ line' = [line EXCEPT ![t] = NextAddress(l)]
      /\ lo' = Without(line[t], {i \in DOMAIN Flags : i # line[t].ext /\ Due(line[t], i) = {}})
      /\ UNCHANGED <<packets, bundle, busy, arrived, env>>
  BY DEF Halt
<1>2. Scanning(t) /\ Holding(t)
  BY <1>1 DEF Scanning, Holding
<1>3. line[t] \in Records /\ line[t].node \in Nodes /\ busy[line[t].node] = t
  BY <1>2, InSession
<1>4. l \in Records /\ l.list = line[t].list /\ l.ok = line[t].ok /\ l.k = line[t].k
  BY <1>3 DEF Records
<1>5. /\ line' \in [Lines -> Records] /\ LineInv(t)'
      /\ \A u \in Lines : u # t => line'[u] = line[u]
  <2> HIDE DEF l
  <2> QED BY <1>1, <1>2, <1>4, NextAddressLine
<1>6. /\ lo' \in [Nodes -> [DOMAIN Flags -> Seq(Entries)]]
      /\ \A x \in Nodes : busy[x] # t => lo'[x] = lo[x]
  BY <1>1, <1>3, WithoutLists DEF Inv
<1>7. TypeOK'
  BY <1>1, <1>5, <1>6 DEF Inv, TypeOK, packets
<1>8. Change(t)
  BY <1>1, <1>5, <1>6 DEF Change, packets
<1> QED BY <1>5, <1>7, <1>8, Mine

\* The lines before the one that is found name nothing that is there.
LEMMA NothingBefore ==
  ASSUME Inv, NEW t \in Lines, line[t].at = "scan", line[t].ok[line[t].k],
         NEW i \in DOMAIN Flags, Reads(line[t], i), i >= line[t].ext,
         NEW h \in DOMAIN lo[line[t].node][i], ~lo[line[t].node][i][h].sent,
         h \notin Due(line[t], i)
  PROVE  lo[line[t].node][i][h].name \notin DOMAIN bundle[line[t].node]
<1> DEFINE l == line[t]
<1>1. Scanning(t)
  BY DEF Scanning
<1>2. ListInv(t) /\ l.ext \in {0} \cup DOMAIN Flags /\ l.pos \in Nat /\ l.node \in Nodes
  BY <1>1, InSession, Fields
<1>3. h \in Nat
  <2>1. lo[l.node][i] \in Seq(Entries)
    BY <1>2 DEF Inv, TypeOK
  <2> QED BY <2>1
<1>4. CASE i = l.ext /\ ~(h > l.pos)
  <2>1. l.ext # 0 /\ (h < l.pos \/ h = l.pos)
    BY <1>2, <1>3, <1>4, Constants
  <2> QED BY <1>1, <1>2, <1>4, <2>1 DEF ListInv
<1>5. CASE ~(i = l.ext /\ ~(h > l.pos))
  BY <1>5 DEF Due
<1> QED BY <1>4, <1>5

LEMMA SendListedStep ==
  ASSUME Inv, NEW t \in Lines, SendListed(t)
  PROVE  Inv'
<1> DEFINE n == line[t].node
<1>1. /\ line[t].at = "scan" /\ line[t].ok[line[t].k]
      /\ UNCHANGED <<packets, bundle, busy, arrived, env>>
  BY DEF SendListed, At
<1>15. PICK i \in DOMAIN Flags : \E j \in Due(line[t], i) :
        /\ \A h \in Due(line[t], i) : j <= h
        /\ lo' = Without(line[t], 1 .. i - 1)
        /\ line' = [line EXCEPT ![t] = [line[t] EXCEPT !.at = Offer(line[t]), !.ext = i, !.pos = j,
                                               !.name = lo[n][i][j].name]]
  BY DEF SendListed
<1>2. PICK j \in Due(line[t], i) :
        /\ \A h \in Due(line[t], i) : j <= h
        /\ lo' = Without(line[t], 1 .. i - 1)
        /\ line' = [line EXCEPT ![t] = [line[t] EXCEPT !.at = Offer(line[t]), !.ext = i, !.pos = j,
                                               !.name = lo[n][i][j].name]]
  BY <1>15
<1> DEFINE at == Offer(line[t])
           d == lo[n][i][j].name
           l == [line[t] EXCEPT !.at = at, !.ext = i, !.pos = j, !.name = d]
<1>3. Scanning(t)
  BY <1>1 DEF Scanning
<1>4. line[t] \in Records /\ n \in Nodes /\ busy[n] = t
  BY <1>1, <1>3, InSession
<1>5. /\ Reads(line[t], i) /\ i >= line[t].ext /\ j \in DOMAIN lo[n][i]
      /\ d \in DOMAIN bundle[n]
  BY DEF Due
<1>6. lo[n][i] \in Seq(Entries) /\ j \in Nat /\ d \in Digits
  <2>1. lo[n][i] \in Seq(Entries)
    BY <1>4 DEF Inv, TypeOK
  <2>2. j \in Nat /\ lo[n][i][j] \in Entries
    BY <1>5, <2>1
  <2> QED BY <2>1, <2>2 DEF Entries
<1>7. at \in {"done", "send"}
  BY DEF Offer
<1> HIDE DEF at, d
<1>8. l \in Records
  BY <1>4, <1>6, <1>7 DEF Records
<1>9. /\ l.at = at /\ l.ext = i /\ l.pos = j /\ l.name = d
      /\ l.list = line[t].list /\ l.ok = line[t].ok /\ l.k = line[t].k /\ l.node = n
  BY <1>4 DEF Records
<1>10. line' \in [Lines -> Records] /\ line'[t] = l /\ \A u \in Lines : u # t => line'[u] = line[u]
  <2>1. line' = [line EXCEPT ![t] = l]
    BY <1>2 DEF at, d
  <2> HIDE DEF l
  <2> QED BY <1>8, <2>1 DEF Inv, TypeOK
<1>11. /\ lo' \in [Nodes -> [DOMAIN Flags -> Seq(Entries)]]
       /\ \A x \in Nodes : x # n => lo'[x] = lo[x]
       /\ lo'[n][i] = lo[n][i]
  <2>1. lo' = Without(line[t], 1 .. i - 1) /\ i \notin 1 .. i - 1
    BY <1>2, Constants
  <2> DEFINE r == line[t]
             S == 1 .. i - 1
  <2>2. TypeOK /\ r \in Records /\ r.node \in Nodes
    BY <1>4 DEF Inv
  <2> HIDE DEF l, r, S
  <2>3. /\ Without(r, S) \in [Nodes -> [DOMAIN Flags -> Seq(Entries)]]
        /\ \A x \in Nodes : x # r.node => Without(r, S)[x] = lo[x]
        /\ \A h \in DOMAIN Flags : h \notin S => Without(r, S)[r.node][h] = lo[r.node][h]
    BY <2>2, WithoutLists
  <2>4. lo' = Without(r, S) /\ i \notin S /\ n = r.node
    BY <2>1 DEF r, S
  <2> HIDE DEF n
  <2> QED BY <2>3, <2>4
<1>12. TypeOK'
  BY <1>1, <1>10, <1>11 DEF Inv, TypeOK, packets
<1>13. Change(t)
  BY <1>1, <1>4, <1>10, <1>11 DEF Change, packets
<1> HIDE DEF l
<1>14. LineInv(t)'
  <2>1. CASE at = "done"
    <3>1. line'[t].at = "done"
      BY <1>9, <1>10, <2>1
    <3> QED BY <3>1, Quiet
  <2>2. CASE at = "send"
    <3>1. FlagInv(t)'
      BY <1>1, <1>3, <1>9, <1>10, <2>2, SameAddress
    <3>2. i # 0
      BY Constants
    <3>3. FileInv(t)'
      BY <1>1, <1>5, <1>9, <1>10, <2>2, <3>2 DEF FileInv, d
    <3>4. ASSUME NEW h \in DOMAIN lo[n][i], h < j, ~lo[n][i][h].sent
          PROVE  lo[n][i][h].name \notin DOMAIN bundle[n]
      <4>1. h \in Nat
        BY <1>6
      <4>2. h \notin Due(line[t], i)
        BY <1>2, <1>6, <3>4, <4>1
      <4> QED BY <1>1, <1>5, <3>4, <4>2, NothingBefore
    <3>5. ListInv(t)'
      <4>1. /\ line'[t].at = "send" /\ line'[t].ext = i /\ line'[t].pos = j /\ line'[t].name = d
            /\ line'[t].node = n
        BY <1>9, <1>10, <2>2
      <4>2. j \in DOMAIN lo'[n][i] /\ lo'[n][i][j].name = d
        BY <1>5, <1>11 DEF d
      <4>3. \A h \in DOMAIN lo'[n][i] : h < j /\ ~lo'[n][i][h].sent =>
              lo'[n][i][h].name \notin DOMAIN bundle'[n]
        BY <1>1, <1>11, <3>4
      <4> QED BY <3>2, <4>1, <4>2, <4>3 DEF ListInv, Scanning
    <3> QED BY <3>1, <3>3, <3>5 DEF LineInv
  <2> QED BY <1>7, <2>1, <2>2
<1> QED BY <1>12, <1>13, <1>14, Mine

LEMMA ArriveStep ==
  ASSUME Inv, NEW t \in Lines, Arrive(t)
  PROVE  Inv'
<1> DEFINE n == line[t].node
           c == Contents(line[t])
<1>1. /\ line[t].at = "send" /\ Goes(t, "sent") /\ arrived' = arrived \cup (c \X {n})
      /\ UNCHANGED <<packets, bundle, lo, busy, env>>
  BY DEF Arrive, At
<1>2. Scanning(t) /\ Holding(t)
  BY <1>1 DEF Scanning, Holding
<1>3. /\ line[t] \in Records /\ n \in Nodes /\ FileInv(t) /\ ListInv(t)
      /\ line[t].ok[line[t].k]
  BY <1>2, InSession
<1>4. /\ line' \in [Lines -> Records] /\ \A u \in Lines : u # t => line'[u] = line[u]
      /\ line'[t].at = "sent" /\ line'[t].list = line[t].list /\ line'[t].ok = line[t].ok
      /\ line'[t].k = line[t].k /\ line'[t].node = n /\ line'[t].ext = line[t].ext
      /\ line'[t].pos = line[t].pos /\ line'[t].name = line[t].name
  BY <1>1, GoesLine DEF Inv, States
<1>5. c = IF line[t].ext = 0 THEN out[n] ELSE bundle[n][line[t].name]
  BY DEF Contents
<1>6. c \subseteq Mail
  <2>1. line[t].ext # 0 => line[t].name \in DOMAIN bundle[n]
    BY <1>1, <1>3 DEF FileInv
  <2> QED BY <1>3, <1>5, <2>1, DirFacts DEF Inv, TypeOK
<1> HIDE DEF c
<1>7. TypeOK'
  BY <1>1, <1>3, <1>4, <1>6 DEF Inv, TypeOK, packets
<1>8. Change(t)
  BY <1>1, <1>4 DEF Change, packets
<1>9. LineInv(t)'
  <2>1. FlagInv(t)'
    BY <1>1, <1>2, <1>3, <1>4, SameAddress
  <2>2. FileInv(t)'
    BY <1>1, <1>3, <1>4, <1>5 DEF FileInv, packets
  <2>3. ListInv(t)'
    BY <1>1, <1>2, <1>3, <1>4 DEF ListInv, Scanning
  <2> QED BY <2>1, <2>2, <2>3 DEF LineInv
<1> QED BY <1>7, <1>8, <1>9, Mine

LEMMA AcknowledgedStep ==
  ASSUME Inv, NEW t \in Lines, Acknowledged(t)
  PROVE  Inv'
<1>1. /\ line[t].at = "sent" /\ Goes(t, "unlink")
      /\ UNCHANGED <<packets, bundle, lo, busy, arrived, env>>
  BY DEF Acknowledged, At
<1>2. Scanning(t) /\ Holding(t)
  BY <1>1 DEF Scanning, Holding
<1>3. FileInv(t) /\ ListInv(t) /\ line[t].ok[line[t].k]
  BY <1>2, InSession
<1>4. /\ line' \in [Lines -> Records] /\ \A u \in Lines : u # t => line'[u] = line[u]
      /\ line'[t].at = "unlink" /\ line'[t].list = line[t].list /\ line'[t].ok = line[t].ok
      /\ line'[t].k = line[t].k /\ line'[t].node = line[t].node /\ line'[t].ext = line[t].ext
      /\ line'[t].pos = line[t].pos /\ line'[t].name = line[t].name
  BY <1>1, GoesLine DEF Inv, States
<1>5. TypeOK'
  BY <1>1, <1>4 DEF Inv, TypeOK, packets
<1>6. Change(t)
  BY <1>1, <1>4 DEF Change, packets
<1>7. LineInv(t)'
  <2>1. FlagInv(t)'
    BY <1>1, <1>2, <1>3, <1>4, SameAddress
  <2>2. FileInv(t)'
    BY <1>1, <1>3, <1>4 DEF FileInv, packets
  <2>3. ListInv(t)'
    BY <1>1, <1>2, <1>3, <1>4 DEF ListInv, Scanning
  <2> QED BY <2>1, <2>2, <2>3 DEF LineInv
<1> QED BY <1>5, <1>6, <1>7, Mine

\* A session that has done with the .OUT begins with the lists.
LEMMA AtFirstList ==
  ASSUME Inv, NEW t \in Lines, Scanning(t), UNCHANGED <<lo, busy>>,
         line'[t].at = "scan", line'[t].ext = 1, line'[t].pos = 0,
         line'[t].list = line[t].list, line'[t].ok = line[t].ok, line'[t].k = line[t].k,
         line'[t].node = line[t].node
  PROVE  LineInv(t)'
<1>1. FlagInv(t)'
  BY SameAddress
<1>2. FileInv(t)'
  BY DEF FileInv
<1>3. ListInv(t)'
  <2> DEFINE s == lo[line[t].node][1]
  <2>1. s \in Seq(Entries)
    <3>1. line[t].node \in Nodes
      BY InSession
    <3>2. 1 \in DOMAIN Flags
      BY Constants
    <3>3. lo \in [Nodes -> [DOMAIN Flags -> Seq(Entries)]]
      BY DEF Inv, TypeOK
    <3> QED BY <3>1, <3>2, <3>3
  <2>2. \A j \in DOMAIN s : j \in Nat /\ j > 0
    <3> HIDE DEF s
    <3>1. DOMAIN s = 1 .. Len(s) /\ Len(s) \in Nat
      BY <2>1
    <3>2. \A j \in 1 .. Len(s) : j \in Nat /\ j > 0
      OBVIOUS
    <3> QED BY <3>1, <3>2
  <2>3. \A j \in DOMAIN s : ~(j < 0) /\ j # 0
    BY <2>2
  <2> QED BY <2>3 DEF ListInv
<1> QED BY <1>1, <1>2, <1>3 DEF LineInv

LEMMA RefusedStep ==
  ASSUME Inv, NEW t \in Lines, Refused(t)
  PROVE  Inv'
<1> DEFINE n == line[t].node
<1>1. line[t].at = "send" /\ UNCHANGED <<packets, bundle, lo, busy, arrived>>
  BY DEF Refused, At
<1>2. Scanning(t) /\ Holding(t)
  BY <1>1 DEF Scanning, Holding
<1>3. /\ line[t] \in Records /\ n \in Nodes /\ FileInv(t) /\ ListInv(t)
      /\ line[t].ok[line[t].k] /\ line[t].name \in Digits
      /\ line[t].ext = 0 => line[t].pos = 0
  BY <1>2, InSession, Fields
<1>4. CASE line[t].ext = 0
  <2> DEFINE l == [line[t] EXCEPT !.at = "scan", !.ext = 1]
  <2>1. line' = [line EXCEPT ![t] = l] /\ UNCHANGED env
    BY <1>4 DEF Refused, Inv, TypeOK
  <2>2. l \in Records
    BY <1>3, Constants DEF Records
  <2>3. /\ l.at = "scan" /\ l.ext = 1 /\ l.pos = 0 /\ l.list = line[t].list
        /\ l.ok = line[t].ok /\ l.k = line[t].k /\ l.node = n
    BY <1>3, <1>4 DEF Records
  <2> HIDE DEF l
  <2>4. line' \in [Lines -> Records] /\ line'[t] = l /\ \A u \in Lines : u # t => line'[u] = line[u]
    BY <2>1, <2>2 DEF Inv, TypeOK
  <2>5. TypeOK'
    BY <1>1, <2>1, <2>4 DEF Inv, TypeOK, packets
  <2>6. Change(t)
    BY <1>1, <2>1, <2>4 DEF Change, packets
  <2>7. LineInv(t)'
    BY <1>1, <1>2, <2>3, <2>4, AtFirstList
  <2> QED BY <2>5, <2>6, <2>7, Mine
<1>5. CASE line[t].ext # 0
  <2>1. /\ Goes(t, "strike") /\ env' = [env EXCEPT !.refused = @ \cup {<<n, line[t].name>>}]
    BY <1>5 DEF Refused
  <2>2. /\ line' \in [Lines -> Records] /\ \A u \in Lines : u # t => line'[u] = line[u]
        /\ line'[t].at = "strike" /\ line'[t].list = line[t].list /\ line'[t].ok = line[t].ok
        /\ line'[t].k = line[t].k /\ line'[t].node = n /\ line'[t].ext = line[t].ext
        /\ line'[t].pos = line[t].pos /\ line'[t].name = line[t].name
    BY <2>1, GoesLine DEF Inv, States
  <2>3. /\ env' \in Histories /\ env'.added = env.added
        /\ env'.refused = env.refused \cup {<<n, line[t].name>>}
    <3> DEFINE r == env.refused \cup {<<n, line[t].name>>}
    <3>1. env \in Histories /\ r \subseteq Nodes \X Digits
      BY <1>3 DEF Inv, TypeOK, Histories
    <3>2. env' = [env EXCEPT !.refused = r]
      BY <2>1
    <3> HIDE DEF r
    <3>3. env' \in Histories /\ env'.added = env.added /\ env'.refused = r
      BY <3>1, <3>2 DEF Histories
    <3> QED BY <3>3 DEF r
  <2>4. TypeOK'
    BY <1>1, <2>2, <2>3 DEF Inv, TypeOK, packets
  <2>5. Change(t)
    BY <1>1, <2>2, <2>3 DEF Change, packets
  <2>6. FlagInv(t)'
    BY <1>1, <1>2, <1>3, <2>2, SameAddress
  <2>7. FileInv(t)'
    BY <2>2 DEF FileInv
  <2>8. ListInv(t)'
    BY <1>1, <1>2, <1>3, <1>5, <2>2, <2>3 DEF ListInv, Scanning
  <2> QED BY <2>4, <2>5, <2>6, <2>7, <2>8, Mine DEF LineInv
<1> QED BY <1>4, <1>5

LEMMA UnlinkStep ==
  ASSUME Inv, NEW t \in Lines, Unlink(t)
  PROVE  Inv'
<1> DEFINE n == line[t].node
<1>1. /\ line[t].at = "unlink"
      /\ UNCHANGED <<xpr, aside, pkt, shelf, stray, lo, busy, arrived, env>>
  BY DEF Unlink, At
<1>2. Scanning(t) /\ Holding(t)
  BY <1>1 DEF Scanning, Holding
<1>3. /\ line[t] \in Records /\ n \in Nodes /\ FileInv(t) /\ ListInv(t)
      /\ line[t].ok[line[t].k] /\ line[t].name \in Digits /\ busy[n] = t
      /\ line[t].ext = 0 => line[t].pos = 0
  BY <1>2, InSession, Fields
<1>4. CASE line[t].ext = 0
  <2> DEFINE l == [line[t] EXCEPT !.at = "scan", !.ext = 1]
  <2>1. /\ line' = [line EXCEPT ![t] = l] /\ out' = [out EXCEPT ![n] = {}] /\ UNCHANGED bundle
    BY <1>4 DEF Unlink, Inv, TypeOK
  <2>2. l \in Records
    BY <1>3, Constants DEF Records
  <2>3. /\ l.at = "scan" /\ l.ext = 1 /\ l.pos = 0 /\ l.list = line[t].list
        /\ l.ok = line[t].ok /\ l.k = line[t].k /\ l.node = n
    BY <1>3, <1>4 DEF Records
  <2> HIDE DEF l
  <2>4. line' \in [Lines -> Records] /\ line'[t] = l /\ \A u \in Lines : u # t => line'[u] = line[u]
    BY <2>1, <2>2 DEF Inv, TypeOK
  <2>5. TypeOK'
    BY <1>1, <1>3, <2>1, <2>4 DEF Inv, TypeOK
  <2>6. Change(t)
    BY <1>1, <1>3, <2>1, <2>4 DEF Change, Inv, TypeOK
  <2>7. LineInv(t)'
    BY <1>1, <1>2, <2>3, <2>4, AtFirstList
  <2> QED BY <2>5, <2>6, <2>7, Mine
<1>5. CASE line[t].ext # 0
  <2>1. /\ bundle' = [bundle EXCEPT ![n][line[t].name] = {}] /\ UNCHANGED out /\ Goes(t, "strike")
    BY <1>5 DEF Unlink
  <2>2. /\ line' \in [Lines -> Records] /\ \A u \in Lines : u # t => line'[u] = line[u]
        /\ line'[t].at = "strike" /\ line'[t].list = line[t].list /\ line'[t].ok = line[t].ok
        /\ line'[t].k = line[t].k /\ line'[t].node = n /\ line'[t].ext = line[t].ext
        /\ line'[t].pos = line[t].pos /\ line'[t].name = line[t].name
    BY <2>1, GoesLine DEF Inv, States
  <2>3. /\ bundle' \in [Nodes -> Dirs] /\ \A x \in Nodes : x # n => bundle'[x] = bundle[x]
        /\ DOMAIN bundle'[n] = DOMAIN bundle[n]
        /\ line[t].name \in DOMAIN bundle[n] => bundle'[n][line[t].name] = {}
    <3> DEFINE b == bundle[n]
               c == [b EXCEPT ![line[t].name] = {}]
    <3>1. bundle \in [Nodes -> Dirs] /\ b \in Dirs
      BY <1>3 DEF Inv, TypeOK
    <3>2. bundle' = [bundle EXCEPT ![n] = c]
      BY <2>1
    <3>3. DOMAIN b \subseteq Digits /\ b \in [DOMAIN b -> SUBSET Mail]
      BY <3>1 DEF Dirs
    <3>4. /\ c \in [DOMAIN b -> SUBSET Mail] /\ DOMAIN c = DOMAIN b
          /\ line[t].name \in DOMAIN b => c[line[t].name] = {}
      BY <3>3
    <3>5. c \in Dirs
      BY <3>3, <3>4, DirFacts
    <3> HIDE DEF b, c
    <3> QED BY <1>3, <3>1, <3>2, <3>4, <3>5 DEF b
  <2>4. TypeOK'
    BY <1>1, <2>1, <2>2, <2>3 DEF Inv, TypeOK
  <2>5. Change(t)
    BY <1>1, <1>3, <2>1, <2>2, <2>3 DEF Change
  <2>6. FlagInv(t)'
    BY <1>1, <1>2, <1>3, <2>2, SameAddress
  <2>7. FileInv(t)'
    BY <2>2 DEF FileInv
  <2>8. ListInv(t)'
    BY <1>1, <1>2, <1>3, <1>5, <2>2, <2>3 DEF ListInv, Scanning
  <2> QED BY <2>4, <2>5, <2>6, <2>7, <2>8, Mine DEF LineInv
<1> QED BY <1>4, <1>5

\* The lists when a line is marked with ~
Struck(n, i, p) == [lo EXCEPT ![n][i][p].sent = TRUE]

LEMMA StruckLists ==
  ASSUME TypeOK, NEW n \in Nodes, NEW i \in DOMAIN Flags, NEW p \in DOMAIN lo[n][i]
  PROVE  /\ Struck(n, i, p) \in [Nodes -> [DOMAIN Flags -> Seq(Entries)]]
         /\ \A x \in Nodes : x # n => Struck(n, i, p)[x] = lo[x]
         /\ \A h \in DOMAIN Flags : h # i => Struck(n, i, p)[n][h] = lo[n][h]
         /\ DOMAIN Struck(n, i, p)[n][i] = DOMAIN lo[n][i]
         /\ \A j \in DOMAIN lo[n][i] : j # p => Struck(n, i, p)[n][i][j] = lo[n][i][j]
         /\ Struck(n, i, p)[n][i][p].name = lo[n][i][p].name /\ Struck(n, i, p)[n][i][p].sent
<1> DEFINE s == lo[n][i]
           e == [s[p] EXCEPT !.sent = TRUE]
           s2 == [s EXCEPT ![p] = e]
           f == [lo[n] EXCEPT ![i] = s2]
<1>1. /\ lo \in [Nodes -> [DOMAIN Flags -> Seq(Entries)]] /\ s \in Seq(Entries)
      /\ lo[n] \in [DOMAIN Flags -> Seq(Entries)]
  BY DEF TypeOK
<1>2. Struck(n, i, p) = [lo EXCEPT ![n] = f]
  BY DEF Struck
<1>3. p \in DOMAIN s
  OBVIOUS
<1> HIDE DEF s
<1>4. s[p] \in Entries
  BY <1>1, <1>3
<1>5. e \in Entries /\ e.name = s[p].name /\ e.sent
  BY <1>4 DEF Entries
<1> HIDE DEF e
<1>6. /\ s2 \in Seq(Entries) /\ DOMAIN s2 = DOMAIN s
      /\ \A j \in DOMAIN s : s2[j] = IF j = p THEN e ELSE s[j]
  BY <1>1, <1>3, <1>5
<1> HIDE DEF s2
<1>7. /\ f \in [DOMAIN Flags -> Seq(Entries)] /\ f[i] = s2
      /\ \A h \in DOMAIN Flags : h # i => f[h] = lo[n][h]
  BY <1>1, <1>6
<1> HIDE DEF f
<1>8. /\ Struck(n, i, p) \in [Nodes -> [DOMAIN Flags -> Seq(Entries)]] /\ Struck(n, i, p)[n] = f
      /\ \A x \in Nodes : x # n => Struck(n, i, p)[x] = lo[x]
  BY <1>1, <1>2, <1>7
<1> QED BY <1>5, <1>6, <1>7, <1>8 DEF s

LEMMA StrikeStep ==
  ASSUME Inv, NEW t \in Lines, Strike(t)
  PROVE  Inv'
<1> DEFINE n == line[t].node
           i == line[t].ext
           p == line[t].pos
<1>1. /\ line[t].at = "strike" /\ Goes(t, "scan")
      /\ lo' = [lo EXCEPT ![n][i][p].sent = TRUE]
      /\ UNCHANGED <<packets, bundle, busy, arrived, env>>
  BY DEF Strike, At
<1>2. Scanning(t) /\ Holding(t)
  BY <1>1 DEF Scanning, Holding
<1>3. /\ n \in Nodes /\ ListInv(t) /\ line[t].ok[line[t].k] /\ busy[n] = t
      /\ i \in {0} \cup DOMAIN Flags /\ p \in Nat
  BY <1>2, InSession, Fields
<1>4. i # 0 /\ i \in DOMAIN Flags /\ p \in DOMAIN lo[n][i]
  BY <1>1, <1>2, <1>3 DEF ListInv
<1>5. /\ line' \in [Lines -> Records] /\ \A u \in Lines : u # t => line'[u] = line[u]
      /\ line'[t].at = "scan" /\ line'[t].list = line[t].list /\ line'[t].ok = line[t].ok
      /\ line'[t].k = line[t].k /\ line'[t].node = n /\ line'[t].ext = i
      /\ line'[t].pos = p /\ line'[t].name = line[t].name
  BY <1>1, GoesLine DEF Inv, States
<1>6. /\ lo' \in [Nodes -> [DOMAIN Flags -> Seq(Entries)]]
      /\ \A x \in Nodes : x # n => lo'[x] = lo[x]
      /\ DOMAIN lo'[n][i] = DOMAIN lo[n][i]
      /\ \A j \in DOMAIN lo[n][i] : j # p => lo'[n][i][j] = lo[n][i][j]
      /\ lo'[n][i][p].name = lo[n][i][p].name /\ lo'[n][i][p].sent
  <2>1. TypeOK /\ lo' = Struck(n, i, p)
    BY <1>1 DEF Inv, Struck
  <2>2. n \in Nodes /\ i \in DOMAIN Flags /\ p \in DOMAIN lo[n][i]
    BY <1>3, <1>4
  <2> HIDE DEF n, i, p
  <2> QED BY <2>1, <2>2, StruckLists
<1>7. TypeOK'
  BY <1>1, <1>5, <1>6 DEF Inv, TypeOK, packets
<1>8. Change(t)
  BY <1>1, <1>3, <1>5, <1>6 DEF Change, packets
<1>9. LineInv(t)'
  <2>1. FlagInv(t)'
    BY <1>1, <1>2, <1>3, <1>5, SameAddress
  <2>2. FileInv(t)'
    BY <1>5 DEF FileInv
  <2>3. lo'[n][i][p].sent
    BY <1>4, <1>6
  <2>4. ASSUME NEW j \in DOMAIN lo'[n][i], j < p \/ j = p, ~lo'[n][i][j].sent
        PROVE  lo'[n][i][j].name \notin DOMAIN bundle[n]
    <3>1. j # p /\ j \in DOMAIN lo[n][i] /\ lo'[n][i][j] = lo[n][i][j]
      BY <1>6, <2>3, <2>4
    <3> QED BY <1>2, <1>3, <1>4, <2>4, <3>1 DEF ListInv
  <2>5. ListInv(t)'
    BY <1>1, <1>4, <1>5, <2>4 DEF ListInv
  <2> QED BY <2>1, <2>2, <2>5 DEF LineInv
<1> QED BY <1>7, <1>8, <1>9, Mine

LEMMA HangUpStep ==
  ASSUME Inv, NEW t \in Lines, HangUp(t)
  PROVE  Inv'
<1>1. Idle \in Records /\ Idle.at = "idle"
  BY IdleRecord DEF Idle
<1>2. line' = [line EXCEPT ![t] = Idle] /\ busy' = Freed(t) /\ UNCHANGED <<packets, bundle, lo, arrived, env>>
  BY DEF HangUp
<1>3. line'[t].at = "idle"
  BY <1>1, <1>2 DEF Inv, TypeOK
<1>4. LineInv(t)'
  BY <1>3, Quiet
<1> QED BY <1>1, <1>2, <1>4, FreeStep

LEMMA CrashStep ==
  ASSUME Inv, NEW t \in Lines, Crash(t)
  PROVE  Inv'
<1>1. Idle \in Records /\ Idle.at = "idle"
  BY IdleRecord DEF Idle
<1>2. /\ env.crashes > 0 /\ env' = [env EXCEPT !.crashes = @ - 1]
      /\ line' = [line EXCEPT ![t] = Idle]
      /\ busy' = [n \in Nodes |-> IF busy[n] = t THEN "left" ELSE busy[n]]
      /\ UNCHANGED <<packets, bundle, lo, arrived>>
  BY DEF Crash
<1>3. line' \in [Lines -> Records] /\ line'[t].at = "idle" /\ \A u \in Lines : u # t => line'[u] = line[u]
  BY <1>1, <1>2 DEF Inv, TypeOK
<1>4. /\ busy' \in [Nodes -> Lines \cup {None, "left"}]
      /\ \A n \in Nodes : busy[n] # t => busy'[n] = busy[n]
  BY <1>2 DEF Inv, TypeOK
<1>5. env \in Histories /\ env.crashes \in Nat /\ env.crashes - 1 \in Nat
  BY <1>2 DEF Inv, TypeOK, Histories
<1>6. env' \in Histories /\ env'.added = env.added /\ env'.refused = env.refused
  BY <1>2, <1>5 DEF Histories
<1>7. TypeOK'
  BY <1>2, <1>3, <1>4, <1>6 DEF Inv, TypeOK, packets
<1>8. Change(t)
  BY <1>2, <1>3, <1>4, <1>6 DEF Change, packets
<1> QED BY <1>3, <1>7, <1>8, Mine, Quiet

LEMMA DeleteFlagsStep ==
  ASSUME Inv, DeleteFlags
  PROVE  Inv'
<1>1. /\ busy' = [n \in Nodes |-> IF busy[n] = "left" THEN None ELSE busy[n]]
      /\ UNCHANGED <<packets, bundle, lo, line, arrived, env>>
  BY DEF DeleteFlags
<1>2. TypeOK'
  BY <1>1 DEF Inv, TypeOK, packets
<1>3. Change(None)
  BY <1>1, Constants DEF Change, packets
<1> QED BY <1>2, <1>3, Mine, Constants

LEMMA InitInv == Init => Inv
<1> SUFFICES ASSUME Init PROVE Inv
  OBVIOUS
<1>1. TypeOK
  BY InitTypes
<1>2. ASSUME NEW u \in Lines PROVE LineInv(u)
  <2>1. line[u].at = "idle"
    BY DEF Init, Idle
  <2> QED BY <2>1 DEF LineInv, FlagInv, FileInv, ListInv, Holding, Scanning
<1> QED BY <1>1, <1>2 DEF Inv

LEMMA NextInv == Inv /\ [Next]_vars => Inv'
<1> SUFFICES ASSUME Inv, [Next]_vars PROVE Inv'
  OBVIOUS
<1>1. ASSUME NEW m \in Mail, Export(m) PROVE Inv'
  BY <1>1, ExportStep
<1>2. ASSUME NEW t \in Lines, Pack(t) PROVE Inv'
  BY <1>2, BeginStep, NextCommandStep, FindNoneStep, TakePacketStep, SetAsideStep,
     ListBundleStep, ArchiveStep, PackDoneStep, RestoreStep, RestoreDoneStep DEF Pack
<1>3. ASSUME NEW t \in Lines, Session(t) PROVE Inv'
  BY <1>3, ConnectStep, SendOutStep, SendListedStep, EndAddressStep, ArriveStep,
     AcknowledgedStep, RefusedStep, UnlinkStep, StrikeStep, HaltStep, HangUpStep DEF Session
<1>4. ASSUME NEW t \in Lines, Crash(t) PROVE Inv'
  BY <1>4, CrashStep
<1>5. CASE DeleteFlags
  BY <1>5, DeleteFlagsStep
<1>6. CASE UNCHANGED vars
  <2>1. TypeOK'
    BY <1>6 DEF Inv, TypeOK, vars, packets
  <2>2. Change(None)
    BY <1>6 DEF Change, vars, packets
  <2> QED BY <2>1, <2>2, Mine, Constants
<1> QED BY <1>1, <1>2, <1>3, <1>4, <1>5, <1>6 DEF Next

LEMMA AlwaysInv == Spec => []Inv
BY InitInv, NextInv, PTL DEF Spec

\* What is on the disk is mail, in bundles whose names keep to the digits there are, and a
\* process works on addresses, lists and lines there are (pack.c:732, janus.c:810), for any
\* number of lines.  That the line a session strikes off is still there takes the flag it
\* has of the node.
THEOREM OutboundTypeCorrect == Spec => []TypeOK
<1>1. Inv => TypeOK
  BY DEF Inv
<1> QED BY <1>1, AlwaysInv, PTL

-----------------------------------------------------------------------------
(* Mail is kept *)

\* One message: in the outbound, or where it is accounted for
InPacket(m) == \E n \in Nodes : m \in xpr[n] \/ m \in aside[n] \/ m \in out[n]
InBundle(m) == \E n \in Nodes : \E d \in DOMAIN bundle[n] : m \in bundle[n][d]
Loose(m)    == m \in pkt \/ m \in shelf \/ m \in stray
Out(m)      == \E a \in arrived : a[1] = m
Kept(m)     == \/ m \in env.fresh \/ m \in env.added \/ Out(m)
               \/ InPacket(m) \/ InBundle(m) \/ Loose(m)

AllKept     == \A m \in Mail : Kept(m)

LEMMA KeptAll == AllKept => MailKept
<1> SUFFICES ASSUME AllKept, NEW m \in Mail, m \notin env.fresh \cup env.added
             PROVE  m \in OnDisk \cup {a[1] : a \in arrived}
  BY DEF MailKept
<1> DEFINE packed  == UNION {xpr[n] \cup aside[n] \cup out[n] : n \in Nodes}
           bundled == UNION {UNION {bundle[n][d] : d \in DOMAIN bundle[n]} : n \in Nodes}
<1>1. Out(m) \/ InPacket(m) \/ InBundle(m) \/ Loose(m)
  BY DEF AllKept, Kept
<1>2. Out(m) => m \in {a[1] : a \in arrived}
  BY DEF Out
<1>3. InPacket(m) => m \in packed
  BY DEF InPacket
<1>4. InBundle(m) => m \in bundled
  <2> SUFFICES ASSUME NEW n \in Nodes, NEW d \in DOMAIN bundle[n], m \in bundle[n][d]
               PROVE  m \in UNION {UNION {bundle[x][e] : e \in DOMAIN bundle[x]} : x \in Nodes}
    BY DEF InBundle
  <2>1. m \in UNION {bundle[n][e] : e \in DOMAIN bundle[n]}
    OBVIOUS
  <2> QED BY <2>1
<1>5. OnDisk = packed \cup pkt \cup shelf \cup stray \cup bundled
  BY DEF OnDisk
<1>6. Loose(m) => m \in pkt \cup shelf \cup stray
  BY DEF Loose
<1> HIDE DEF packed, bundled
<1> QED BY <1>1, <1>2, <1>3, <1>4, <1>5, <1>6

\* What a bundle has after the archiver
LEMMA ArchivedFiles ==
  ASSUME TypeOK, NEW n \in Nodes, NEW d \in Digits
  PROVE  /\ DOMAIN Archived(n, d)[n] = DOMAIN bundle[n] \cup {d}
         /\ \A e \in DOMAIN bundle[n] : bundle[n][e] \subseteq Archived(n, d)[n][e]
         /\ \A e \in DOMAIN bundle[n] : e # d => Archived(n, d)[n][e] = bundle[n][e]
         /\ pkt \subseteq Archived(n, d)[n][d]
         /\ \A m \in Archived(n, d)[n][d] : m \in pkt \/ (d \in DOMAIN bundle[n] /\ m \in bundle[n][d])
<1> DEFINE b == bundle[n]
           X(e) == (IF e \in DOMAIN b THEN b[e] ELSE {}) \cup (IF e = d THEN pkt ELSE {})
           f == [e \in DOMAIN b \cup {d} |-> X(e)]
<1>1. Archived(n, d)[n] = f
  BY DEF Archived, TypeOK
<1>2. DOMAIN f = DOMAIN b \cup {d} /\ \A e \in DOMAIN b \cup {d} : f[e] = X(e)
  OBVIOUS
<1>3. /\ \A e \in DOMAIN b : b[e] \subseteq X(e) /\ (e # d => X(e) = b[e])
      /\ pkt \subseteq X(d) /\ \A m \in X(d) : m \in pkt \/ (d \in DOMAIN b /\ m \in b[d])
  OBVIOUS
<1> HIDE DEF f, X
<1> QED BY <1>1, <1>2, <1>3

\* Steps that touch no mail
LEMMA NotTouched ==
  ASSUME NEW m, Kept(m), UNCHANGED <<packets, bundle>>, arrived \subseteq arrived',
         env'.fresh = env.fresh, env'.added = env.added
  PROVE  Kept(m)'
BY DEF Kept, InPacket, InBundle, Loose, Out, packets

\* Steps of the packer that write it somewhere else
LEMMA PackKeeps ==
  ASSUME Inv, NEW t \in Lines, NEW m \in Mail, Kept(m), Pack(t)
  PROVE  Kept(m)'
<1> USE DEF Kept, InPacket, InBundle, Loose, Out
<1>0. TypeOK /\ env \in Histories
  BY DEF Inv, TypeOK
<1>1. CASE Begin(t)
  <2>1. env'.fresh = env.fresh /\ env'.added = env.added
    BY <1>0, <1>1 DEF Begin, Histories
  <2> QED BY <1>1, <2>1 DEF Begin
<1>2. CASE NextCommand(t) \/ FindNone(t) \/ PackDone(t) \/ RestoreDone(t)
  <2>1. UNCHANGED <<packets, bundle, arrived, env>>
    BY <1>2 DEF NextCommand, FindNone, PackDone, RestoreDone
  <2> QED BY <2>1, NotTouched
<1>3. ASSUME NEW n \in Nodes, TakePacket(t, n) PROVE Kept(m)'
  <2>1. /\ xpr' = [xpr EXCEPT ![n] = {}] /\ pkt' = pkt \cup xpr[n]
        /\ UNCHANGED <<aside, out, shelf, stray, bundle, arrived, env>>
    BY <1>3 DEF TakePacket, Found
  <2>2. \A x \in Nodes : m \in xpr[x] => m \in xpr'[x] \/ m \in pkt'
    BY <1>0, <2>1 DEF TypeOK
  <2> QED BY <2>1, <2>2
<1>4. ASSUME NEW n \in Nodes, SetAside(t, n) PROVE Kept(m)'
  <2> DEFINE as == IF Command(t).cmd = "send" THEN line[t].blko ELSE n
  <2>1. /\ xpr' = [xpr EXCEPT ![n] = {}] /\ UNCHANGED <<out, pkt, shelf, bundle, arrived>>
        /\ IF as = None THEN stray = {} /\ stray' = xpr[n] /\ UNCHANGED <<aside, env>>
           ELSE /\ aside[as] = {} /\ aside' = [aside EXCEPT ![as] = xpr[n]] /\ UNCHANGED stray
                /\ env' = IF as = n THEN env ELSE [env EXCEPT !.misnamed = @ \cup xpr[n]]
    BY <1>4 DEF SetAside, Found
  <2>2. as = None \/ as \in Nodes
    <3>1. line[t].blko \in Nodes \cup {None}
      BY <1>0, Fields DEF TypeOK
    <3> QED BY <3>1
  <2> HIDE DEF as
  <2>3. env'.fresh = env.fresh /\ env'.added = env.added
    <3>1. env' = env \/ env' = [env EXCEPT !.misnamed = @ \cup xpr[n]]
      BY <2>1
    <3> QED BY <1>0, <3>1 DEF Histories
  <2>4. \A x \in Nodes : m \in xpr[x] => m \in xpr'[x] \/ m \in stray' \/ \E y \in Nodes : m \in aside'[y]
    BY <1>0, <2>1, <2>2 DEF TypeOK
  <2>5. (\A x \in Nodes : m \in aside[x] => m \in aside'[x]) /\ (m \in stray => m \in stray')
    BY <1>0, <2>1, <2>2 DEF TypeOK
  <2> QED BY <2>1, <2>3, <2>4, <2>5
<1>5. CASE ListBundle(t)
  <2> DEFINE n == line[t].node
             there == DOMAIN bundle[n]
  <2>1. /\ UNCHANGED <<packets, arrived>>
        /\ \/ bundle' = bundle
           \/ \E found \in there : /\ bundle[n][found] = {}
                                   /\ bundle' = [bundle EXCEPT ![n] = [e \in there \ {found} |-> @[e]]]
        /\ env' = env \/ \E s : env' = [env EXCEPT !.refused = @ \ s]
    BY <1>5 DEF ListBundle
  <2>2. env'.fresh = env.fresh /\ env'.added = env.added
    BY <1>0, <2>1 DEF Histories
  <2>3. n \in Nodes
    BY <1>5, Places DEF ListBundle, At
  <2>4. InBundle(m) => InBundle(m)'
    <3>1. CASE bundle' = bundle
      BY <3>1
    <3>2. ASSUME NEW found \in there, bundle[n][found] = {},
                 bundle' = [bundle EXCEPT ![n] = [e \in there \ {found} |-> @[e]]],
                 NEW x \in Nodes, NEW d \in DOMAIN bundle[x], m \in bundle[x][d]
          PROVE  d \in DOMAIN bundle'[x] /\ m \in bundle'[x][d]
      BY <1>0, <2>3, <3>2 DEF TypeOK
    <3> QED BY <2>1, <3>1, <3>2
  <2> QED BY <2>1, <2>2, <2>4 DEF packets
<1>6. CASE Archive(t)
  <2> DEFINE n == line[t].node
             d == line[t].name
  <2>1. /\ n \in Nodes /\ d \in Digits /\ pkt' = {}
        /\ UNCHANGED <<xpr, aside, out, stray, arrived, env>>
        /\ \/ bundle' = Archived(n, d) /\ UNCHANGED shelf
           \/ bundle' \in {bundle, Archived(n, d)} /\ shelf' = shelf \cup pkt
    BY <1>6, Places, Fields DEF Archive, At, Archived
  <2>2. /\ \A x \in Nodes : x # n => Archived(n, d)[x] = bundle[x]
        /\ DOMAIN Archived(n, d)[n] = DOMAIN bundle[n] \cup {d}
        /\ \A e \in DOMAIN bundle[n] : bundle[n][e] \subseteq Archived(n, d)[n][e]
        /\ pkt \subseteq Archived(n, d)[n][d]
    BY <1>0, <2>1, ArchivedType, ArchivedFiles
  <2> HIDE DEF n, d
  <2>3. InBundle(m) => InBundle(m)'
    <3>1. CASE bundle' = bundle
      BY <3>1
    <3>2. CASE bundle' = Archived(n, d)
      BY <2>1, <2>2, <3>2
    <3> QED BY <2>1, <3>1, <3>2
  <2>4. m \in pkt => m \in shelf' \/ InBundle(m)'
    BY <2>1, <2>2
  <2> QED BY <2>1, <2>3, <2>4
<1>7. CASE Restore(t)
  <2>1. PICK n \in line[t].todo :
          IF out[n] # {} /\ Open(n) THEN UNCHANGED <<aside, out, env>>
          ELSE /\ out' = [out EXCEPT ![n] = @ \cup aside[n]]
               /\ aside' = [aside EXCEPT ![n] = {}]
               /\ env' = IF out[n] = {} THEN env ELSE [env EXCEPT !.added = @ \cup aside[n]]
    BY <1>7 DEF Restore
  <2>2. UNCHANGED <<xpr, pkt, shelf, stray, bundle, arrived>> /\ n \in Nodes
    BY <1>0, <1>7, Fields DEF Restore, TypeOK
  <2>3. env'.fresh = env.fresh /\ env.added \subseteq env'.added
    <3>1. env' = env \/ env' = [env EXCEPT !.added = @ \cup aside[n]]
      BY <2>1
    <3> QED BY <1>0, <3>1 DEF Histories
  <2>4. \A x \in Nodes : m \in aside[x] \/ m \in out[x] => m \in aside'[x] \/ m \in out'[x]
    <3>1. CASE UNCHANGED <<aside, out>>
      BY <3>1
    <3>2. CASE out' = [out EXCEPT ![n] = @ \cup aside[n]] /\ aside' = [aside EXCEPT ![n] = {}]
      BY <1>0, <2>2, <3>2 DEF TypeOK
    <3> QED BY <2>1, <3>1, <3>2
  <2> QED BY <2>2, <2>3, <2>4
<1> QED BY <1>1, <1>2, <1>3, <1>4, <1>5, <1>6, <1>7 DEF Pack

\* A session deletes what has arrived.
LEMMA SessionKeeps ==
  ASSUME Inv, NEW t \in Lines, NEW m \in Mail, Kept(m), Session(t)
  PROVE  Kept(m)'
<1>0. TypeOK /\ env \in Histories
  BY DEF Inv, TypeOK
<1>1. CASE ~Unlink(t)
  <2>1. UNCHANGED <<packets, bundle>> /\ arrived \subseteq arrived'
    BY <1>1 DEF Session, Connect, SendOut, SendListed, EndAddress, Arrive, Acknowledged, Refused,
       Strike, Halt, HangUp
  <2>2. env' = env \/ (\E r : env' = [env EXCEPT !.refused = r]) \/ env' = [env EXCEPT !.calls = @ - 1]
    BY <1>1 DEF Session, Connect, SendOut, SendListed, EndAddress, Arrive, Acknowledged, Refused,
       Strike, Halt, HangUp
  <2>3. env'.fresh = env.fresh /\ env'.added = env.added
    BY <1>0, <2>2 DEF Histories
  <2> QED BY <2>1, <2>3, NotTouched
<1>2. CASE Unlink(t)
  <2> DEFINE n == line[t].node
             d == line[t].name
  <2>1. /\ line[t].at = "unlink" /\ UNCHANGED <<xpr, aside, pkt, shelf, stray, arrived, env>>
        /\ IF line[t].ext = 0 THEN out' = [out EXCEPT ![n] = {}] /\ UNCHANGED bundle
           ELSE bundle' = [bundle EXCEPT ![n][d] = {}] /\ UNCHANGED out
    BY <1>2 DEF Unlink, At
  <2>2. n \in Nodes /\ FileInv(t)
    BY <2>1, InSession DEF Scanning
  <2>3. \A x \in Nodes : m \in out[x] => m \in out'[x] \/ Out(m) \/ m \in env.added
    <3>1. CASE line[t].ext = 0
      <4>1. m \in out[n] => <<m, n>> \in arrived \/ m \in env.added
        BY <2>1, <2>2, <3>1 DEF FileInv
      <4> QED BY <1>0, <2>1, <2>2, <3>1, <4>1 DEF TypeOK, Out
    <3>2. CASE line[t].ext # 0
      BY <2>1, <3>2
    <3> QED BY <3>1, <3>2
  <2>4. InBundle(m) => InBundle(m)' \/ Out(m)
    <3>1. CASE line[t].ext = 0
      BY <2>1, <3>1 DEF InBundle
    <3>2. CASE line[t].ext # 0
      <4>1. m \in bundle[n][d] => <<m, n>> \in arrived
        BY <2>1, <2>2, <3>2 DEF FileInv
      <4>2. ASSUME NEW x \in Nodes, NEW e \in DOMAIN bundle[x], ~(x = n /\ e = d)
            PROVE  e \in DOMAIN bundle'[x] /\ bundle'[x][e] = bundle[x][e]
        BY <1>0, <2>1, <2>2, <3>2, <4>2 DEF TypeOK
      <4> QED BY <4>1, <4>2 DEF InBundle, Out
    <3> QED BY <3>1, <3>2
  <2> QED BY <2>1, <2>3, <2>4 DEF Kept, InPacket, Loose, Out
<1> QED BY <1>1, <1>2

\* Mail that has been written is in some file until another system has received it,
\* whatever fails and whenever a process dies (pack.c:158, janus.c:795), for any number of
\* lines: a session deletes what it has the flag of and has been acknowledged, and every
\* step of the packer puts what it takes away somewhere else.
THEOREM MailKeptHolds == Spec => []MailKept
<1>1. Init => AllKept
  <2> SUFFICES ASSUME Init, NEW m \in Mail PROVE Kept(m)
    BY DEF AllKept
  <2>1. CASE m \in Waiting
    <3>1. Dest[m] \in Nodes
      BY OutboundAssumption
    <3>2. m \in xpr[Dest[m]]
      BY <2>1, <3>1 DEF Init
    <3> QED BY <3>1, <3>2 DEF Kept, InPacket
  <2>2. CASE m \notin Waiting
    BY <2>2 DEF Init, Kept
  <2> QED BY <2>1, <2>2
<1>2. Inv /\ AllKept /\ [Next]_vars => AllKept'
  <2> SUFFICES ASSUME Inv, [Next]_vars, NEW m \in Mail, Kept(m) PROVE Kept(m)'
    BY DEF AllKept
  <2>0. TypeOK /\ env \in Histories
    BY DEF Inv, TypeOK
  <2>1. ASSUME NEW x \in Mail, Export(x) PROVE Kept(m)'
    <3>1. /\ env' = [env EXCEPT !.fresh = @ \ {x}] /\ xpr' = [xpr EXCEPT ![Dest[x]] = @ \cup {x}]
          /\ UNCHANGED <<aside, out, pkt, shelf, stray, bundle, arrived>> /\ Dest[x] \in Nodes
      BY <2>1, OutboundAssumption DEF Export
    <3>2. env'.fresh = env.fresh \ {x} /\ env'.added = env.added
      BY <2>0, <3>1 DEF Histories
    <3>3. (\A n \in Nodes : xpr[n] \subseteq xpr'[n]) /\ x \in xpr'[Dest[x]]
      BY <2>0, <3>1 DEF TypeOK
    <3> QED BY <3>1, <3>2, <3>3 DEF Kept, InPacket, InBundle, Loose, Out
  <2>2. ASSUME NEW t \in Lines, Pack(t) PROVE Kept(m)'
    BY <2>2, PackKeeps
  <2>3. ASSUME NEW t \in Lines, Session(t) PROVE Kept(m)'
    BY <2>3, SessionKeeps
  <2>4. ASSUME NEW t \in Lines, Crash(t) PROVE Kept(m)'
    <3>1. UNCHANGED <<packets, bundle, arrived>> /\ env' = [env EXCEPT !.crashes = @ - 1]
      BY <2>4 DEF Crash
    <3>2. env'.fresh = env.fresh /\ env'.added = env.added
      BY <2>0, <3>1 DEF Histories
    <3> QED BY <3>1, <3>2, NotTouched
  <2>5. CASE DeleteFlags \/ UNCHANGED vars
    <3>1. UNCHANGED <<packets, bundle, arrived, env>>
      BY <2>5 DEF DeleteFlags, vars
    <3> QED BY <3>1, NotTouched
  <2> QED BY <2>1, <2>2, <2>3, <2>4, <2>5 DEF Next
<1> QED BY <1>1, <1>2, KeptAll, AlwaysInv, PTL DEF Spec

-----------------------------------------------------------------------------
(* Mail is listed *)

\* One bundle, and that nobody forgets it
InLists(n, d) == \E i \in DOMAIN Flags : Lists(n, i, d)
Kempt(n, d)   == d \in DOMAIN bundle[n] => bundle[n][d] = {} \/ <<n, d>> \in env.refused \/ InLists(n, d)
AllListed     == \A n \in Nodes : \A d \in Digits : Kempt(n, d)

LEMMA ListedAll == TypeOK /\ AllListed => Listed
BY DirFacts DEF AllListed, Kempt, InLists, Listed, TypeOK

\* Steps after which a bundle is as full and as listed as before
LEMMA StaysListed ==
  ASSUME NEW n, NEW d, Kempt(n, d), bundle'[n] = bundle[n],
         <<n, d>> \in env.refused => <<n, d>> \in env'.refused,
         InLists(n, d) /\ d \in DOMAIN bundle[n] /\ bundle[n][d] # {} /\ <<n, d>> \notin env.refused
           => InLists(n, d)'
  PROVE  Kempt(n, d)'
BY DEF Kempt

\* A list goes only when none of its lines that is not struck off names a file.
LEMMA DeletedLists ==
  ASSUME Inv, NEW t \in Lines, line[t].node \in Nodes, NEW S, lo' = Without(line[t], S),
         UNCHANGED bundle,
         \A i \in DOMAIN Flags : i \in S /\ i >= line[t].ext /\ Reads(line[t], i) =>
           \A h \in DOMAIN lo[line[t].node][i] : ~lo[line[t].node][i][h].sent =>
             lo[line[t].node][i][h].name \notin DOMAIN bundle[line[t].node],
         NEW n \in Nodes, NEW d \in Digits, InLists(n, d), d \in DOMAIN bundle[n]
  PROVE  InLists(n, d)'
<1>0. TypeOK /\ line[t] \in Records
  BY DEF Inv, TypeOK
<1>1. PICK i \in DOMAIN Flags : Lists(n, i, d)
  BY DEF InLists
<1>2. PICK h \in DOMAIN lo[n][i] : lo[n][i][h] = Line(d)
  BY <1>1 DEF Lists
<1>3. lo[n][i][h].name = d /\ ~lo[n][i][h].sent
  BY <1>2 DEF Line
<1>4. lo'[n][i] = lo[n][i]
  <2>1. /\ \A x \in Nodes : x # line[t].node => Without(line[t], S)[x] = lo[x]
        /\ \A j \in DOMAIN Flags :
             Without(line[t], S)[line[t].node][j] =
               IF j \in S /\ j >= line[t].ext /\ Reads(line[t], j) THEN <<>> ELSE lo[line[t].node][j]
    BY <1>0, WithoutLists
  <2>2. CASE n # line[t].node
    BY <2>1, <2>2
  <2>3. CASE n = line[t].node
    <3>1. ~(i \in S /\ i >= line[t].ext /\ Reads(line[t], i))
      BY <1>3, <2>3
    <3> QED BY <2>1, <2>3, <3>1
  <2> QED BY <2>2, <2>3
<1>5. Lists(n, i, d)'
  BY <1>2, <1>4 DEF Lists, Line
<1> QED BY <1>5 DEF InLists

LEMMA PackLists ==
  ASSUME Inv, NEW t \in Lines, AllListed, Pack(t), NEW n \in Nodes, NEW d \in Digits
  PROVE  Kempt(n, d)'
<1>0. TypeOK /\ env \in Histories /\ Kempt(n, d)
  BY DEF Inv, TypeOK, AllListed
<1>1. CASE ~ListBundle(t) /\ ~Archive(t)
  <2>1. UNCHANGED <<bundle, lo>>
    BY <1>1 DEF Pack, Begin, NextCommand, FindNone, TakePacket, SetAside, PackDone, Restore,
       RestoreDone
  <2>2. \/ env' = env \/ env' = [env EXCEPT !.packs = @ - 1]
        \/ (\E x : env' = [env EXCEPT !.misnamed = x]) \/ \E x : env' = [env EXCEPT !.added = x]
    BY <1>1 DEF Pack, Begin, NextCommand, FindNone, TakePacket, SetAside, PackDone, Restore,
       RestoreDone
  <2>3. env'.refused = env.refused
    BY <1>0, <2>2 DEF Histories
  <2>4. InLists(n, d)' = InLists(n, d)
    BY <2>1 DEF InLists, Lists
  <2> QED BY <1>0, <2>1, <2>3, <2>4, StaysListed
<1>2. CASE ListBundle(t)
  <2> DEFINE x == line[t].node
             i == CHOOSE j \in DOMAIN Flags : Flags[j] = Command(t).flag
             there == DOMAIN bundle[x]
  <2>1. PICK found \in IF there = {} THEN {0} ELSE there :
          LET spent == found \in there /\ bundle[x][found] = {}
              e     == IF spent THEN (found + 1) % Names ELSE found
          IN
          /\ bundle' = IF spent THEN [bundle EXCEPT ![x] = [y \in there \ {found} |-> @[y]]] ELSE bundle
          /\ IF pkt = {} THEN UNCHANGED <<lo, env>>
             ELSE /\ lo' = IF Lists(x, i, e) THEN lo ELSE [lo EXCEPT ![x][i] = Append(@, Line(e))]
                  /\ env' = [env EXCEPT !.refused = @ \ {<<x, e>>}]
    BY <1>2 DEF ListBundle
  <2> DEFINE spent == found \in there /\ bundle[x][found] = {}
             e     == IF spent THEN (found + 1) % Names ELSE found
  <2>2. line[t].at = "list" /\ x \in Nodes
    BY <1>2, Places DEF ListBundle, At
  <2>3. e \in Digits /\ i \in DOMAIN Flags
    BY <2>2, ListPlace
  <2>4. d \in DOMAIN bundle'[n] => d \in DOMAIN bundle[n] /\ bundle'[n][d] = bundle[n][d]
    BY <1>0, <2>1, <2>2 DEF TypeOK
  <2> HIDE DEF x, i, spent, e
  <2>5. CASE pkt = {}
    <3>1. UNCHANGED <<lo, env>>
      BY <2>1, <2>5
    <3> QED BY <1>0, <2>4, <3>1 DEF Kempt, InLists, Lists
  <2>6. CASE pkt # {}
    <3>1. /\ lo' = IF Lists(x, i, e) THEN lo ELSE [lo EXCEPT ![x][i] = Append(@, Line(e))]
          /\ env' = [env EXCEPT !.refused = @ \ {<<x, e>>}]
      BY <2>1, <2>6 DEF x, i, spent, e
    <3>2. PICK c \in Nodes, j \in DOMAIN Flags, z \in Digits : c = x /\ j = i /\ z = e
      BY <2>2, <2>3 DEF x
    <3>3. /\ lo' = IF Lists(c, j, z) THEN lo ELSE [lo EXCEPT ![c][j] = Append(@, Line(z))]
          /\ env' = [env EXCEPT !.refused = @ \ {<<c, z>>}]
      BY <3>1, <3>2
    <3>4. /\ Lists(c, j, z)'
          /\ \A y \in Nodes, h \in DOMAIN Flags, f \in Digits : Lists(y, h, f) => Lists(y, h, f)'
      BY <1>0, <3>3, ListedLine
    <3>5. env'.refused = env.refused \ {<<c, z>>}
      BY <1>0, <3>3 DEF Histories
    <3>6. <<n, d>> \in env.refused => <<n, d>> \in env'.refused \/ (n = c /\ d = z)
      BY <3>5
    <3>7. n = c /\ d = z => InLists(n, d)'
      BY <3>4 DEF InLists
    <3>8. InLists(n, d) => InLists(n, d)'
      BY <3>4 DEF InLists
    <3> QED BY <1>0, <2>4, <3>6, <3>7, <3>8 DEF Kempt
  <2> QED BY <2>5, <2>6
<1>3. CASE Archive(t)
  <2> DEFINE x == line[t].node
             e == line[t].name
  <2>1. /\ line[t].at = "archive" /\ x \in Nodes /\ e \in Digits /\ UNCHANGED <<lo, env>>
        /\ bundle' \in {bundle, Archived(x, e)}
    BY <1>3, Places, Fields DEF Archive, At, Archived
  <2>2. InLists(x, e)
    BY <2>1 DEF Inv, LineInv, ListInv, InLists
  <2>3. InLists(n, d)' = InLists(n, d)
    BY <2>1 DEF InLists, Lists
  <2>4. CASE n = x /\ d = e
    BY <2>2, <2>3, <2>4 DEF Kempt
  <2>5. CASE ~(n = x /\ d = e)
    <3>1. d \in DOMAIN bundle'[n] => d \in DOMAIN bundle[n] /\ bundle'[n][d] = bundle[n][d]
      <4>1. CASE bundle' = bundle
        BY <4>1
      <4>2. CASE bundle' = Archived(x, e)
        <5>1. /\ \A y \in Nodes : y # x => Archived(x, e)[y] = bundle[y]
              /\ DOMAIN Archived(x, e)[x] = DOMAIN bundle[x] \cup {e}
              /\ \A y \in DOMAIN bundle[x] : y # e => Archived(x, e)[x][y] = bundle[x][y]
          BY <1>0, <2>1, ArchivedType, ArchivedFiles
        <5> QED BY <2>5, <4>2, <5>1
      <4> QED BY <2>1, <4>1, <4>2
    <3> QED BY <1>0, <2>1, <2>3, <3>1 DEF Kempt
  <2> QED BY <2>4, <2>5
<1> QED BY <1>1, <1>2, <1>3

LEMMA SessionLists ==
  ASSUME Inv, NEW t \in Lines, AllListed, Session(t), NEW n \in Nodes, NEW d \in Digits
  PROVE  Kempt(n, d)'
<1>0. TypeOK /\ env \in Histories /\ Kempt(n, d) /\ line[t] \in Records
  BY DEF Inv, TypeOK, AllListed
<1>1. <<n, d>> \in env.refused => <<n, d>> \in env'.refused
  <2>1. \/ env' = env \/ env' = [env EXCEPT !.calls = @ - 1]
        \/ \E x : env' = [env EXCEPT !.refused = @ \cup x]
    BY DEF Session, Connect, SendOut, SendListed, EndAddress, Arrive, Acknowledged, Refused,
       Unlink, Strike, Halt, HangUp
  <2> QED BY <1>0, <2>1 DEF Histories
<1>2. CASE Connect(t) \/ SendOut(t) \/ Arrive(t) \/ Acknowledged(t) \/ Refused(t) \/ HangUp(t)
  <2>1. UNCHANGED <<bundle, lo>>
    BY <1>2 DEF Connect, SendOut, Arrive, Acknowledged, Refused, HangUp
  <2>2. InLists(n, d)' = InLists(n, d)
    BY <2>1 DEF InLists, Lists
  <2> QED BY <1>0, <1>1, <2>1, <2>2, StaysListed
<1>3. CASE SendListed(t)
  <2>1. PICK i \in DOMAIN Flags :
          (\A h \in 1 .. i - 1 : Due(line[t], h) = {}) /\ lo' = Without(line[t], 1 .. i - 1)
    BY <1>3 DEF SendListed
  <2>2. line[t].at = "scan" /\ line[t].ok[line[t].k] /\ UNCHANGED bundle
    BY <1>3 DEF SendListed, At
  <2>3. line[t].node \in Nodes
    BY <2>2, InSession DEF Scanning
  <2>4. ASSUME NEW j \in DOMAIN Flags, j \in 1 .. i - 1, j >= line[t].ext, Reads(line[t], j),
               NEW h \in DOMAIN lo[line[t].node][j], ~lo[line[t].node][j][h].sent
        PROVE  lo[line[t].node][j][h].name \notin DOMAIN bundle[line[t].node]
    <3>1. h \notin Due(line[t], j)
      BY <2>1, <2>4
    <3> QED BY <2>2, <2>4, <3>1, NothingBefore
  <2>5. InLists(n, d) /\ d \in DOMAIN bundle[n] => InLists(n, d)'
    BY <2>1, <2>2, <2>3, <2>4, DeletedLists
  <2> QED BY <1>0, <1>1, <2>2, <2>5, StaysListed
<1>4. CASE EndAddress(t)
  <2>1. /\ line[t].at = "scan" /\ UNCHANGED bundle
        /\ IF line[t].ok[line[t].k]
           THEN (\A i \in DOMAIN Flags : Due(line[t], i) = {}) /\ lo' = Without(line[t], DOMAIN Flags)
           ELSE UNCHANGED lo
    BY <1>4 DEF EndAddress, At
  <2>2. CASE line[t].ok[line[t].k]
    <3>1. line[t].node \in Nodes
      BY <2>1, InSession DEF Scanning
    <3>2. ASSUME NEW j \in DOMAIN Flags, j >= line[t].ext, Reads(line[t], j),
                 NEW h \in DOMAIN lo[line[t].node][j], ~lo[line[t].node][j][h].sent
          PROVE  lo[line[t].node][j][h].name \notin DOMAIN bundle[line[t].node]
      <4>1. h \notin Due(line[t], j)
        BY <2>1, <2>2
      <4> QED BY <2>1, <2>2, <3>2, <4>1, NothingBefore
    <3>3. InLists(n, d) /\ d \in DOMAIN bundle[n] => InLists(n, d)'
      BY <2>1, <2>2, <3>1, <3>2, DeletedLists
    <3> QED BY <1>0, <1>1, <2>1, <3>3, StaysListed
  <2>3. CASE ~line[t].ok[line[t].k]
    <3>1. InLists(n, d)' = InLists(n, d)
      BY <2>1, <2>3 DEF InLists, Lists
    <3> QED BY <1>0, <1>1, <2>1, <3>1, StaysListed
  <2> QED BY <2>2, <2>3
<1>5. CASE Halt(t)
  <2> DEFINE S == {i \in DOMAIN Flags : i # line[t].ext /\ Due(line[t], i) = {}}
  <2>1. line[t].at \in {"send", "sent"} /\ UNCHANGED bundle /\ lo' = Without(line[t], S)
    BY <1>5 DEF Halt
  <2>2. line[t].node \in Nodes
    BY <2>1, InSession DEF Scanning
  <2>3. ASSUME NEW j \in DOMAIN Flags, j \in S, j >= line[t].ext, Reads(line[t], j),
               NEW h \in DOMAIN lo[line[t].node][j], ~lo[line[t].node][j][h].sent
        PROVE  lo[line[t].node][j][h].name \notin DOMAIN bundle[line[t].node]
    <3>1. h \notin Due(line[t], j) /\ j # line[t].ext
      BY <2>3
    <3> QED BY <2>3, <3>1 DEF Due
  <2> HIDE DEF S
  <2>4. InLists(n, d) /\ d \in DOMAIN bundle[n] => InLists(n, d)'
    BY <2>1, <2>2, <2>3, DeletedLists
  <2> QED BY <1>0, <1>1, <2>1, <2>4, StaysListed
<1>6. CASE Unlink(t)
  <2> DEFINE x == line[t].node
             e == line[t].name
  <2>1. /\ line[t].at = "unlink" /\ UNCHANGED <<lo, env>>
        /\ bundle' = bundle \/ bundle' = [bundle EXCEPT ![x][e] = {}]
    BY <1>6 DEF Unlink, At
  <2>2. InLists(n, d)' = InLists(n, d)
    BY <2>1 DEF InLists, Lists
  <2>3. x \in Nodes
    BY <2>1, InSession DEF Scanning
  <2>4. d \in DOMAIN bundle'[n] => d \in DOMAIN bundle[n] /\ (bundle'[n][d] = {} \/ bundle'[n][d] = bundle[n][d])
    <3>1. CASE bundle' = bundle
      BY <3>1
    <3>2. CASE bundle' = [bundle EXCEPT ![x][e] = {}]
      BY <1>0, <2>3, <3>2 DEF TypeOK
    <3> QED BY <2>1, <3>1, <3>2
  <2> QED BY <1>0, <2>1, <2>2, <2>4 DEF Kempt
<1>7. CASE Strike(t)
  <2>1. /\ line[t].at = "strike" /\ UNCHANGED <<bundle, env>>
        /\ lo' = Struck(line[t].node, line[t].ext, line[t].pos)
    BY <1>7 DEF Strike, At, Struck
  <2>2. Scanning(t)
    BY <2>1 DEF Scanning
  <2>3. line[t].node \in Nodes /\ ListInv(t) /\ line[t].ext \in {0} \cup DOMAIN Flags
    BY <1>0, <2>2, InSession, Fields
  <2>4. PICK x \in Nodes, i \in DOMAIN Flags : x = line[t].node /\ i = line[t].ext
    BY <2>1, <2>3 DEF ListInv
  <2>5. /\ line[t].pos \in DOMAIN lo[x][i] /\ lo[x][i][line[t].pos].name = line[t].name
        /\ line[t].name \in DOMAIN bundle[x] =>
             bundle[x][line[t].name] = {} \/ <<x, line[t].name>> \in env.refused
    BY <2>1, <2>3, <2>4, Constants DEF ListInv
  <2>6. PICK p \in DOMAIN lo[x][i] : p = line[t].pos
    BY <2>5
  <2>7. lo' = Struck(x, i, p)
    BY <2>1, <2>4, <2>6
  <2>8. /\ \A y \in Nodes : y # x => lo'[y] = lo[y]
        /\ \A h \in DOMAIN Flags : h # i => lo'[x][h] = lo[x][h]
        /\ DOMAIN lo'[x][i] = DOMAIN lo[x][i]
        /\ \A j \in DOMAIN lo[x][i] : j # p => lo'[x][i][j] = lo[x][i][j]
    BY <1>0, <2>7, StruckLists
  <2>9. CASE n = x /\ d = line[t].name
    BY <2>1, <2>5, <2>9 DEF Kempt
  <2>10. CASE ~(n = x /\ d = line[t].name)
    <3>1. ASSUME InLists(n, d) PROVE InLists(n, d)'
      <4>1. PICK h \in DOMAIN Flags : Lists(n, h, d)
        BY <3>1 DEF InLists
      <4>2. PICK j \in DOMAIN lo[n][h] : lo[n][h][j] = Line(d)
        BY <4>1 DEF Lists
      <4>3. ~(n = x /\ h = i /\ j = p)
        BY <2>5, <2>6, <2>10, <4>2 DEF Line
      <4>4. j \in DOMAIN lo'[n][h] /\ lo'[n][h][j] = Line(d)
        BY <2>8, <4>2, <4>3
      <4>5. Lists(n, h, d)'
        BY <4>4 DEF Lists, Line
      <4> QED BY <4>5 DEF InLists
    <3> QED BY <1>0, <1>1, <2>1, <3>1, StaysListed
  <2> QED BY <2>9, <2>10
<1> QED BY <1>2, <1>3, <1>4, <1>5, <1>6, <1>7 DEF Session

\* A bundle that holds mail is on a list and not struck off, unless the other system refused
\* it (janus.c:800-829), for any number of lines, after any halts and crashes: the lines a
\* session has passed in a list name no file that is there, so that the list it deletes at
\* the end is of no use any more.
THEOREM ListedHolds == Spec => []Listed
<1>1. Init => AllListed
  BY DEF Init, AllListed, Kempt
<1>2. Inv /\ AllListed /\ [Next]_vars => AllListed'
  <2> SUFFICES ASSUME Inv, AllListed, [Next]_vars, NEW n \in Nodes, NEW d \in Digits
               PROVE  Kempt(n, d)'
    BY DEF AllListed
  <2>0. TypeOK /\ env \in Histories /\ Kempt(n, d)
    BY DEF Inv, TypeOK, AllListed
  <2>1. CASE \E t \in Lines : Pack(t) \/ Session(t)
    BY <2>1, PackLists, SessionLists
  <2>2. CASE ~\E t \in Lines : Pack(t) \/ Session(t)
    <3>1. UNCHANGED <<bundle, lo>>
      BY <2>2 DEF Next, Export, Crash, DeleteFlags, vars
    <3>2. env' = env \/ (\E x : env' = [env EXCEPT !.fresh = x]) \/ env' = [env EXCEPT !.crashes = @ - 1]
      BY <2>2 DEF Next, Export, Crash, DeleteFlags, vars
    <3>3. env'.refused = env.refused
      BY <2>0, <3>2 DEF Histories
    <3>4. InLists(n, d)' = InLists(n, d)
      BY <3>1 DEF InLists, Lists
    <3> QED BY <2>0, <3>1, <3>3, <3>4, StaysListed
  <2> QED BY <2>1, <2>2
<1>3. Inv => TypeOK
  BY DEF Inv
<1> QED BY <1>1, <1>2, <1>3, ListedAll, AlwaysInv, PTL DEF Spec

-----------------------------------------------------------------------------
(* Mail goes where ROUTE.CFG lets it go *)

OneLinePacks == \A p, q \in Packers : p = q

\* A message in the files of its own node, or in those of a node it may go to; or it has
\* been given another node's name.
Own(m, n)  == Dest[m] = n \/ m \in env.misnamed
Fine(m, n) == n \in Hubs(Dest[m]) \/ m \in env.misnamed

FilesWhere   == \A n \in Nodes : /\ \A m \in xpr[n] : Own(m, n)
                                 /\ \A m \in aside[n] : Own(m, n)
                                 /\ \A m \in out[n] : Own(m, n)
BundlesWhere == \A n \in Nodes : \A d \in DOMAIN bundle[n] : \A m \in bundle[n][d] : Fine(m, n)
ArrivedWhere == \A a \in arrived : Fine(a[1], a[2])

\* What is in the *.PKT while somebody packs is for the bundle he is about to write.
PackerWhere(u) ==
  LET l == line[u] IN
  /\ l.at \in {"next", "find", "list", "archive", "restore"} => u \in Packers
  /\ l.at = "next" => pkt = {}
  /\ l.at = "find" => /\ pkt = {} \/ (Command(u).cmd = "route" /\ ~l.nopack)
                      /\ Command(u).cmd = "route" => l.todo \subseteq Command(u).nodes \cup {Command(u).hub}
                      /\ \A m \in pkt : Fine(m, Command(u).hub)
  /\ l.at \in {"list", "archive"} => \A m \in pkt : Fine(m, l.node)

Where == FilesWhere /\ BundlesWhere /\ ArrivedWhere /\ \A u \in Lines : PackerWhere(u)

LEMMA HubOf ==
  ASSUME NEW r \in Routes, NEW i \in DOMAIN r, r[i].cmd = "route",
         NEW n, n \in r[i].nodes \cup {r[i].hub}
  PROVE  r[i].hub \in Hubs(n)
<1>1. CASE n = r[i].hub
  BY <1>1 DEF Hubs
<1>2. CASE n \in r[i].nodes
  <2>1. r[i].hub \in {r[j].hub : j \in {k \in DOMAIN r : r[k].cmd = "route" /\ n \in r[k].nodes}}
    BY <1>2
  <2> QED BY <2>1 DEF Hubs
<1> QED BY <1>1, <1>2

LEMMA OwnIsFine ==
  ASSUME NEW m, NEW n, Own(m, n)
  PROVE  Fine(m, n)
BY DEF Own, Fine, Hubs

\* A line that does not pack knows nothing of the *.PKT.
LEMMA NotPacking ==
  ASSUME NEW u, line'[u].at \notin {"next", "find", "list", "archive", "restore"}
  PROVE  PackerWhere(u)'
BY DEF PackerWhere

\* Only the packer touches the *.PKT, so that what the others know of them stays.
LEMMA WhereOthers ==
  ASSUME OneLinePacks, Inv, Where, NEW t, \A u \in Lines : u # t => line'[u] = line[u],
         pkt' = pkt \/ t \in Packers, env.misnamed \subseteq env'.misnamed,
         FilesWhere', BundlesWhere', ArrivedWhere', t \in Lines => PackerWhere(t)'
  PROVE  Where'
<1> SUFFICES ASSUME NEW u \in Lines, u # t PROVE PackerWhere(u)'
  BY DEF Where
<1>1. line'[u] = line[u] /\ PackerWhere(u)
  BY DEF Where
<1>2. CASE line[u].at \in {"next", "find", "list", "archive", "restore"}
  <2>1. pkt' = pkt
    BY <1>1, <1>2 DEF PackerWhere, OneLinePacks
  <2>2. Command(u)' = Command(u)
    BY <1>1 DEF Command
  <2>3. ASSUME NEW n, \A m \in pkt : Fine(m, n)
        PROVE  \A m \in pkt' : n \in Hubs(Dest[m]) \/ m \in env'.misnamed
    BY <2>1, <2>3 DEF Fine
  <2>4. /\ line[u].at = "find" => \A m \in pkt' : Command(u).hub \in Hubs(Dest[m]) \/ m \in env'.misnamed
        /\ line[u].at \in {"list", "archive"} =>
             \A m \in pkt' : line[u].node \in Hubs(Dest[m]) \/ m \in env'.misnamed
    BY <1>1, <2>3 DEF PackerWhere
  <2> QED BY <1>1, <2>1, <2>2, <2>4 DEF PackerWhere, Fine
<1>3. CASE line[u].at \notin {"next", "find", "list", "archive", "restore"}
  BY <1>1, <1>3, NotPacking
<1> QED BY <1>2, <1>3

LEMMA FilesStay ==
  ASSUME FilesWhere, env.misnamed \subseteq env'.misnamed,
         \A n \in Nodes : xpr'[n] \subseteq xpr[n] /\ aside'[n] \subseteq aside[n] /\ out'[n] \subseteq out[n]
  PROVE  FilesWhere'
BY DEF FilesWhere, Own

LEMMA BundlesStay ==
  ASSUME BundlesWhere, env.misnamed \subseteq env'.misnamed,
         \A n \in Nodes : \A d \in DOMAIN bundle'[n] :
           bundle'[n][d] = {} \/ (d \in DOMAIN bundle[n] /\ bundle'[n][d] = bundle[n][d])
  PROVE  BundlesWhere'
<1> SUFFICES ASSUME NEW n \in Nodes, NEW d \in DOMAIN bundle'[n], NEW m \in bundle'[n][d]
             PROVE  Fine(m, n)'
  BY DEF BundlesWhere
<1>1. d \in DOMAIN bundle[n] /\ m \in bundle[n][d]
  OBVIOUS
<1> QED BY <1>1 DEF BundlesWhere, Fine

LEMMA ArrivedStay ==
  ASSUME ArrivedWhere, env.misnamed \subseteq env'.misnamed, arrived' = arrived
  PROVE  ArrivedWhere'
BY DEF ArrivedWhere, Fine

\* Steps of a line that change no files
LEMMA WhereMove ==
  ASSUME OneLinePacks, Inv, Where, NEW t \in Lines, NEW l, line' = [line EXCEPT ![t] = l],
         UNCHANGED <<packets, arrived>>, env.misnamed \subseteq env'.misnamed,
         \A n \in Nodes : \A d \in DOMAIN bundle'[n] :
           bundle'[n][d] = {} \/ (d \in DOMAIN bundle[n] /\ bundle'[n][d] = bundle[n][d]),
         PackerWhere(t)'
  PROVE  Where'
<1>1. FilesWhere' /\ BundlesWhere' /\ ArrivedWhere'
  BY FilesStay, BundlesStay, ArrivedStay DEF Where, packets
<1>2. \A u \in Lines : u # t => line'[u] = line[u]
  BY DEF Inv, TypeOK
<1>3. pkt' = pkt
  BY DEF packets
<1> QED BY <1>1, <1>2, <1>3, WhereOthers

LEMMA BeginWhere ==
  ASSUME OneLinePacks, Inv, Where, NEW t \in Lines, Begin(t)
  PROVE  Where'
<1>1. PICK r \in Routes : line' = [line EXCEPT ![t] = [Idle EXCEPT !.at = "next", !.route = r]]
  BY DEF Begin
<1>2. /\ t \in Packers /\ pkt' = {} /\ env' = [env EXCEPT !.packs = @ - 1]
      /\ UNCHANGED <<xpr, aside, out, bundle, arrived>>
  BY DEF Begin
<1>3. env'.misnamed = env.misnamed
  BY <1>2 DEF Inv, TypeOK, Histories
<1>4. line'[t].at = "next" /\ \A u \in Lines : u # t => line'[u] = line[u]
  BY <1>1 DEF Inv, TypeOK, Idle
<1>5. FilesWhere' /\ BundlesWhere' /\ ArrivedWhere'
  BY <1>2, <1>3, FilesStay, BundlesStay, ArrivedStay DEF Where
<1>6. PackerWhere(t)'
  BY <1>2, <1>4 DEF PackerWhere
<1> QED BY <1>2, <1>3, <1>4, <1>5, <1>6, WhereOthers

LEMMA NextCommandWhere ==
  ASSUME OneLinePacks, Inv, Where, NEW t \in Lines, NextCommand(t)
  PROVE  Where'
<1> DEFINE c == line[t].route[line[t].cmd + 1]
           ns == IF c.cmd = "route" THEN c.nodes \cup {c.hub} ELSE c.nodes
           b == c.cmd = "route" /\ busy[c.hub] # None
           l == [[line[t] EXCEPT !.cmd = @ + 1, !.at = "find"] EXCEPT !.todo = ns, !.nopack = b]
<1>1. /\ line' = [line EXCEPT ![t] = l] /\ UNCHANGED <<packets, bundle, arrived, env>>
      /\ line[t].at = "next" /\ line[t] \in Records
  BY DEF NextCommand, At, Inv, TypeOK
<1>2. l.at = "find" /\ l.cmd = line[t].cmd + 1 /\ l.route = line[t].route /\ l.todo = ns
  <2> HIDE DEF ns, b
  <2> QED BY <1>1 DEF Records
<1>3. line'[t] = l
  BY <1>1 DEF Inv, TypeOK
<1>4. t \in Packers /\ pkt' = {}
  BY <1>1 DEF Where, PackerWhere, packets
<1>5. Command(t)' = c
  BY <1>2, <1>3 DEF Command
<1> HIDE DEF l
<1>6. line'[t].at = "find" /\ line'[t].todo = ns /\ (Command(t)'.cmd = "route" => ns = c.nodes \cup {c.hub})
  BY <1>2, <1>3, <1>5
<1>7. PackerWhere(t)'
  BY <1>4, <1>5, <1>6 DEF PackerWhere
<1> QED BY <1>1, <1>7, WhereMove

LEMMA FindNoneWhere ==
  ASSUME OneLinePacks, Inv, Where, NEW t \in Lines, FindNone(t)
  PROVE  Where'
<1> DEFINE c == Command(t)
<1>1. line[t] \in Records /\ line[t].at = "find" /\ UNCHANGED <<packets, bundle, arrived, env>>
  BY DEF Inv, TypeOK, FindNone, At
<1>2. /\ t \in Packers /\ pkt' = pkt
      /\ pkt = {} \/ (c.cmd = "route" /\ ~line[t].nopack)
      /\ \A m \in pkt : Fine(m, c.hub)
  BY <1>1 DEF Where, PackerWhere, packets
<1>3. CASE c.cmd = "route" /\ ~line[t].nopack
  <2> DEFINE l == [line[t] EXCEPT !.at = "list", !.node = c.hub]
  <2>1. line' = [line EXCEPT ![t] = l]
    BY <1>3 DEF FindNone, Inv, TypeOK
  <2>2. l.at = "list" /\ l.node = c.hub
    BY <1>1 DEF Records
  <2>3. line'[t] = l
    BY <2>1 DEF Inv, TypeOK
  <2> HIDE DEF l
  <2>4. line'[t].at = "list" /\ line'[t].node = c.hub
    BY <2>2, <2>3
  <2>5. \A m \in pkt' : c.hub \in Hubs(Dest[m]) \/ m \in env'.misnamed
    BY <1>1, <1>2 DEF Fine
  <2>6. PackerWhere(t)'
    BY <1>2, <2>4, <2>5 DEF PackerWhere, Fine
  <2> QED BY <1>1, <2>1, <2>6, WhereMove
<1>4. CASE ~(c.cmd = "route" /\ ~line[t].nopack)
  <2> DEFINE l == [line[t] EXCEPT !.at = "next"]
  <2>1. line' = [line EXCEPT ![t] = l]
    BY <1>4 DEF FindNone, Goes, Inv, TypeOK
  <2>2. line'[t].at = "next"
    BY <1>1, <2>1 DEF Inv, TypeOK, Records
  <2>3. PackerWhere(t)'
    BY <1>2, <1>4, <2>2 DEF PackerWhere
  <2> HIDE DEF l
  <2> QED BY <1>1, <2>1, <2>3, WhereMove
<1> QED BY <1>3, <1>4

LEMMA TakePacketWhere ==
  ASSUME OneLinePacks, Inv, Where, NEW t \in Lines, NEW n \in Nodes, TakePacket(t, n)
  PROVE  Where'
<1> DEFINE c == Command(t)
           at == IF c.cmd = "route" THEN "find" ELSE "list"
<1>1. Found(t, n, at) /\ at \in {"find", "list"}
  BY DEF TakePacket
<1>2. /\ xpr' \in [Nodes -> SUBSET Mail] /\ xpr' = [xpr EXCEPT ![n] = {}]
      /\ \A u \in Lines : u # t => line'[u] = line[u]
      /\ line'[t].at = at /\ line'[t].cmd = line[t].cmd /\ line'[t].route = line[t].route
      /\ line'[t].nopack = line[t].nopack /\ line'[t].todo = line[t].todo \ {n}
      /\ line'[t].node = IF c.cmd = "route" THEN line[t].node ELSE n
      /\ Command(t)' = c /\ line[t].at = "find" /\ n \in line[t].todo
  <2> HIDE DEF at
  <2> QED BY <1>1, FoundLine
<1>3. /\ c.cmd = "route" => ~line[t].nopack
      /\ pkt' = pkt \cup xpr[n]
      /\ UNCHANGED <<aside, out, bundle, arrived, env>>
  BY DEF TakePacket
<1>4. /\ t \in Packers
      /\ pkt = {} \/ (c.cmd = "route" /\ ~line[t].nopack)
      /\ c.cmd = "route" => line[t].todo \subseteq c.nodes \cup {c.hub}
      /\ \A m \in pkt : Fine(m, c.hub)
  BY <1>2 DEF Where, PackerWhere
<1>5. \A m \in xpr[n] : Own(m, n)
  BY DEF Where, FilesWhere
<1>6. FilesWhere' /\ BundlesWhere' /\ ArrivedWhere'
  <2>1. \A x \in Nodes : xpr'[x] \subseteq xpr[x]
    BY <1>2 DEF Inv, TypeOK
  <2> QED BY <1>3, <2>1, FilesStay, BundlesStay, ArrivedStay DEF Where
<1>7. PackerWhere(t)'
  <2>1. CASE c.cmd = "route"
    <3>1. line[t].route \in Routes /\ line[t].cmd \in DOMAIN line[t].route
      BY <1>2, Places
    <3>2. c.hub \in Hubs(n)
      BY <1>2, <1>4, <2>1, <3>1, HubOf DEF Command
    <3>3. \A m \in pkt' : c.hub \in Hubs(Dest[m]) \/ m \in env'.misnamed
      BY <1>3, <1>4, <1>5, <3>2 DEF Own, Fine
    <3>4. line'[t].at = "find" /\ ~line'[t].nopack
      BY <1>2, <1>3, <2>1
    <3> QED BY <1>2, <1>4, <2>1, <3>3, <3>4 DEF PackerWhere, Fine
  <2>2. CASE c.cmd # "route"
    <3>1. line'[t].at = "list" /\ line'[t].node = n
      BY <1>2, <2>2
    <3>2. \A m \in pkt' : n \in Hubs(Dest[m]) \/ m \in env'.misnamed
      BY <1>3, <1>4, <1>5, <2>2, OwnIsFine DEF Fine
    <3> QED BY <1>4, <3>1, <3>2 DEF PackerWhere, Fine
  <2> QED BY <2>1, <2>2
<1>8. env'.misnamed = env.misnamed
  BY <1>3
<1> QED BY <1>2, <1>4, <1>6, <1>7, <1>8, WhereOthers

LEMMA SetAsideWhere ==
  ASSUME OneLinePacks, Inv, Where, NEW t \in Lines, NEW n \in Nodes, SetAside(t, n)
  PROVE  Where'
<1> DEFINE as == IF Command(t).cmd = "send" THEN line[t].blko ELSE n
<1>0. Found(t, n, "find")
  BY DEF SetAside
<1>1. /\ xpr' = [xpr EXCEPT ![n] = {}]
      /\ \A u \in Lines : u # t => line'[u] = line[u]
      /\ line'[t].at = "find" /\ line'[t].nopack = line[t].nopack
      /\ line'[t].todo = line[t].todo \ {n}
      /\ Command(t)' = Command(t) /\ line[t].at = "find"
  BY <1>0, FoundLine
<1>2. /\ IF as = None THEN UNCHANGED <<aside, env>>
         ELSE /\ aside' = [aside EXCEPT ![as] = xpr[n]]
              /\ env' = IF as = n THEN env ELSE [env EXCEPT !.misnamed = @ \cup xpr[n]]
      /\ UNCHANGED <<out, pkt, bundle, arrived>>
  BY DEF SetAside
<1> HIDE DEF as
<1>3. /\ env.misnamed \subseteq env'.misnamed
      /\ as = None \/ as = n \/ env'.misnamed = env.misnamed \cup xpr[n]
  <2>1. CASE env' = env /\ (as = None \/ as = n)
    BY <2>1
  <2>2. CASE env' = [env EXCEPT !.misnamed = @ \cup xpr[n]]
    <3>1. env'.misnamed = env.misnamed \cup xpr[n]
      BY <2>2 DEF Inv, TypeOK, Histories
    <3> QED BY <3>1
  <2> QED BY <1>2, <2>1, <2>2
<1>4. FilesWhere'
  <2> SUFFICES ASSUME NEW x \in Nodes, NEW m, m \in xpr'[x] \/ m \in aside'[x] \/ m \in out'[x]
               PROVE  Dest[m] = x \/ m \in env'.misnamed
    BY DEF FilesWhere, Own
  <2>1. /\ \A y \in xpr[x] \cup aside[x] \cup out[x] : Dest[y] = x \/ y \in env.misnamed
        /\ \A y \in xpr[n] : Dest[y] = n \/ y \in env.misnamed
    BY DEF Where, FilesWhere, Own
  <2>2. m \in xpr'[x] => m \in xpr[x]
    BY <1>1 DEF Inv, TypeOK
  <2>3. m \in aside'[x] => m \in aside[x] \/ (x = as /\ as # None /\ m \in xpr[n])
    BY <1>2 DEF Inv, TypeOK
  <2> QED BY <1>2, <1>3, <2>1, <2>2, <2>3
<1>5. BundlesWhere' /\ ArrivedWhere'
  BY <1>2, <1>3, BundlesStay, ArrivedStay DEF Where
<1>6. PackerWhere(t)'
  <2>1. PackerWhere(t)
    BY DEF Where
  <2>2. \A m \in pkt' : Command(t).hub \in Hubs(Dest[m]) \/ m \in env'.misnamed
    BY <1>1, <1>2, <1>3, <2>1 DEF PackerWhere, Fine
  <2> QED BY <1>1, <1>2, <2>1, <2>2 DEF PackerWhere, Fine
<1> QED BY <1>1, <1>2, <1>3, <1>4, <1>5, <1>6, WhereOthers

LEMMA ListBundleWhere ==
  ASSUME OneLinePacks, Inv, Where, NEW t \in Lines, ListBundle(t)
  PROVE  Where'
<1> DEFINE n == line[t].node
           there == DOMAIN bundle[n]
<1>1. /\ line[t].at = "list" /\ UNCHANGED <<packets, arrived>> /\ n \in Nodes
      /\ \/ bundle' = bundle
         \/ \E found \in there : bundle' = [bundle EXCEPT ![n] = [e \in there \ {found} |-> @[e]]]
      /\ \/ pkt = {} /\ Packed(t) /\ env' = env
         \/ \E d : /\ env' = [env EXCEPT !.refused = @ \ {<<n, d>>}]
                   /\ line' = [line EXCEPT ![t].at = "archive", ![t].name = d]
  BY Places DEF ListBundle, At
<1>2. env'.misnamed = env.misnamed
  BY <1>1 DEF Inv, TypeOK, Histories
<1>3. \A x \in Nodes : \A d \in DOMAIN bundle'[x] : d \in DOMAIN bundle[x] /\ bundle'[x][d] = bundle[x][d]
  <2>1. CASE bundle' = bundle
    BY <2>1
  <2>2. ASSUME NEW found \in there, bundle' = [bundle EXCEPT ![n] = [e \in there \ {found} |-> @[e]]]
        PROVE  \A x \in Nodes : \A d \in DOMAIN bundle'[x] : d \in DOMAIN bundle[x] /\ bundle'[x][d] = bundle[x][d]
    BY <1>1, <2>2 DEF Inv, TypeOK
  <2> QED BY <1>1, <2>1, <2>2
<1>4. PackerWhere(t) /\ t \in Packers /\ pkt' = pkt
  BY <1>1 DEF Where, PackerWhere, packets
<1>5. CASE pkt = {} /\ Packed(t)
  <2>1. PackerWhere(t)'
    BY <1>1, <1>4, <1>5, PackedLine DEF PackerWhere
  <2>2. \A u \in Lines : u # t => line'[u] = line[u]
    BY <1>1, <1>5, PackedLine
  <2>3. FilesWhere' /\ BundlesWhere' /\ ArrivedWhere'
    BY <1>1, <1>2, <1>3, FilesStay, BundlesStay, ArrivedStay DEF Where, packets
  <2> QED BY <1>2, <1>4, <2>1, <2>2, <2>3, WhereOthers
<1>6. ASSUME NEW d, line' = [line EXCEPT ![t].at = "archive", ![t].name = d] PROVE Where'
  <2> DEFINE l == [line[t] EXCEPT !.at = "archive", !.name = d]
  <2>1. line' = [line EXCEPT ![t] = l] /\ line[t] \in Records
    BY <1>6 DEF Inv, TypeOK
  <2>2. l.at = "archive" /\ l.node = n
    BY <2>1 DEF Records
  <2>3. line'[t] = l
    BY <2>1 DEF Inv, TypeOK
  <2> HIDE DEF l
  <2>4. line'[t].at = "archive" /\ line'[t].node = line[t].node
    BY <2>2, <2>3
  <2>5. \A m \in pkt' : line[t].node \in Hubs(Dest[m]) \/ m \in env'.misnamed
    BY <1>1, <1>2, <1>4 DEF PackerWhere, Fine
  <2>6. PackerWhere(t)'
    BY <1>4, <2>4, <2>5 DEF PackerWhere, Fine
  <2> QED BY <1>1, <1>2, <1>3, <2>1, <2>6, WhereMove
<1> QED BY <1>1, <1>5, <1>6

LEMMA ArchiveWhere ==
  ASSUME OneLinePacks, Inv, Where, NEW t \in Lines, Archive(t)
  PROVE  Where'
<1>1. /\ line[t].at = "archive" /\ Packed(t) /\ pkt' = {}
      /\ bundle' \in {bundle, Archived(line[t].node, line[t].name)}
      /\ UNCHANGED <<xpr, aside, out, arrived, env>>
  BY DEF Archive, At, Archived
<1>2. line[t].node \in Nodes /\ line[t].name \in Digits
  BY <1>1, Places, Fields
<1>3. PICK n \in Nodes, d \in Digits : n = line[t].node /\ d = line[t].name
  BY <1>2
<1>4. t \in Packers /\ \A m \in pkt : Fine(m, n)
  BY <1>1, <1>3 DEF Where, PackerWhere
<1>5. BundlesWhere'
  <2> SUFFICES ASSUME NEW x \in Nodes, NEW e \in DOMAIN bundle'[x], NEW m \in bundle'[x][e]
               PROVE  x \in Hubs(Dest[m]) \/ m \in env.misnamed
    BY <1>1 DEF BundlesWhere, Fine
  <2>1. \A y \in Nodes : \A f \in DOMAIN bundle[y] : \A k \in bundle[y][f] :
          y \in Hubs(Dest[k]) \/ k \in env.misnamed
    BY DEF Where, BundlesWhere, Fine
  <2>2. CASE bundle' = bundle
    BY <2>1, <2>2
  <2>3. CASE bundle' = Archived(n, d)
    <3>1. /\ \A y \in Nodes : y # n => Archived(n, d)[y] = bundle[y]
          /\ DOMAIN Archived(n, d)[n] = DOMAIN bundle[n] \cup {d}
          /\ \A f \in DOMAIN bundle[n] : f # d => Archived(n, d)[n][f] = bundle[n][f]
          /\ \A k \in Archived(n, d)[n][d] : k \in pkt \/ (d \in DOMAIN bundle[n] /\ k \in bundle[n][d])
      BY ArchivedType, ArchivedFiles DEF Inv
    <3>2. CASE x = n /\ e = d
      BY <1>4, <2>1, <2>3, <3>1, <3>2 DEF Fine
    <3>3. CASE ~(x = n /\ e = d)
      BY <2>1, <2>3, <3>1, <3>3
    <3> QED BY <3>2, <3>3
  <2> QED BY <1>1, <1>3, <2>2, <2>3
<1>6. FilesWhere' /\ ArrivedWhere'
  BY <1>1, FilesStay, ArrivedStay DEF Where
<1>7. PackerWhere(t)'
  <2>1. line'[t].at = (IF Command(t).cmd = "route" THEN "next" ELSE "find") /\ Command(t)' = Command(t)
    BY <1>1, PackedLine
  <2> QED BY <1>1, <1>4, <2>1 DEF PackerWhere
<1>8. \A u \in Lines : u # t => line'[u] = line[u]
  BY <1>1, PackedLine
<1> QED BY <1>1, <1>4, <1>5, <1>6, <1>7, <1>8, WhereOthers

LEMMA PackDoneWhere ==
  ASSUME OneLinePacks, Inv, Where, NEW t \in Lines, PackDone(t)
  PROVE  Where'
<1> DEFINE l == [Idle EXCEPT !.at = "restore", !.todo = Nodes]
<1>1. line' = [line EXCEPT ![t] = l] /\ UNCHANGED <<packets, bundle, arrived, env>> /\ line[t].at = "next"
  BY DEF PackDone, At
<1>2. line'[t].at = "restore"
  BY <1>1 DEF Inv, TypeOK, Idle
<1>3. PackerWhere(t)'
  BY <1>1, <1>2 DEF Where, PackerWhere
<1> HIDE DEF l
<1> QED BY <1>1, <1>3, WhereMove

LEMMA RestoreDoneWhere ==
  ASSUME OneLinePacks, Inv, Where, NEW t \in Lines, RestoreDone(t)
  PROVE  Where'
<1>1. line' = [line EXCEPT ![t] = Idle] /\ UNCHANGED <<packets, bundle, arrived, env>>
  BY DEF RestoreDone
<1>2. line'[t].at = "idle"
  BY <1>1 DEF Inv, TypeOK, Idle
<1> QED BY <1>1, <1>2, NotPacking, WhereMove

LEMMA RestoreWhere ==
  ASSUME OneLinePacks, Inv, Where, NEW t \in Lines, Restore(t)
  PROVE  Where'
<1>1. PICK n \in line[t].todo :
        /\ line' = [line EXCEPT ![t].todo = @ \ {n}]
        /\ IF out[n] # {} /\ Open(n) THEN UNCHANGED <<aside, out, env>>
           ELSE /\ out' = [out EXCEPT ![n] = @ \cup aside[n]]
                /\ aside' = [aside EXCEPT ![n] = {}]
                /\ env' = IF out[n] = {} THEN env ELSE [env EXCEPT !.added = @ \cup aside[n]]
  BY DEF Restore
<1>2. /\ line[t].at = "restore" /\ line[t] \in Records
      /\ UNCHANGED <<xpr, pkt, bundle, arrived>>
  BY Places DEF Restore, At
<1>3. env'.misnamed = env.misnamed
  <2>1. env' = env \/ env' = [env EXCEPT !.added = @ \cup aside[n]]
    BY <1>1
  <2> QED BY <2>1 DEF Inv, TypeOK, Histories
<1>4. line'[t].at = "restore" /\ \A u \in Lines : u # t => line'[u] = line[u]
  BY <1>1, <1>2 DEF Inv, TypeOK, Records
<1>5. FilesWhere'
  <2>1. \A x \in Nodes : aside'[x] \subseteq aside[x] /\ out'[x] \subseteq out[x] \cup aside[x]
    <3>1. CASE UNCHANGED <<aside, out>>
      BY <3>1
    <3>2. CASE out' = [out EXCEPT ![n] = @ \cup aside[n]] /\ aside' = [aside EXCEPT ![n] = {}]
      BY <3>2 DEF Inv, TypeOK
    <3> QED BY <1>1, <3>1, <3>2
  <2> QED BY <1>2, <1>3, <2>1 DEF Where, FilesWhere, Own
<1>6. BundlesWhere' /\ ArrivedWhere'
  BY <1>2, <1>3, BundlesStay, ArrivedStay DEF Where
<1>7. PackerWhere(t)'
  BY <1>2, <1>4 DEF Where, PackerWhere
<1> QED BY <1>2, <1>3, <1>4, <1>5, <1>6, <1>7, WhereOthers

LEMMA NextAddressAt ==
  ASSUME NEW l \in Records
  PROVE  NextAddress(l).at \in {"scan", "done"}
<1>1. CASE l.k < Len(l.list)
  <2> DEFINE k == l.k + 1
             n == l.list[l.k + 1]
             l2 == [l EXCEPT !.at = "scan", !.k = k, !.node = n, !.ext = 0, !.pos = 0]
  <2>1. NextAddress(l) = l2
    BY <1>1 DEF NextAddress
  <2> HIDE DEF k, n
  <2>2. l2.at = "scan"
    BY DEF Records
  <2> HIDE DEF l2
  <2> QED BY <2>1, <2>2
<1>2. CASE ~(l.k < Len(l.list))
  <2> DEFINE l2 == [l EXCEPT !.at = "done"]
  <2>1. NextAddress(l) = l2
    BY <1>2 DEF NextAddress
  <2>2. l2.at = "done"
    BY DEF Records
  <2> HIDE DEF l2
  <2> QED BY <2>1, <2>2
<1> QED BY <1>1, <1>2

\* A session does not get into the middle of packing.
LEMMA SessionAt ==
  ASSUME Inv, NEW t \in Lines, Session(t)
  PROVE  \E l : /\ line' = [line EXCEPT ![t] = l]
                /\ l.at \in {"idle", "scan", "send", "sent", "unlink", "strike", "done"}
<1> DEFINE Good(l) == l.at \in {"idle", "scan", "send", "sent", "unlink", "strike", "done"}
<1>0. line \in [Lines -> Records] /\ line[t] \in Records
  BY DEF Inv, TypeOK
<1>1. CASE Connect(t)
  <2>1. PICK list \in Sessions, orig \in BOOLEAN :
          line' = [line EXCEPT ![t] = [Idle EXCEPT !.at = "scan", !.list = list,
                     !.ok = [k \in DOMAIN list |-> busy[list[k]] = None],
                     !.orig = orig, !.k = 1, !.node = list[1]]]
    BY <1>1 DEF Connect
  <2> DEFINE ok == [k \in DOMAIN list |-> busy[list[k]] = None]
             n == list[1]
             l == [Idle EXCEPT !.at = "scan", !.list = list, !.ok = ok, !.orig = orig, !.k = 1, !.node = n]
  <2> HIDE DEF ok, n
  <2>2. l.at = "scan"
    BY DEF Idle
  <2>3. line' = [line EXCEPT ![t] = l]
    BY <2>1 DEF ok, n
  <2> QED BY <2>2, <2>3
<1>2. ASSUME NEW at \in {"scan", "send", "sent", "unlink", "strike", "done"}, Goes(t, at)
      PROVE  \E l : line' = [line EXCEPT ![t] = l] /\ Good(l)
  <2>1. line' = [line EXCEPT ![t] = [line[t] EXCEPT !.at = at]]
    BY <1>0, <1>2 DEF Goes
  <2>2. [line[t] EXCEPT !.at = at].at = at
    BY <1>0 DEF Records
  <2> QED BY <2>1, <2>2
<1>3. CASE SendOut(t) \/ Arrive(t) \/ Acknowledged(t) \/ Strike(t)
  BY <1>2, <1>3 DEF SendOut, Arrive, Acknowledged, Strike, Offer
<1>4. CASE SendListed(t)
  <2>1. PICK i, j, d : line' = [line EXCEPT ![t] = [line[t] EXCEPT !.at = Offer(line[t]), !.ext = i,
                                                                   !.pos = j, !.name = d]]
    BY <1>4 DEF SendListed
  <2> DEFINE at == Offer(line[t])
             l == [line[t] EXCEPT !.at = at, !.ext = i, !.pos = j, !.name = d]
  <2>2. at \in {"done", "send"}
    BY DEF Offer
  <2> HIDE DEF at
  <2>3. l.at = at
    BY <1>0 DEF Records
  <2>4. line' = [line EXCEPT ![t] = l]
    BY <2>1 DEF at
  <2> QED BY <2>2, <2>3, <2>4
<1>5. CASE EndAddress(t)
  BY <1>0, <1>5, NextAddressAt DEF EndAddress
<1>6. CASE Halt(t)
  <2> DEFINE l == [line[t] EXCEPT !.halted = TRUE]
  <2>1. l \in Records
    BY <1>0 DEF Records
  <2>2. line' = [line EXCEPT ![t] = NextAddress(l)]
    BY <1>6 DEF Halt
  <2> HIDE DEF l
  <2>3. NextAddress(l).at \in {"scan", "done"}
    BY <2>1, NextAddressAt
  <2> QED BY <2>2, <2>3
<1>7. CASE Refused(t) \/ Unlink(t)
  <2>1. CASE line[t].ext = 0
    <3>1. line' = [line EXCEPT ![t] = [line[t] EXCEPT !.at = "scan", !.ext = 1]]
      BY <1>0, <1>7, <2>1 DEF Refused, Unlink
    <3>2. [line[t] EXCEPT !.at = "scan", !.ext = 1].at = "scan"
      BY <1>0 DEF Records
    <3> QED BY <3>1, <3>2
  <2>2. CASE line[t].ext # 0
    BY <1>2, <1>7, <2>2 DEF Refused, Unlink
  <2> QED BY <2>1, <2>2
<1>8. CASE HangUp(t)
  <2>1. Idle.at = "idle"
    BY DEF Idle
  <2> QED BY <1>8, <2>1 DEF HangUp
<1> QED BY <1>1, <1>3, <1>4, <1>5, <1>6, <1>7, <1>8 DEF Session

LEMMA SessionWhere ==
  ASSUME OneLinePacks, Inv, Where, NEW t \in Lines, Session(t)
  PROVE  Where'
<1>1. PICK l : /\ line' = [line EXCEPT ![t] = l]
               /\ l.at \in {"idle", "scan", "send", "sent", "unlink", "strike", "done"}
  BY SessionAt
<1>2. /\ line'[t].at \notin {"next", "find", "list", "archive", "restore"}
      /\ \A u \in Lines : u # t => line'[u] = line[u]
  BY <1>1 DEF Inv, TypeOK
<1>3. PackerWhere(t)'
  BY <1>2, NotPacking
<1>4. env'.misnamed = env.misnamed
  <2>1. env' = env \/ (\E r : env' = [env EXCEPT !.refused = r]) \/ env' = [env EXCEPT !.calls = @ - 1]
    BY DEF Session, Connect, SendOut, SendListed, EndAddress, Arrive, Acknowledged, Refused,
       Unlink, Strike, Halt, HangUp
  <2> QED BY <2>1 DEF Inv, TypeOK, Histories
<1>5. CASE ~Arrive(t) /\ ~Unlink(t)
  <2>1. UNCHANGED <<packets, bundle, arrived>>
    BY <1>5 DEF Session, Connect, SendOut, SendListed, EndAddress, Acknowledged, Refused,
       Strike, Halt, HangUp
  <2> QED BY <1>1, <1>3, <1>4, <2>1, WhereMove
<1>6. CASE Unlink(t)
  <2>1. /\ line[t].at = "unlink" /\ UNCHANGED <<xpr, aside, pkt, arrived>>
        /\ out' = out \/ out' = [out EXCEPT ![line[t].node] = {}]
        /\ bundle' = bundle \/ bundle' = [bundle EXCEPT ![line[t].node][line[t].name] = {}]
    BY <1>6 DEF Unlink, At
  <2>2. line[t].node \in Nodes
    BY <2>1, InSession DEF Scanning
  <2>3. \A n \in Nodes : out'[n] \subseteq out[n]
    BY <2>1, <2>2 DEF Inv, TypeOK
  <2>4. \A n \in Nodes : \A d \in DOMAIN bundle'[n] :
          bundle'[n][d] = {} \/ (d \in DOMAIN bundle[n] /\ bundle'[n][d] = bundle[n][d])
    <3>1. CASE bundle' = bundle
      BY <3>1
    <3>2. CASE bundle' = [bundle EXCEPT ![line[t].node][line[t].name] = {}]
      BY <2>2, <3>2 DEF Inv, TypeOK
    <3> QED BY <2>1, <3>1, <3>2
  <2>5. FilesWhere' /\ BundlesWhere' /\ ArrivedWhere'
    BY <1>4, <2>1, <2>3, <2>4, FilesStay, BundlesStay, ArrivedStay DEF Where
  <2> QED BY <1>2, <1>3, <1>4, <2>1, <2>5, WhereOthers
<1>7. CASE Arrive(t)
  <2> DEFINE n == line[t].node
             c == IF line[t].ext = 0 THEN out[n] ELSE bundle[n][line[t].name]
  <2>1. /\ line[t].at = "send" /\ arrived' = arrived \cup (c \X {n})
        /\ UNCHANGED <<packets, bundle, env>>
    BY <1>7 DEF Arrive, At, Contents
  <2>2. n \in Nodes /\ FileInv(t)
    BY <2>1, InSession DEF Scanning
  <2>3. \A m \in c : Fine(m, n)
    <3>1. CASE line[t].ext = 0
      BY <2>2, <3>1, OwnIsFine DEF Where, FilesWhere
    <3>2. CASE line[t].ext # 0
      BY <2>1, <2>2, <3>2 DEF Where, BundlesWhere, FileInv
    <3> QED BY <3>1, <3>2
  <2> HIDE DEF c, n
  <2>4. ArrivedWhere'
    <3> SUFFICES ASSUME NEW a \in arrived' PROVE a[2] \in Hubs(Dest[a[1]]) \/ a[1] \in env.misnamed
      BY <2>1 DEF ArrivedWhere, Fine
    <3>1. CASE a \in arrived
      BY <3>1 DEF Where, ArrivedWhere, Fine
    <3>2. CASE a \in c \X {n}
      BY <2>3, <3>2 DEF Fine
    <3> QED BY <2>1, <3>1, <3>2
  <2>5. FilesWhere' /\ BundlesWhere'
    BY <2>1, FilesStay, BundlesStay DEF Where, packets
  <2> QED BY <1>2, <1>3, <1>4, <2>1, <2>4, <2>5, WhereOthers DEF packets
<1> QED BY <1>5, <1>6, <1>7

LEMMA NextWhere ==
  ASSUME OneLinePacks, Inv, Where, [Next]_vars
  PROVE  Where'
<1>1. ASSUME NEW x \in Mail, Export(x) PROVE Where'
  <2>1. /\ xpr' = [xpr EXCEPT ![Dest[x]] = @ \cup {x}] /\ env' = [env EXCEPT !.fresh = @ \ {x}]
        /\ UNCHANGED <<aside, out, pkt, bundle, line, arrived>>
    BY <1>1 DEF Export
  <2>2. env'.misnamed = env.misnamed
    BY <2>1 DEF Inv, TypeOK, Histories
  <2>3. \A n \in Nodes : \A m \in xpr'[n] : m \in xpr[n] \/ Dest[m] = n
    BY <2>1 DEF Inv, TypeOK
  <2>4. FilesWhere'
    BY <2>1, <2>2, <2>3 DEF Where, FilesWhere, Own
  <2>5. BundlesWhere' /\ ArrivedWhere'
    BY <2>1, <2>2, BundlesStay, ArrivedStay DEF Where
  <2> QED BY <2>1, <2>2, <2>4, <2>5, WhereOthers, Constants
<1>2. ASSUME NEW t \in Lines, Pack(t) PROVE Where'
  BY <1>2, BeginWhere, NextCommandWhere, FindNoneWhere, TakePacketWhere, SetAsideWhere,
     ListBundleWhere, ArchiveWhere, PackDoneWhere, RestoreWhere, RestoreDoneWhere DEF Pack
<1>3. ASSUME NEW t \in Lines, Session(t) PROVE Where'
  BY <1>3, SessionWhere
<1>4. ASSUME NEW t \in Lines, Crash(t) PROVE Where'
  <2>1. /\ UNCHANGED <<packets, bundle, arrived>> /\ env' = [env EXCEPT !.crashes = @ - 1]
        /\ line' = [line EXCEPT ![t] = Idle]
    BY <1>4 DEF Crash
  <2>2. line'[t].at = "idle"
    BY <2>1 DEF Inv, TypeOK, Idle
  <2>3. env'.misnamed = env.misnamed
    BY <2>1 DEF Inv, TypeOK, Histories
  <2> QED BY <2>1, <2>2, <2>3, NotPacking, WhereMove
<1>5. CASE DeleteFlags \/ UNCHANGED vars
  <2>1. UNCHANGED <<packets, bundle, line, arrived, env>>
    BY <1>5 DEF DeleteFlags, vars
  <2>2. FilesWhere' /\ BundlesWhere' /\ ArrivedWhere'
    BY <2>1, FilesStay, BundlesStay, ArrivedStay DEF Where, packets
  <2> QED BY <2>1, <2>2, WhereOthers, Constants DEF packets
<1> QED BY <1>1, <1>2, <1>3, <1>4, <1>5 DEF Next

\* While one line packs at a time, mail arrives at its node or at the hub ROUTE.CFG routes it
\* to, whatever an earlier packer has left behind (pack.c:258, 773): the *.PKT hold nothing
\* but what the line has found for the bundle it is about to write, because it has put away
\* what was there.  Packets set aside under another's name (pack.c:523) excepted.
THEOREM WhereItMayHolds ==
  ASSUME OneLinePacks
  PROVE  Spec => []WhereItMay
<1>1. Init => Where
  <2> SUFFICES ASSUME Init PROVE Where
    OBVIOUS
  <2>1. FilesWhere /\ BundlesWhere /\ ArrivedWhere
    BY DEF Init, FilesWhere, BundlesWhere, ArrivedWhere, Own
  <2>2. \A u \in Lines : PackerWhere(u)
    BY DEF Init, Idle, PackerWhere
  <2> QED BY <2>1, <2>2 DEF Where
<1>2. Inv /\ Where /\ [Next]_vars => Where'
  BY NextWhere
<1>3. Where => WhereItMay
  BY DEF Where, ArrivedWhere, Fine, WhereItMay
<1> QED BY <1>1, <1>2, <1>3, AlwaysInv, PTL DEF Spec

=============================================================================
