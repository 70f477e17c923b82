------------------------------ MODULE TossProofs ------------------------------
(***************************************************************************)
(* Proofs about Toss, for any lines, packets, bundles and areas, any       *)
(* MAXDUPES and any number of writes that fail and processes that die.     *)
(***************************************************************************)
EXTENDS Toss, TLAPS

MsgOf(l) == Content[l.pkt][l.pos]
Place(l) == l.at \in {"toss", "area", "flush"} /\ l.areatag # None
Kept     == Squish \cup {NoBase}

\* What is true of a line by itself.  While an area is open the base is its base,
\* sys says so too, and what is in buffers is of that base.
LineInv(l) ==
  /\ l \in LineType
  /\ l.at \in {"found", "spawn", "delete", "renaming"} => l.pkt \in DOMAIN Bundle
  /\ l.at \in {"number", "rename"} \cup Inside => l.pkt \in Packets
  /\ l.at \in {"area", "wait", "read"} =>
       l.pos <= Len(Content[l.pkt]) /\ MsgOf(l).area # l.areatag
  /\ l.at \in {"wait", "read"} => MsgOf(l).area \in DOMAIN Base
  /\ l.areatag # None => l.tag # None
  /\ l.at \in {"toss", "area"} /\ l.areatag = None => l.sys = NoBase
  /\ Place(l) => l.base = Base[l.areatag] /\ l.sys = Base[l.areatag]
  /\ l.at = "read" => l.base = Base[MsgOf(l).area] /\ l.sys = Base[MsgOf(l).area]
  /\ l.at \notin {"toss", "area", "read", "flush"} => l.buf = <<>>
  /\ l.base \in Kept => l.buf = <<>>
  /\ \A i \in DOMAIN l.buf : Base[l.buf[i].area] = l.base

EnvType == [failures : 0 .. Failures, crashes : 0 .. Crashes, reopened : BOOLEAN,
            cut : SUBSET [id : Ids, area : DOMAIN Base]]

SharedType ==
  /\ bundles \subseteq DOMAIN Bundle /\ spoiled \subseteq DOMAIN Bundle
  /\ waiting \subseteq Packets
  /\ DOMAIN badpkt \subseteq 0 .. MaxNumber /\ \A n \in DOMAIN badpkt : badpkt[n] \in Packets
  /\ stored \in [Bases -> Seq(Entry)] /\ dupes \in [DOMAIN Base -> Seq(Hash)]
  /\ env \in EnvType

TypeInv == SharedType /\ line \in [Lines -> LineType] /\ \A t \in Lines : LineInv(line[t])

-----------------------------------------------------------------------------
(* Types *)

LEMMA Constants ==
  /\ \A p \in Packets : Content[p] \in Seq(Message) /\ Len(Content[p]) \in Nat
  /\ \A p \in Packets : \A i \in 1 .. Len(Content[p]) :
       /\ Content[p][i] \in Message /\ Content[p][i].id \in Ids
       /\ Content[p][i].area \in Tags /\ Content[p][i].area # None
  /\ DOMAIN Base \subseteq Tags /\ None \notin DOMAIN Base
  /\ \A b \in DOMAIN Bundle : Bundle[b] \subseteq Packets
  /\ \A a \in DOMAIN Base : Base[a] \in Bases \cup {NoBase}
  /\ NoBase \notin Bases /\ Squish \subseteq Bases
<1>1. \A p \in Packets : Content[p] \in Seq(Message)
  BY TossAssumption
<1>2. \A p \in Packets : \A i \in 1 .. Len(Content[p]) : Content[p][i] \in Message
  BY <1>1
<1>3. \A m \in Message : m.id \in Ids /\ m.area \in Tags
  BY DEF Ids, Tags
<1>4. None \notin Tags
  BY TossAssumption
<1> QED  BY <1>1, <1>2, <1>3, <1>4, TossAssumption DEF Tags, Bases

LEMMA TypesFollow == TypeInv => TypeOK
BY DEF EnvType, TypeInv, TypeOK, SharedType, LineInv, MsgOf, Msg, InPacket, NewArea

\* A line that does nothing, and the fields of one that has just begun
LEMMA StartLine ==
  /\ Start0 \in LineType /\ LineInv(Start0)
  /\ \A s \in SUBSET Bases : LineInv([Start0 EXCEPT !.lost = s])
<1>1. 0 \in 0 .. MaxNumber /\ <<>> \in Seq(Hash) /\ <<>> \in Seq(Entry)
  BY TossAssumption
<1>2. Start0 \in LineType
  BY <1>1, Constants DEF LineType, Start0, States
<1>3. /\ Start0.at = "idle" /\ Start0.areatag = None /\ Start0.buf = <<>>
      /\ Start0.ok = FALSE /\ Start0.sys = NoBase /\ Start0.base = NoBase
  BY DEF Start0
<1>4. ASSUME NEW l \in LineType, l.at = "idle", l.areatag = None, l.buf = <<>>
      PROVE  LineInv(l)
  BY <1>4 DEF LineInv, Place, Inside
<1>5. ASSUME NEW s \in SUBSET Bases
      PROVE  LineInv([Start0 EXCEPT !.lost = s])
  <2> DEFINE l == [Start0 EXCEPT !.lost = s]
  <2>1. l \in LineType /\ l.at = "idle" /\ l.areatag = None /\ l.buf = <<>>
    BY <1>2, <1>3 DEF LineType
  <2> QED  BY <2>1, <1>4
<1> QED  BY <1>2, <1>3, <1>4, <1>5

LEMMA InitTypes == Init => TypeInv
<1> SUFFICES ASSUME Init PROVE TypeInv
  OBVIOUS
<1>1. LineInv(Start0)
  BY StartLine
<1>2. \A t \in Lines : line[t] = Start0 /\ LineInv(line[t])
  BY <1>1 DEF Init
<1>3. line \in [Lines -> LineType]
  BY <1>1 DEF Init, LineInv
<1>4. SharedType
  BY TossAssumption DEF Init, SharedType, EnvType
<1> QED  BY <1>2, <1>3, <1>4 DEF TypeInv

\* A step is of one line.
LEMMA OneLineMoves ==
  ASSUME TypeInv, NEW t \in Lines, NEW l, line' = [line EXCEPT ![t] = l], LineInv(l),
         SharedType'
  PROVE  TypeInv'
<1>1. \A u \in Lines : line'[u] = IF u = t THEN l ELSE line[u]
  BY DEF TypeInv
<1>2. \A u \in Lines : LineInv(line'[u])
  BY <1>1 DEF TypeInv
<1>3. line' \in [Lines -> LineType]
  BY DEF TypeInv, LineInv
<1>4. \A u \in Lines : LineInv(line[u])'
  BY <1>2 DEF LineInv, MsgOf, Place
<1> QED  BY <1>3, <1>4 DEF TypeInv


-----------------------------------------------------------------------------
(* Each step keeps the types *)

\* Outside a packet hardly anything is asked of a line.
LEMMA Outside ==
  ASSUME NEW n \in LineType, n.at \notin Inside, n.buf = <<>>,
         n.at \in {"found", "spawn", "delete", "renaming"} => n.pkt \in DOMAIN Bundle,
         n.at \in {"number", "rename"} => n.pkt \in Packets,
         n.areatag # None => n.tag # None
  PROVE  LineInv(n)
BY DEF LineInv, Place, Inside

LEMMA GoesOutside ==
  ASSUME NEW l, LineInv(l), l.at \notin {"toss", "area", "read", "flush"},
         NEW at \in States \ Inside,
         at \in {"found", "spawn", "delete", "renaming"} => l.pkt \in DOMAIN Bundle,
         at \in {"number", "rename"} => l.pkt \in Packets
  PROVE  LineInv([l EXCEPT !.at = at])
<1> DEFINE n == [l EXCEPT !.at = at]
<1>1. /\ n \in LineType /\ n.at = at /\ n.pkt = l.pkt /\ n.areatag = l.areatag /\ n.tag = l.tag
      /\ n.buf = l.buf
  BY DEF LineInv, LineType
<1>2. l.buf = <<>> /\ (l.areatag # None => l.tag # None)
  BY DEF LineInv
<1> QED  BY <1>1, <1>2, Outside

LEMMA BeginTypes ==
  ASSUME TypeInv, NEW t \in Lines, Begin(t)
  PROVE  TypeInv'
<1> DEFINE l == line[t]
           n == [l EXCEPT !.at = "unpack", !.todo = bundles]
<1>1. LineInv(l) /\ l.at = "idle" /\ line' = [line EXCEPT ![t] = n]
  BY DEF TypeInv, Begin
<1>2. /\ n \in LineType /\ n.at = "unpack" /\ n.areatag = l.areatag /\ n.tag = l.tag
      /\ n.buf = l.buf
  <2> DEFINE bs == bundles
  <2>1. l \in LineType /\ "unpack" \in States /\ bs \in SUBSET DOMAIN Bundle
    BY <1>1 DEF LineInv, TypeInv, SharedType, States
  <2> HIDE DEF bs
  <2>2. [l EXCEPT !.at = "unpack", !.todo = bs] \in LineType
    BY <2>1 DEF LineType
  <2> QED  BY <2>1, <2>2 DEF bs, LineType
<1>3. LineInv(n)
  BY <1>1, <1>2, Outside DEF LineInv, Inside
<1>4. SharedType'
  BY DEF Begin, TypeInv, SharedType, inbound
<1> QED  BY <1>1, <1>3, <1>4, OneLineMoves

LEMMA SkipBundleTypes ==
  ASSUME TypeInv, NEW t \in Lines, SkipBundle(t)
  PROVE  TypeInv'
<1>1. PICK b \in line[t].todo : line' = [line EXCEPT ![t].todo = @ \ {b}]
  BY DEF SkipBundle
<1> DEFINE l == line[t]
           n == [l EXCEPT !.todo = l.todo \ {b}]
<1>2. LineInv(l) /\ l.at = "unpack" /\ line' = [line EXCEPT ![t] = n]
  BY <1>1 DEF TypeInv, SkipBundle
<1>3. /\ n \in LineType /\ n.at = "unpack" /\ n.areatag = l.areatag /\ n.tag = l.tag
      /\ n.buf = l.buf
  BY <1>2 DEF LineInv, LineType
<1>4. LineInv(n)
  BY <1>2, <1>3, Outside DEF LineInv, Inside
<1>5. SharedType'
  BY DEF SkipBundle, TypeInv, SharedType, inbound
<1> QED  BY <1>2, <1>4, <1>5, OneLineMoves

LEMMA IdentifyTypes ==
  ASSUME TypeInv, NEW t \in Lines, Identify(t)
  PROVE  TypeInv'
<1>1. PICK b \in line[t].todo \cap bundles :
        line' = [line EXCEPT ![t].at = "found", ![t].pkt = b, ![t].todo = @ \ {b}]
  BY DEF Identify
<1> DEFINE l == line[t]
           n == [l EXCEPT !.at = "found", !.pkt = b, !.todo = l.todo \ {b}]
<1>2. LineInv(l) /\ l.at = "unpack" /\ line' = [line EXCEPT ![t] = n]
  BY <1>1 DEF TypeInv, Identify
<1>3. b \in DOMAIN Bundle
  BY DEF TypeInv, SharedType
<1>4. /\ n \in LineType /\ n.at = "found" /\ n.pkt = b /\ n.areatag = l.areatag
      /\ n.tag = l.tag /\ n.buf = l.buf
  BY <1>2, <1>3 DEF LineInv, LineType, States
<1>5. LineInv(n)
  BY <1>2, <1>3, <1>4, Outside DEF LineInv, Inside
<1>6. SharedType'
  BY DEF Identify, TypeInv, SharedType, inbound
<1> QED  BY <1>2, <1>5, <1>6, OneLineMoves

LEMMA SpawnTypes ==
  ASSUME TypeInv, NEW t \in Lines, Spawn(t)
  PROVE  TypeInv'
<1>1. PICK at \in {"spawn", "renaming"} : line' = [line EXCEPT ![t].at = at]
  BY DEF Spawn, Goes
<1>2. LineInv(line[t]) /\ line[t].at = "found" /\ line[t].pkt \in DOMAIN Bundle
  BY DEF TypeInv, Spawn, LineInv
<1>3. LineInv([line[t] EXCEPT !.at = at])
  BY <1>2, GoesOutside DEF States, Inside
<1>4. SharedType'
  BY DEF Spawn, TypeInv, SharedType, inbound
<1> QED  BY <1>1, <1>3, <1>4, OneLineMoves

LEMMA UnarchiveTypes ==
  ASSUME TypeInv, NEW t \in Lines, Unarchive(t)
  PROVE  TypeInv'
<1>1. PICK at \in {"delete", "renaming"} : line' = [line EXCEPT ![t].at = at]
  BY DEF Unarchive, Goes
<1>2. LineInv(line[t]) /\ line[t].at = "spawn" /\ line[t].pkt \in DOMAIN Bundle
  BY DEF TypeInv, Unarchive, LineInv
<1>3. LineInv([line[t] EXCEPT !.at = at])
  BY <1>2, GoesOutside DEF States, Inside
<1>4. waiting' \subseteq Packets
  BY <1>2, Constants DEF Unarchive, TypeInv, SharedType
<1>5. env' \in EnvType
  <2>1. CASE env' = env
    BY <2>1 DEF TypeInv, SharedType
  <2>2. CASE env.failures > 0 /\ env' = [env EXCEPT !.failures = @ - 1]
    <3>1. env \in EnvType /\ env.failures - 1 \in 0 .. Failures
      BY <2>2, TossAssumption DEF TypeInv, SharedType, EnvType
    <3> QED  BY <2>2, <3>1 DEF EnvType
  <2> QED  BY <2>1, <2>2 DEF Unarchive
<1>6. SharedType'
  BY <1>4, <1>5 DEF Unarchive, TypeInv, SharedType
<1> QED  BY <1>1, <1>3, <1>6, OneLineMoves

LEMMA DeleteBundleTypes ==
  ASSUME TypeInv, NEW t \in Lines, DeleteBundle(t)
  PROVE  TypeInv'
<1>1. LineInv([line[t] EXCEPT !.at = "unpack"])
  BY GoesOutside DEF TypeInv, DeleteBundle, States, Inside
<1>2. SharedType'
  BY DEF DeleteBundle, TypeInv, SharedType
<1> QED  BY <1>1, <1>2, OneLineMoves DEF DeleteBundle, Goes

LEMMA RenameBundleTypes ==
  ASSUME TypeInv, NEW t \in Lines, RenameBundle(t)
  PROVE  TypeInv'
<1>1. LineInv([line[t] EXCEPT !.at = "unpack"])
  BY GoesOutside DEF TypeInv, RenameBundle, States, Inside
<1>2. SharedType'
  BY DEF RenameBundle, TypeInv, SharedType
<1> QED  BY <1>1, <1>2, OneLineMoves DEF RenameBundle, Goes

LEMMA UnpackDoneTypes ==
  ASSUME TypeInv, NEW t \in Lines, UnpackDone(t)
  PROVE  TypeInv'
<1>1. LineInv([line[t] EXCEPT !.at = "scan"])
  BY GoesOutside DEF TypeInv, UnpackDone, States, Inside
<1>2. SharedType'
  BY DEF UnpackDone, TypeInv, SharedType, inbound
<1> QED  BY <1>1, <1>2, OneLineMoves DEF UnpackDone, Goes

LEMMA PickTypes ==
  ASSUME TypeInv, NEW t \in Lines, Pick(t)
  PROVE  TypeInv'
<1> DEFINE l == line[t]
<1>1. SharedType' /\ LineInv(l) /\ l.at = "scan"
  BY DEF Pick, TypeInv, SharedType, inbound
<1>2. CASE line' = [line EXCEPT ![t] = [Start0 EXCEPT !.lost = line[t].lost]]
  <2>1. l.lost \in SUBSET Bases
    BY <1>1 DEF LineInv, LineType
  <2> QED  BY <1>1, <1>2, <2>1, StartLine, OneLineMoves
<1>3. CASE \E p \in waiting : line' = [line EXCEPT ![t].at = "number", ![t].pkt = p]
  <2>1. PICK p \in waiting : line' = [line EXCEPT ![t].at = "number", ![t].pkt = p]
    BY <1>3
  <2> DEFINE n == [l EXCEPT !.at = "number", !.pkt = p]
  <2>2. p \in Packets
    BY DEF TypeInv, SharedType
  <2>3. /\ n \in LineType /\ n.at = "number" /\ n.pkt = p /\ n.areatag = l.areatag
        /\ n.tag = l.tag /\ n.buf = l.buf
    BY <1>1, <2>2 DEF LineInv, LineType, States
  <2>4. LineInv(n)
    BY <1>1, <2>2, <2>3, Outside DEF LineInv, Inside
  <2> QED  BY <1>1, <2>1, <2>4, OneLineMoves
<1> QED  BY <1>2, <1>3 DEF Pick

LEMMA NumberTypes ==
  ASSUME TypeInv, NEW t \in Lines, Number(t)
  PROVE  TypeInv'
<1>1. PICK k \in 0 .. MaxNumber : line' = [line EXCEPT ![t].at = "rename", ![t].num = k]
  BY DEF Number
<1> DEFINE l == line[t]
           n == [l EXCEPT !.at = "rename", !.num = k]
<1>2. SharedType' /\ LineInv(l) /\ l.at = "number"
  BY DEF Number, TypeInv, SharedType, inbound
<1>3. /\ n \in LineType /\ n.at = "rename" /\ n.pkt = l.pkt /\ n.areatag = l.areatag
      /\ n.tag = l.tag /\ n.buf = l.buf
  BY <1>2 DEF LineInv, LineType, States
<1>4. LineInv(n)
  BY <1>2, <1>3, Outside DEF LineInv, Inside
<1> QED  BY <1>1, <1>2, <1>4, OneLineMoves

LEMMA RenameTypes ==
  ASSUME TypeInv, NEW t \in Lines, Rename(t)
  PROVE  TypeInv'
<1>1. LineInv(line[t]) /\ line[t].at = "rename" /\ line[t].num \in 0 .. MaxNumber
  BY DEF Rename, TypeInv, LineType
<1>2. LineInv([line[t] EXCEPT !.at = "open"])
  BY <1>1, GoesOutside DEF States, Inside
<1>3. waiting' \subseteq Packets
  BY DEF Rename, TypeInv, SharedType
<1>4. DOMAIN badpkt' \subseteq 0 .. MaxNumber /\ \A n \in DOMAIN badpkt' : badpkt'[n] \in Packets
  <2>1. CASE badpkt' = badpkt
    BY <2>1 DEF TypeInv, SharedType
  <2>2. CASE /\ line[t].pkt \in waiting
             /\ badpkt' = [n \in DOMAIN badpkt \cup {line[t].num} |->
                             IF n = line[t].num THEN line[t].pkt ELSE badpkt[n]]
    <3>1. DOMAIN badpkt' = DOMAIN badpkt \cup {line[t].num}
      BY <2>2
    <3>2. \A n \in DOMAIN badpkt' : badpkt'[n] \in {line[t].pkt} \cup {badpkt[k] : k \in DOMAIN badpkt}
      BY <2>2
    <3> QED  BY <1>1, <2>2, <3>1, <3>2 DEF TypeInv, SharedType
  <2> QED  BY <2>1, <2>2 DEF Rename
<1>5. SharedType'
  BY <1>3, <1>4 DEF Rename, TypeInv, SharedType
<1> QED  BY <1>2, <1>5, OneLineMoves DEF Rename, Goes

LEMMA CannotOpenTypes ==
  ASSUME TypeInv, NEW t \in Lines, CannotOpen(t)
  PROVE  TypeInv'
<1>1. LineInv([line[t] EXCEPT !.at = "scan"])
  BY GoesOutside DEF TypeInv, CannotOpen, States, Inside
<1>2. SharedType'
  BY DEF CannotOpen, TypeInv, SharedType, inbound
<1> QED  BY <1>1, <1>2, OneLineMoves DEF CannotOpen, Goes

\* Bases given up by a line, and its base, are bases.
LEMMA OpenTypes ==
  ASSUME TypeInv, NEW t \in Lines, Open(t)
  PROVE  TypeInv'
<1> DEFINE l == line[t]
           n == [Start0 EXCEPT !.at = "toss", !.pkt = badpkt[l.num], !.num = l.num,
                               !.base = l.base, !.lost = l.lost]
<1>1. LineInv(l) /\ l \in LineType /\ l.at = "open" /\ line' = [line EXCEPT ![t] = n]
  BY DEF Open, TypeInv
<1>2. badpkt[l.num] \in Packets
  BY DEF Open, TypeInv, SharedType
<1>3. /\ Start0.areatag = None /\ Start0.tag = None /\ Start0.sys = NoBase /\ Start0.buf = <<>>
  BY DEF Start0
<1>4. Start0 \in LineType
  BY StartLine
<1>5. /\ n \in LineType /\ n.at = "toss" /\ n.pkt \in Packets /\ n.areatag = None /\ n.sys = NoBase
      /\ n.buf = <<>>
  <2> DEFINE p == badpkt[l.num]
             m == [Start0 EXCEPT !.at = "toss", !.pkt = p, !.num = l.num,
                                 !.base = l.base, !.lost = l.lost]
  <2>1. p \in Packets /\ "toss" \in States
    BY <1>2 DEF States
  <2> HIDE DEF p
  <2>2. m \in LineType /\ m.at = "toss" /\ m.pkt = p
    BY <1>1, <1>4, <2>1 DEF LineType
  <2>3. m.areatag = None /\ m.sys = NoBase /\ m.buf = <<>>
    BY <1>3, <1>4 DEF LineType
  <2> QED  BY <2>1, <2>2, <2>3 DEF p
<1>6. LineInv(n)
  BY <1>5 DEF LineInv, Place, Inside
<1>7. env' \in EnvType
  BY DEF Open, TypeInv, SharedType, EnvType
<1>8. SharedType'
  BY <1>7 DEF Open, TypeInv, SharedType, inbound
<1> QED  BY <1>1, <1>6, <1>8, OneLineMoves

\* The ring of an area becomes its record.
LEMMA WriteDupesTypes ==
  ASSUME TypeInv, NEW t \in Lines, WriteDupes(t)
  PROVE  dupes' \in [DOMAIN Base -> Seq(Hash)]
<1>1. line[t].ring \in Seq(Hash) /\ line[t].areatag \in DOMAIN Base \cup {None}
  BY DEF TypeInv, LineType
<1> QED  BY <1>1 DEF WriteDupes, TypeInv, SharedType

LEMMA LeaveAreaTypes ==
  ASSUME TypeInv, NEW t \in Lines, LeaveArea(t)
  PROVE  TypeInv'
<1> DEFINE l == line[t]
           n == [l EXCEPT !.at = "area"]
<1>1. /\ LineInv(l) /\ l.at = "toss" /\ line' = [line EXCEPT ![t] = n]
      /\ l.pos <= Len(Content[l.pkt]) /\ MsgOf(l).area # l.areatag
  BY DEF LeaveArea, Goes, TypeInv, InPacket, NewArea, Msg, MsgOf
<1>2. /\ n \in LineType /\ n.at = "area" /\ n.pkt = l.pkt /\ n.pos = l.pos
      /\ n.areatag = l.areatag /\ n.tag = l.tag /\ n.sys = l.sys /\ n.base = l.base
      /\ n.buf = l.buf
  BY <1>1 DEF LineInv, LineType, States
<1>3. LineInv(n)
  BY <1>1, <1>2 DEF LineInv, Place, Inside, MsgOf
<1>4. SharedType'
  BY WriteDupesTypes DEF LeaveArea, TypeInv, SharedType, inbound
<1> QED  BY <1>1, <1>3, <1>4, OneLineMoves

LEMMA EndPacketTypes ==
  ASSUME TypeInv, NEW t \in Lines, EndPacket(t)
  PROVE  TypeInv'
<1> DEFINE l == line[t]
           n == [l EXCEPT !.at = "flush"]
<1>1. LineInv(l) /\ l.at = "toss" /\ line' = [line EXCEPT ![t] = n]
  BY DEF EndPacket, Goes, TypeInv
<1>2. /\ n \in LineType /\ n.at = "flush" /\ n.pkt = l.pkt
      /\ n.areatag = l.areatag /\ n.tag = l.tag /\ n.sys = l.sys /\ n.base = l.base
      /\ n.buf = l.buf
  BY <1>1 DEF LineInv, LineType, States
<1>3. LineInv(n)
  BY <1>1, <1>2 DEF LineInv, Place, Inside
<1>4. SharedType'
  BY WriteDupesTypes DEF EndPacket, TypeInv, SharedType, inbound
<1> QED  BY <1>1, <1>3, <1>4, OneLineMoves

LEMMA BadAreaTypes ==
  ASSUME TypeInv, NEW t \in Lines, BadArea(t)
  PROVE  TypeInv'
<1> DEFINE l == line[t]
           a == Msg(t).area
           n == [l EXCEPT !.at = "toss", !.tag = a, !.pos = l.pos + 1]
<1>1. LineInv(l) /\ l \in LineType /\ l.at = "area" /\ line' = [line EXCEPT ![t] = n]
  BY DEF BadArea, TypeInv
<1>2. a \in Tags /\ a # None
  <2>1. l.pkt \in Packets /\ l.pos \in 1 .. Len(Content[l.pkt])
    BY <1>1, Constants DEF LineInv, LineType, Inside
  <2> QED  BY <2>1, Constants DEF Msg
<1> HIDE DEF a
<1>0. l.pos + 1 \in Nat \ {0}
  BY <1>1 DEF LineType
<1>3. /\ n \in LineType /\ n.at = "toss" /\ n.pkt = l.pkt
      /\ n.areatag = l.areatag /\ n.tag = a /\ n.sys = l.sys /\ n.base = l.base
      /\ n.buf = l.buf
  BY <1>0, <1>1, <1>2 DEF LineType, States
<1>4. LineInv(n)
  BY <1>1, <1>2, <1>3 DEF LineInv, Place, Inside
<1>5. SharedType'
  BY DEF BadArea, TypeInv, SharedType, inbound
<1> QED  BY <1>1, <1>4, <1>5, OneLineMoves

\* What goes to the disk are entries.
LEMMA WrittenTypes ==
  ASSUME TypeInv, NEW t \in Lines, NEW buf \in Seq(Entry), stored' = Written(t, buf)
  PROVE  stored' \in [Bases -> Seq(Entry)]
<1>1. line[t].base \in Bases \cup {NoBase}
  BY DEF TypeInv, LineType
<1> QED  BY <1>1 DEF Written, TypeInv, SharedType

LEMMA CloseBaseTypes ==
  ASSUME TypeInv, NEW t \in Lines, CloseBase(t)
  PROVE  TypeInv'
<1> DEFINE l == line[t]
<1>1. /\ LineInv(l) /\ l.at = "area" /\ l \in LineType /\ l.buf \in Seq(Entry)
      /\ MsgOf(l).area \in DOMAIN Base
  BY DEF CloseBase, TypeInv, LineType, Msg, MsgOf
<1>2. CASE /\ l.sys # NoBase /\ l.sys = Base[Msg(t).area]
           /\ Goes(t, "read") /\ UNCHANGED stored
  <2> DEFINE n == [l EXCEPT !.at = "read"]
  <2>1. l.areatag # None /\ l.base = l.sys /\ l.sys = Base[MsgOf(l).area]
    BY <1>1, <1>2 DEF LineInv, Place, Msg, MsgOf
  <2>2. /\ n \in LineType /\ n.at = "read" /\ n.pkt = l.pkt /\ n.pos = l.pos
        /\ n.areatag = l.areatag /\ n.tag = l.tag /\ n.sys = l.sys /\ n.base = l.base
        /\ n.buf = l.buf
    BY <1>1 DEF LineType, States
  <2>3. LineInv(n)
    BY <1>1, <2>1, <2>2 DEF LineInv, Place, Inside, MsgOf
  <2>4. SharedType'
    BY <1>2 DEF CloseBase, TypeInv, SharedType, inbound
  <2> QED  BY <1>2, <2>3, <2>4, OneLineMoves DEF Goes
<1>3. CASE /\ line' = [line EXCEPT ![t].at = "wait", ![t].base = NoBase, ![t].buf = <<>>]
           /\ stored' = Written(t, line[t].buf)
  <2> DEFINE n == [l EXCEPT !.at = "wait", !.base = NoBase, !.buf = <<>>]
  <2>1. /\ n \in LineType /\ n.at = "wait" /\ n.pkt = l.pkt /\ n.pos = l.pos
        /\ n.areatag = l.areatag /\ n.tag = l.tag /\ n.buf = <<>>
    <3>1. <<>> \in Seq(Entry)
      OBVIOUS
    <3> QED  BY <1>1, <3>1 DEF LineType, States
  <2>2. LineInv(n)
    <3>1. /\ l.pkt \in Packets /\ l.pos <= Len(Content[l.pkt]) /\ MsgOf(l).area # l.areatag
          /\ l.areatag # None => l.tag # None
      BY <1>1 DEF LineInv, Inside
    <3>2. MsgOf(n) = MsgOf(l)
      BY <2>1 DEF MsgOf
    <3> HIDE DEF n
    <3>3. /\ n.pkt \in Packets /\ n.pos <= Len(Content[n.pkt]) /\ MsgOf(n).area # n.areatag
          /\ n.areatag # None => n.tag # None
          /\ MsgOf(n).area \in DOMAIN Base
      BY <1>1, <2>1, <3>1, <3>2
    <3> QED  BY <2>1, <3>3 DEF LineInv, Place, Inside
  <2>3. SharedType'
    BY <1>1, <1>3, WrittenTypes DEF CloseBase, TypeInv, SharedType, inbound
  <2> QED  BY <1>3, <2>2, <2>3, OneLineMoves
<1> QED  BY <1>2, <1>3 DEF CloseBase

LEMMA OpenBaseTypes ==
  ASSUME TypeInv, NEW t \in Lines, OpenBase(t)
  PROVE  TypeInv'
<1> DEFINE l == line[t]
           b == Base[Msg(t).area]
           n == [l EXCEPT !.at = "read", !.base = b, !.sys = b]
<1>1. /\ LineInv(l) /\ l.at = "wait" /\ line' = [line EXCEPT ![t] = n] /\ l \in LineType
      /\ MsgOf(l).area \in DOMAIN Base /\ b = Base[MsgOf(l).area]
  BY DEF OpenBase, TypeInv, LineInv, Msg, MsgOf
<1>2. b \in Bases \cup {NoBase}
  BY <1>1, Constants
<1>3. /\ n \in LineType /\ n.at = "read" /\ n.pkt = l.pkt /\ n.pos = l.pos
      /\ n.areatag = l.areatag /\ n.tag = l.tag /\ n.sys = b /\ n.base = b /\ n.buf = l.buf
  BY <1>1, <1>2 DEF LineType, States
<1>4. l.buf = <<>>
  BY <1>1 DEF LineInv
<1> HIDE DEF n, b
<1>5. LineInv(n)
  <2>1. /\ n.pkt \in Packets /\ n.pos <= Len(Content[n.pkt]) /\ MsgOf(n) = MsgOf(l)
        /\ MsgOf(l).area # l.areatag /\ (l.areatag # None => l.tag # None)
    BY <1>1, <1>3 DEF LineInv, Inside, MsgOf
  <2> QED  BY <1>1, <1>3, <1>4, <2>1 DEF LineInv, Place, Inside
<1>6. SharedType'
  BY DEF OpenBase, TypeInv, SharedType, inbound
<1> QED  BY <1>1, <1>5, <1>6, OneLineMoves DEF n

LEMMA ReadDupesTypes ==
  ASSUME TypeInv, NEW t \in Lines, ReadDupes(t)
  PROVE  TypeInv'
<1> DEFINE l == line[t]
           a == Msg(t).area
           n == [l EXCEPT !.at = "toss", !.areatag = a, !.tag = a, !.ring = dupes[a]]
<1>1. /\ LineInv(l) /\ l.at = "read" /\ line' = [line EXCEPT ![t] = n] /\ l \in LineType
      /\ a \in DOMAIN Base /\ l.base = Base[a] /\ l.sys = Base[a]
  BY DEF ReadDupes, TypeInv, LineInv, Msg, MsgOf
<1>2. dupes[a] \in Seq(Hash) /\ a \in Tags /\ a # None
  BY <1>1, Constants DEF TypeInv, SharedType
<1>3. /\ n \in LineType /\ n.at = "toss" /\ n.pkt = l.pkt /\ n.areatag = a /\ n.tag = a
      /\ n.sys = l.sys /\ n.base = l.base /\ n.buf = l.buf
  BY <1>1, <1>2 DEF LineType, States
<1>4. LineInv(n)
  BY <1>1, <1>2, <1>3 DEF LineInv, Place, Inside
<1>5. SharedType'
  BY DEF ReadDupes, TypeInv, SharedType, inbound
<1> QED  BY <1>1, <1>4, <1>5, OneLineMoves

\* The message filed, and what is known of it: MsgEntry(l) is the entry for it.
MsgEntry(l) == [id |-> MsgOf(l).id, area |-> l.areatag, tag |-> l.tag, n |-> Len(l.ring) + 1]
MsgHash(l)  == <<MsgOf(l).id, l.tag>>

LEMMA MessageFiled ==
  ASSUME TypeInv, NEW t \in Lines, line[t].at = "toss", InPacket(t), ~NewArea(t)
  PROVE  /\ Place(line[t]) /\ MsgOf(line[t]).area = line[t].areatag
         /\ line[t].areatag \in DOMAIN Base /\ line[t].base = Base[line[t].areatag]
         /\ MsgEntry(line[t]) \in Entry /\ MsgHash(line[t]) \in Hash
         /\ line[t].pos + 1 \in Nat \ {0} /\ Append(line[t].ring, MsgHash(line[t])) \in Seq(Hash)
         /\ Append(line[t].buf, MsgEntry(line[t])) \in Seq(Entry)
<1> DEFINE l == line[t]
<1>1. LineInv(l) /\ l \in LineType /\ l.at = "toss" /\ MsgOf(l).area = l.areatag
  BY DEF TypeInv, NewArea, Msg, MsgOf
<1>2. l.pkt \in Packets /\ l.pos \in 1 .. Len(Content[l.pkt])
  BY <1>1, Constants DEF LineInv, LineType, Inside, InPacket
<1>3. MsgOf(l).id \in Ids /\ l.areatag # None
  BY <1>1, <1>2, Constants DEF MsgOf
<1>4. l.tag \in Tags /\ l.areatag \in DOMAIN Base /\ Place(l) /\ l.base = Base[l.areatag]
  BY <1>1, <1>3 DEF LineInv, LineType, Place
<1>5. l.ring \in Seq(Hash) /\ l.buf \in Seq(Entry) /\ l.pos + 1 \in Nat \ {0}
      /\ Len(l.ring) + 1 \in Nat \ {0}
  BY <1>1 DEF LineType
<1>6. MsgEntry(l) \in Entry /\ MsgHash(l) \in Hash
  BY <1>3, <1>4, <1>5 DEF MsgEntry, MsgHash, Entry, Hash
<1> QED  BY <1>1, <1>4, <1>5, <1>6

\* What filing does to the line: the next message, a longer ring, a longer buffer.
LEMMA LineFiled ==
  ASSUME NEW l, LineInv(l), Place(l), l.at = "toss",
         NEW pos \in Nat \ {0}, NEW ring \in Seq(Hash), NEW buf \in Seq(Entry),
         l.base \in Kept => buf = <<>>,
         \A i \in DOMAIN buf : Base[buf[i].area] = l.base
  PROVE  LineInv([l EXCEPT !.pos = pos, !.ring = ring, !.buf = buf])
<1> DEFINE n == [l EXCEPT !.pos = pos, !.ring = ring, !.buf = buf]
<1>1. /\ n \in LineType /\ n.at = "toss" /\ n.pkt = l.pkt
      /\ n.areatag = l.areatag /\ n.tag = l.tag /\ n.sys = l.sys /\ n.base = l.base
      /\ n.buf = buf
  BY DEF LineInv, LineType
<1> HIDE DEF n
<1>2. l.pkt \in Packets /\ l.tag # None /\ l.areatag # None
  BY DEF LineInv, Place, Inside
<1>3. l.base = Base[l.areatag] /\ l.sys = Base[l.areatag]
  BY DEF LineInv
<1>4. /\ n.at \notin {"found", "spawn", "delete", "renaming", "area", "wait", "read"}
      /\ n.at \in {"toss", "area", "read", "flush"}
  BY <1>1
<1>5. n.base \in Kept => n.buf = <<>>
  BY <1>1
<1>6. \A i \in DOMAIN n.buf : Base[n.buf[i].area] = n.base
  BY <1>1
<1>7. n.base = Base[n.areatag] /\ n.sys = Base[n.areatag] /\ n.areatag # None /\ n.tag # None
  BY <1>1, <1>2, <1>3
<1>8. ASSUME NEW m, m = n PROVE LineInv(m)
  <2>1. m \in LineType /\ m.pkt \in Packets
    BY <1>1, <1>2, <1>8
  <2> QED  BY <2>1, <1>4, <1>5, <1>6, <1>7, <1>8 DEF LineInv
<1> QED  BY <1>8 DEF n

\* FileMessage written out: a duplicate, or a message that goes to the disk, nowhere, or
\* to a buffer.
LEMMA FileMessageIs ==
  ASSUME TypeInv, NEW t \in Lines, FileMessage(t)
  PROVE  LET l == line[t]
             n == [l EXCEPT !.pos = l.pos + 1, !.ring = Append(l.ring, MsgHash(l))]
         IN  /\ l.at = "toss" /\ InPacket(t) /\ ~NewArea(t) /\ UNCHANGED <<inbound, dupes, env>>
             /\ \/ /\ MsgHash(l) \in Recent(l.ring) /\ UNCHANGED stored
                   /\ line' = [line EXCEPT ![t] = [l EXCEPT !.pos = l.pos + 1]]
                \/ /\ MsgHash(l) \notin Recent(l.ring) /\ l.base \in Squish
                   /\ line' = [line EXCEPT ![t] = n]
                   /\ stored' = [stored EXCEPT ![l.base] = Append(@, MsgEntry(l))]
                \/ /\ MsgHash(l) \notin Recent(l.ring) /\ l.base = NoBase
                   /\ line' = [line EXCEPT ![t] = n] /\ UNCHANGED stored
                \/ /\ MsgHash(l) \notin Recent(l.ring) /\ l.base \in Bases \ Squish
                   /\ line' = [line EXCEPT ![t] = [n EXCEPT !.buf = Append(l.buf, MsgEntry(l))]]
                   /\ UNCHANGED stored
<1>1. line[t] \in LineType
  BY DEF TypeInv
<1> DEFINE l == line[t]
           n == [l EXCEPT !.pos = l.pos + 1, !.ring = Append(l.ring, MsgHash(l))]
<1>2. n.buf = l.buf
  BY <1>1 DEF LineType
<1> QED  BY <1>2 DEF FileMessage, MsgHash, MsgEntry, MsgOf, Msg

LEMMA FileMessageTypes ==
  ASSUME TypeInv, NEW t \in Lines, FileMessage(t)
  PROVE  TypeInv'
<1> DEFINE l == line[t]
           r == Append(l.ring, MsgHash(l))
           b == Append(l.buf, MsgEntry(l))
           N(ring, buf) == [l EXCEPT !.pos = l.pos + 1, !.ring = ring, !.buf = buf]
<1>1. /\ LineInv(l) /\ l \in LineType /\ l.at = "toss" /\ InPacket(t) /\ ~NewArea(t)
      /\ UNCHANGED <<inbound, dupes, env>>
  BY FileMessageIs DEF TypeInv
<1>2. /\ Place(l) /\ MsgEntry(l) \in Entry /\ l.areatag \in DOMAIN Base /\ l.base = Base[l.areatag]
      /\ l.pos + 1 \in Nat \ {0} /\ r \in Seq(Hash) /\ b \in Seq(Entry)
  BY <1>1, MessageFiled
<1>3. /\ l.ring \in Seq(Hash) /\ l.buf \in Seq(Entry) /\ (l.base \in Kept => l.buf = <<>>)
      /\ \A i \in DOMAIN l.buf : Base[l.buf[i].area] = l.base
  BY <1>1 DEF LineInv, LineType
<1>4. LineInv(N(l.ring, l.buf)) /\ LineInv(N(r, l.buf))
  BY <1>1, <1>2, <1>3, LineFiled
<1>5. CASE line' = [line EXCEPT ![t] = [l EXCEPT !.pos = l.pos + 1]] /\ UNCHANGED stored
  <2>1. [l EXCEPT !.pos = l.pos + 1] = N(l.ring, l.buf)
    BY <1>1 DEF LineType
  <2>2. SharedType'
    BY <1>1, <1>5 DEF TypeInv, SharedType, inbound
  <2> QED  BY <1>4, <1>5, <2>1, <2>2, OneLineMoves
<1>6. CASE /\ line' = [line EXCEPT ![t] = [l EXCEPT !.pos = l.pos + 1, !.ring = r]]
           /\ \/ UNCHANGED stored
              \/ l.base \in Squish /\ stored' = [stored EXCEPT ![l.base] = Append(@, MsgEntry(l))]
  <2>1. [l EXCEPT !.pos = l.pos + 1, !.ring = r] = N(r, l.buf)
    BY <1>1 DEF LineType
  <2>2. stored' \in [Bases -> Seq(Entry)]
    <3>1. stored \in [Bases -> Seq(Entry)]
      BY DEF TypeInv, SharedType
    <3>2. ASSUME l.base \in Squish, stored' = [stored EXCEPT ![l.base] = Append(@, MsgEntry(l))]
          PROVE  stored' \in [Bases -> Seq(Entry)]
      <4>1. l.base \in Bases /\ Append(stored[l.base], MsgEntry(l)) \in Seq(Entry)
        BY <1>2, <3>1, <3>2, Constants
      <4> QED  BY <3>1, <3>2, <4>1
    <3> QED  BY <1>6, <3>1, <3>2
  <2>3. SharedType'
    BY <1>1, <2>2 DEF TypeInv, SharedType, inbound
  <2> QED  BY <1>4, <1>6, <2>1, <2>3, OneLineMoves
<1>7. CASE /\ l.base \in Bases \ Squish /\ UNCHANGED stored
           /\ line' = [line EXCEPT ![t] =
                         [[l EXCEPT !.pos = l.pos + 1, !.ring = r] EXCEPT !.buf = b]]
  <2>1. [[l EXCEPT !.pos = l.pos + 1, !.ring = r] EXCEPT !.buf = b] = N(r, b)
    BY <1>1 DEF LineType
  <2>2. l.base \notin Kept
    BY <1>7, Constants DEF Kept
  <2>3. \A i \in DOMAIN b : Base[b[i].area] = l.base
    <3>1. MsgEntry(l).area = l.areatag
      BY DEF MsgEntry
    <3>2. \A i \in DOMAIN b : b[i] = MsgEntry(l) \/ (i \in DOMAIN l.buf /\ b[i] = l.buf[i])
      BY <1>2, <1>3
    <3> QED  BY <1>2, <1>3, <3>1, <3>2
  <2>4. LineInv(N(r, b))
    BY <1>1, <1>2, <2>2, <2>3, LineFiled
  <2>5. SharedType'
    BY <1>1, <1>7 DEF TypeInv, SharedType, inbound
  <2> QED  BY <1>7, <2>1, <2>4, <2>5, OneLineMoves
<1> QED  BY <1>5, <1>6, <1>7, FileMessageIs

\* Messages of which a buffer is a record have an id and an area.
LEMMA RecordedTypes ==
  ASSUME NEW buf \in Seq(Entry)
  PROVE  Recorded(buf) \subseteq [id : Ids, area : DOMAIN Base]
<1>1. \A i \in DOMAIN buf : buf[i] \in Entry
  OBVIOUS
<1>2. \A i \in DOMAIN buf : buf[i].id \in Ids /\ buf[i].area \in DOMAIN Base
  BY <1>1 DEF Entry
<1> QED  BY <1>2 DEF Recorded

LEMMA CannotSaveTypes ==
  ASSUME TypeInv, NEW t \in Lines, CannotSave(t)
  PROVE  TypeInv'
<1> DEFINE l == line[t]
           s == l.lost \cup {l.base}
           n == [l EXCEPT !.at = "close", !.ok = FALSE]
           m == [l EXCEPT !.at = "close", !.ok = FALSE, !.base = NoBase, !.buf = <<>>,
                          !.lost = s]
<1>1. LineInv(l) /\ l \in LineType /\ l.at = "toss"
  BY DEF CannotSave, TypeInv
<1>2. l.base \in Bases \cup {NoBase} /\ l.lost \in SUBSET Bases
  BY <1>1 DEF LineType
<1>3. l.base \in Kept => l.buf = <<>>
  BY <1>1 DEF LineInv
<1>4. l.pkt \in Packets /\ (l.areatag # None => l.tag # None)
  BY <1>1 DEF LineInv, Inside
<1>5. ASSUME NEW k, k \in LineType, k.at = "close", k.pkt \in Packets, k.buf = <<>>,
             k.areatag # None => k.tag # None
      PROVE  LineInv(k)
  BY <1>5 DEF LineInv, Place, Inside
<1>6. l.base \in Kept => LineInv(n)
  <2>1. /\ n \in LineType /\ n.at = "close" /\ n.pkt = l.pkt /\ n.buf = l.buf
        /\ n.areatag = l.areatag /\ n.tag = l.tag
    BY <1>1 DEF LineType, States
  <2> HIDE DEF n
  <2> QED  BY <1>3, <1>4, <1>5, <2>1
<1>7. l.base \notin Kept => LineInv(m)
  <2> SUFFICES ASSUME l.base \notin Kept PROVE LineInv(m)
    OBVIOUS
  <2>1. s \in SUBSET Bases /\ <<>> \in Seq(Entry)
    BY <1>2 DEF Kept
  <2> HIDE DEF s
  <2>2. /\ m \in LineType /\ m.at = "close" /\ m.pkt = l.pkt /\ m.buf = <<>>
        /\ m.areatag = l.areatag /\ m.tag = l.tag
    BY <1>1, <1>2, <2>1 DEF LineType, States
  <2> HIDE DEF m
  <2> QED  BY <1>4, <1>5, <2>2
<1>8. PICK k : line' = [line EXCEPT ![t] = k] /\ LineInv(k)
  <2>1. CASE l.base \in Kept
    <3>1. line' = [line EXCEPT ![t] = n]
      BY <2>1 DEF CannotSave, Kept
    <3> QED  BY <1>6, <2>1, <3>1
  <2>2. CASE l.base \notin Kept
    <3>1. line' = [line EXCEPT ![t] = m]
      BY <2>2 DEF CannotSave, Kept
    <3> QED  BY <1>7, <2>2, <3>1
  <2> QED  BY <2>1, <2>2
<1>9. env' \in EnvType
  <2> DEFINE c == env.cut \cup Recorded(l.buf)
  <2>1. l.buf \in Seq(Entry)
    BY <1>1 DEF LineType
  <2>2. env \in EnvType /\ env.failures - 1 \in 0 .. Failures
    BY TossAssumption DEF CannotSave, TypeInv, SharedType, EnvType
  <2>3. c \in SUBSET [id : Ids, area : DOMAIN Base]
    BY <2>1, <2>2, RecordedTypes DEF EnvType
  <2>4. env' = [env EXCEPT !.failures = env.failures - 1, !.cut = c]
    BY <2>2 DEF CannotSave, EnvType
  <2> HIDE DEF c
  <2> QED  BY <2>2, <2>3, <2>4 DEF EnvType
<1>10. SharedType'
  BY <1>9 DEF CannotSave, TypeInv, SharedType, inbound
<1> QED  BY <1>8, <1>10, OneLineMoves

LEMMA FlushTypes ==
  ASSUME TypeInv, NEW t \in Lines, Flush(t)
  PROVE  TypeInv'
<1> DEFINE l == line[t]
           b == IF l.base \in Squish THEN l.base ELSE NoBase
           n == [l EXCEPT !.at = "close", !.ok = TRUE, !.buf = <<>>, !.base = b]
<1>1. LineInv(l) /\ l \in LineType /\ l.at = "flush" /\ line' = [line EXCEPT ![t] = n]
  BY DEF Flush, TypeInv
<1>2. <<>> \in Seq(Entry) /\ b \in Bases \cup {NoBase} /\ l.buf \in Seq(Entry)
  BY <1>1 DEF LineType
<1> HIDE DEF b
<1>3. /\ n \in LineType /\ n.at = "close" /\ n.pkt = l.pkt /\ n.buf = <<>>
      /\ n.areatag = l.areatag /\ n.tag = l.tag
  <2> HIDE DEF l
  <2>1. "close" \in States
    BY DEF States
  <2> QED  BY <1>1, <1>2, <2>1 DEF LineType
<1> HIDE DEF n
<1>4. LineInv(n)
  <2> HIDE DEF l
  <2>1. l.pkt \in Packets /\ (l.areatag # None => l.tag # None)
    BY <1>1 DEF LineInv, Inside
  <2>2. n.pkt \in Packets /\ (n.areatag # None => n.tag # None) /\ DOMAIN n.buf = {}
    BY <1>3, <2>1
  <2>3. \A i \in DOMAIN n.buf : Base[n.buf[i].area] = n.base
    BY <2>2
  <2> QED  BY <1>3, <2>2, <2>3 DEF LineInv, Place
<1>5. SharedType'
  BY <1>2, WrittenTypes DEF Flush, TypeInv, SharedType, inbound
<1> QED  BY <1>1, <1>4, <1>5, OneLineMoves

LEMMA ClosePacketTypes ==
  ASSUME TypeInv, NEW t \in Lines, ClosePacket(t)
  PROVE  TypeInv'
<1>1. LineInv(line[t]) /\ line[t].at = "close" /\ line[t].lost \in SUBSET Bases
  BY DEF ClosePacket, TypeInv, LineType
<1>2. LineInv([line[t] EXCEPT !.at = "unlink"])
  BY <1>1, GoesOutside DEF States, Inside
<1>3. LineInv([Start0 EXCEPT !.lost = line[t].lost])
  BY <1>1, StartLine
<1>4. SharedType'
  BY DEF ClosePacket, TypeInv, SharedType, inbound
<1>5. CASE line' = [line EXCEPT ![t].at = "unlink"]
  BY <1>2, <1>4, <1>5, OneLineMoves
<1>6. CASE line' = [line EXCEPT ![t] = [Start0 EXCEPT !.lost = line[t].lost]]
  BY <1>3, <1>4, <1>6, OneLineMoves
<1> QED  BY <1>5, <1>6 DEF ClosePacket

LEMMA UnlinkTypes ==
  ASSUME TypeInv, NEW t \in Lines, Unlink(t)
  PROVE  TypeInv'
<1>1. LineInv([line[t] EXCEPT !.at = "scan"])
  BY GoesOutside DEF TypeInv, Unlink, States, Inside
<1>2. DOMAIN badpkt' \subseteq DOMAIN badpkt /\ \A n \in DOMAIN badpkt' : badpkt'[n] = badpkt[n]
  BY DEF Unlink
<1>3. SharedType'
  BY <1>2 DEF Unlink, TypeInv, SharedType
<1> QED  BY <1>1, <1>3, OneLineMoves DEF Unlink, Goes

LEMMA CrashTypes ==
  ASSUME TypeInv, NEW t \in Lines, Crash(t)
  PROVE  TypeInv'
<1> DEFINE buf == line[t].buf
<1>1. PICK k \in 0 .. Len(buf) :
        /\ stored' = Written(t, SubSeq(buf, 1, k))
        /\ env' = [env EXCEPT !.crashes = @ - 1,
                              !.cut = @ \cup Recorded(SubSeq(buf, k + 1, Len(buf)))]
  BY DEF Crash
<1>2. buf \in Seq(Entry)
  BY DEF TypeInv, LineType
<1>3. SubSeq(buf, 1, k) \in Seq(Entry) /\ SubSeq(buf, k + 1, Len(buf)) \in Seq(Entry)
  BY <1>2
<1>4. stored' \in [Bases -> Seq(Entry)]
  BY <1>1, <1>3, WrittenTypes
<1>5. env' \in EnvType
  <2> DEFINE c == env.cut \cup Recorded(SubSeq(buf, k + 1, Len(buf)))
  <2>1. env \in EnvType /\ env.crashes - 1 \in 0 .. Crashes
    BY TossAssumption DEF Crash, TypeInv, SharedType, EnvType
  <2>2. c \in SUBSET [id : Ids, area : DOMAIN Base]
    BY <1>3, <2>1, RecordedTypes DEF EnvType
  <2>3. env' = [env EXCEPT !.crashes = env.crashes - 1, !.cut = c]
    BY <1>1, <2>1 DEF EnvType
  <2> HIDE DEF c
  <2> QED  BY <2>1, <2>2, <2>3 DEF EnvType
<1>6. SharedType'
  BY <1>4, <1>5 DEF Crash, TypeInv, SharedType, inbound
<1>7. LineInv(Start0) /\ line' = [line EXCEPT ![t] = Start0]
  BY StartLine DEF Crash
<1> QED  BY <1>6, <1>7, OneLineMoves

LEMMA StepTypes ==
  ASSUME TypeInv, [Next]_vars
  PROVE  TypeInv'
<1>1. CASE UNCHANGED vars
  BY <1>1 DEF vars, inbound, TypeInv, SharedType, LineInv, MsgOf, Place
<1>2. ASSUME NEW t \in Lines, Begin(t) \/ Step(t) \/ CannotSave(t) \/ Crash(t)
      PROVE  TypeInv'
  <2>1. CASE Unpack(t)
    BY <2>1, SkipBundleTypes, IdentifyTypes, SpawnTypes, UnarchiveTypes, DeleteBundleTypes,
       RenameBundleTypes, UnpackDoneTypes DEF Unpack
  <2>2. CASE Tosses(t)
    BY <2>2, PickTypes, NumberTypes, RenameTypes, OpenTypes, CannotOpenTypes, LeaveAreaTypes,
       BadAreaTypes, CloseBaseTypes, OpenBaseTypes, ReadDupesTypes, FileMessageTypes,
       EndPacketTypes, FlushTypes, ClosePacketTypes, UnlinkTypes DEF Tosses
  <2> QED  BY <1>2, <2>1, <2>2, BeginTypes, CannotSaveTypes, CrashTypes DEF Step
<1> QED  BY <1>1, <1>2 DEF Next

\* Every variable keeps its type, and an area is only opened for a message that is there
\* and of another area than the one before, for any lines, packets and areas.
THEOREM TossTypeCorrect == Spec => []TypeOK
<1>1. TypeInv /\ [Next]_vars => TypeInv'
  BY StepTypes
<1> QED  BY <1>1, InitTypes, TypesFollow, PTL DEF Spec

-----------------------------------------------------------------------------
(* The invariant behind TossedOnce.  Its parts take the variables as        *)
(* parameters, so that the lemmas about them need no primes.                *)

\* A base is held by one line.
Has(l, b)     == l.base = b \/ b \in l.lost
HoldInv(ln)   == \A t, u \in Lines : \A b \in Bases : Has(ln[t], b) /\ Has(ln[u], b) => t = u

\* When the record has been written and the base is still open, DUPES.DAT is the ring.
RecordInv(ln, d) ==
  \A t \in Lines :
    Place(ln[t]) /\ ln[t].at \in {"area", "flush"} /\ ln[t].base # NoBase
      => d[ln[t].areatag] = ln[t].ring

\* A hash comes again only after MAXDUPES others.
Spaced(r)     == \A p, q \in DOMAIN r : p < q /\ r[p] = r[q] => q - p > MaxDupes
SpacedInv(ln, d) == (\A t \in Lines : Spaced(ln[t].ring)) /\ \A a \in DOMAIN Base : Spaced(d[a])

\* What has been filed is in the ring of the line that has the area open, or else in
\* DUPES.DAT, at the place the entry says.
Live(l, a)    == Place(l) /\ l.areatag = a
Noted(e, r)   == e.n \in DOMAIN r /\ r[e.n] = <<e.id, e.tag>>
Known(e, ln, d) ==
  /\ \A t \in Lines : Live(ln[t], e.area) => Noted(e, ln[t].ring)
  /\ (\A t \in Lines : ~Live(ln[t], e.area)) => Noted(e, d[e.area])
Of(e, b)      == e.area \in DOMAIN Base /\ Base[e.area] = b
Good(s, b, ln, d) ==
  /\ \A i \in DOMAIN s : Of(s[i], b) /\ Known(s[i], ln, d)
  /\ \A i, j \in DOMAIN s : i < j /\ s[i].area = s[j].area => s[i].n < s[j].n
GoodInv(st, ln, d) ==
  /\ \A b \in Bases : Good(st[b], b, ln, d)
  /\ \A t \in Lines : ln[t].base # NoBase =>
       Good(st[ln[t].base] \o ln[t].buf, ln[t].base, ln, d)

OnceInv ==
  /\ TypeInv
  /\ HoldInv(line) /\ RecordInv(line, dupes) /\ SpacedInv(line, dupes)
  /\ Calm => GoodInv(stored, line, dupes)

-----------------------------------------------------------------------------
(* Steps that leave all of it alone *)

\* Of line t neither what it holds grows nor what it knows of the area that it has open.
Quiet(t, n) ==
  LET l == line[t]
  IN  /\ line' = [line EXCEPT ![t] = n] /\ UNCHANGED <<stored, dupes>>
      /\ Place(n) <=> Place(l)
      /\ Place(l) => n.areatag = l.areatag /\ n.ring = l.ring
      /\ Place(n) /\ n.at \in {"area", "flush"} => l.at \in {"area", "flush"}
      /\ n.base \in {l.base, NoBase} /\ n.lost = l.lost /\ n.buf = l.buf
      /\ n.ring \in {l.ring, <<>>}
      /\ Calm' => Calm

LEMMA KnownKept ==
  ASSUME NEW e, NEW ln, NEW ln2, NEW d, NEW d2, Known(e, ln, d), d2[e.area] = d[e.area],
         \A u \in Lines : Live(ln2[u], e.area) <=> Live(ln[u], e.area),
         \A u \in Lines : Live(ln[u], e.area) => ln2[u].ring = ln[u].ring
  PROVE  Known(e, ln2, d2)
BY DEF Known

LEMMA GoodKept ==
  ASSUME NEW s, NEW b, NEW ln, NEW ln2, NEW d, NEW d2, Good(s, b, ln, d),
         \A e : Of(e, b) /\ Known(e, ln, d) => Known(e, ln2, d2)
  PROVE  Good(s, b, ln2, d2)
BY DEF Good

LEMMA GoodInvKept ==
  ASSUME NEW st, NEW ln, NEW ln2, NEW d, NEW d2, GoodInv(st, ln, d),
         \A t \in Lines : ln[t].base \in Bases \cup {NoBase},
         \A t \in Lines : ln2[t].base # NoBase =>
           ln2[t].base = ln[t].base /\ ln2[t].buf = ln[t].buf,
         \A b \in Bases : \A e : Of(e, b) /\ Known(e, ln, d) => Known(e, ln2, d2)
  PROVE  GoodInv(st, ln2, d2)
<1>1. \A b \in Bases : Good(st[b], b, ln2, d2)
  BY GoodKept DEF GoodInv
<1>2. ASSUME NEW t \in Lines, ln2[t].base # NoBase
      PROVE  Good(st[ln2[t].base] \o ln2[t].buf, ln2[t].base, ln2, d2)
  <2>1. /\ ln2[t].base = ln[t].base /\ ln2[t].buf = ln[t].buf /\ ln[t].base \in Bases
        /\ Good(st[ln[t].base] \o ln[t].buf, ln[t].base, ln, d)
    BY <1>2 DEF GoodInv
  <2>2. Good(st[ln[t].base] \o ln[t].buf, ln[t].base, ln2, d2)
    BY <2>1, GoodKept
  <2> QED  BY <2>1, <2>2
<1> QED  BY <1>1, <1>2 DEF GoodInv

LEMMA NothingSpaced == Spaced(<<>>)
BY DEF Spaced

LEMMA QuietKeeps ==
  ASSUME OnceInv, NEW t \in Lines, NEW n, Quiet(t, n), TypeInv'
  PROVE  OnceInv'
<1> DEFINE l == line[t]
<1>1. \A u \in Lines : line'[u] = IF u = t THEN n ELSE line[u]
  BY DEF OnceInv, TypeInv, Quiet
<1>2. stored' = stored /\ dupes' = dupes /\ NoBase \notin Bases
  BY Constants DEF Quiet
<1>3. HoldInv(line')
  <2>1. \A u \in Lines : \A b \in Bases : Has(line'[u], b) => Has(line[u], b)
    BY <1>1, <1>2 DEF Quiet, Has
  <2> QED  BY <2>1 DEF HoldInv, OnceInv
<1>4. RecordInv(line', dupes')
  BY <1>1, <1>2 DEF Quiet, RecordInv, OnceInv
<1>5. SpacedInv(line', dupes')
  BY <1>1, <1>2, NothingSpaced DEF Quiet, SpacedInv, OnceInv
<1>6. ASSUME Calm' PROVE GoodInv(stored', line', dupes')
  <2>1. GoodInv(stored, line, dupes)
    BY <1>6 DEF Quiet, OnceInv
  <2>2. ASSUME NEW u \in Lines, NEW a
        PROVE  /\ Live(line'[u], a) <=> Live(line[u], a)
               /\ Live(line[u], a) => line'[u].ring = line[u].ring
    BY <1>1 DEF Quiet, Live
  <2>3. \A e : Known(e, line, dupes) => Known(e, line', dupes')
    BY <1>2, <2>2, KnownKept
  <2>4. \A u \in Lines : line[u].base \in Bases \cup {NoBase}
    BY DEF OnceInv, TypeInv, LineType
  <2>5. \A u \in Lines : line'[u].base # NoBase =>
          line'[u].base = line[u].base /\ line'[u].buf = line[u].buf
    BY <1>1 DEF Quiet
  <2> QED  BY <1>2, <2>1, <2>3, <2>4, <2>5, GoodInvKept
<1> QED  BY <1>3, <1>4, <1>5, <1>6 DEF OnceInv

\* Failures and crashes only ever get fewer.
LEMMA AfterFailure ==
  ASSUME TypeInv, NEW t \in Lines, CannotSave(t) \/ Crash(t)
  PROVE  ~Calm'
<1>1. /\ env \in EnvType /\ env.failures \in 0 .. Failures /\ env.crashes \in 0 .. Crashes
      /\ Failures \in Nat /\ Crashes \in Nat
  BY TossAssumption DEF TypeInv, SharedType, EnvType
<1>2. env'.failures = env.failures - 1 \/ env'.crashes = env.crashes - 1
  <2>1. CASE CannotSave(t)
    <3>1. PICK c : env' = [env EXCEPT !.failures = env.failures - 1, !.cut = c]
      BY <2>1 DEF CannotSave
    <3> QED  BY <1>1, <3>1 DEF EnvType
  <2>2. CASE Crash(t)
    <3>1. PICK c : env' = [env EXCEPT !.crashes = env.crashes - 1, !.cut = c]
      BY <2>2 DEF Crash
    <3> QED  BY <1>1, <3>1 DEF EnvType
  <2> QED  BY <2>1, <2>2
<1> QED  BY <1>1, <1>2 DEF Calm

LEMMA EnvAfter ==
  ASSUME NEW t \in Lines, Begin(t) \/ Step(t)
  PROVE  \/ UNCHANGED env
         \/ \E b : env' = [env EXCEPT !.reopened = b]
         \/ env' = [env EXCEPT !.failures = env.failures - 1]
<1>1. CASE Begin(t)
  BY <1>1 DEF Begin
<1>2. CASE Unpack(t)
  <2>1. CASE Unarchive(t)
    BY <2>1 DEF Unarchive
  <2> QED  BY <1>2, <2>1 DEF Unpack, SkipBundle, Identify, Spawn, DeleteBundle, RenameBundle,
              UnpackDone
<1>3. CASE Tosses(t)
  BY <1>3 DEF Tosses, Pick, Number, Rename, Open, CannotOpen, LeaveArea, BadArea, CloseBase,
     OpenBase, ReadDupes, FileMessage, EndPacket, Flush, ClosePacket, Unlink
<1> QED  BY <1>1, <1>2, <1>3 DEF Step

LEMMA CalmBefore ==
  ASSUME TypeInv, NEW t \in Lines, Begin(t) \/ Step(t)
  PROVE  (Calm' => Calm) /\ env'.cut = env.cut
<1>1. /\ env \in EnvType /\ env.failures \in 0 .. Failures /\ Failures \in Nat
  BY TossAssumption DEF TypeInv, SharedType, EnvType
<1>2. CASE UNCHANGED env
  BY <1>2 DEF Calm
<1>3. CASE \E b : env' = [env EXCEPT !.reopened = b]
  <2>1. env'.failures = env.failures /\ env'.crashes = env.crashes /\ env'.cut = env.cut
    BY <1>1, <1>3 DEF EnvType
  <2> QED  BY <2>1 DEF Calm
<1>4. CASE env' = [env EXCEPT !.failures = env.failures - 1]
  <2>1. env'.failures = env.failures - 1 /\ env'.cut = env.cut
    BY <1>1, <1>4 DEF EnvType
  <2> QED  BY <1>1, <2>1 DEF Calm
<1> QED  BY <1>2, <1>3, <1>4, EnvAfter

LEMMA QuietOutside ==
  ASSUME NEW t \in Lines, NEW n, line' = [line EXCEPT ![t] = n], UNCHANGED <<stored, dupes>>,
         Calm' => Calm, line[t].at \notin {"toss", "area", "flush"},
         n.at \notin {"toss", "area", "flush"} \/ n.areatag = None,
         n.base \in {line[t].base, NoBase}, n.lost = line[t].lost, n.buf = line[t].buf,
         n.ring \in {line[t].ring, <<>>}
  PROVE  Quiet(t, n)
BY DEF Quiet, Place

LEMMA GoesQuiet ==
  ASSUME TypeInv, NEW t \in Lines, NEW at, Goes(t, at), UNCHANGED <<stored, dupes>>,
         Calm' => Calm, line[t].at \notin {"toss", "area", "flush"},
         at \notin {"toss", "area", "flush"}
  PROVE  \E n : Quiet(t, n)
<1> DEFINE n == [line[t] EXCEPT !.at = at]
<1>1. /\ n.at = at /\ n.base = line[t].base /\ n.lost = line[t].lost /\ n.buf = line[t].buf
      /\ n.ring = line[t].ring
  BY DEF TypeInv, LineType
<1>2. line' = [line EXCEPT ![t] = n]
  BY DEF Goes
<1> HIDE DEF n
<1>3. Quiet(t, n)
  BY <1>1, <1>2, QuietOutside
<1> QED  BY <1>3

LEMMA FreshQuiet ==
  ASSUME TypeInv, NEW t \in Lines, UNCHANGED <<stored, dupes>>, Calm' => Calm,
         line' = [line EXCEPT ![t] = [Start0 EXCEPT !.lost = line[t].lost]],
         line[t].at \notin {"toss", "area", "read", "flush"}
  PROVE  \E n : Quiet(t, n)
<1> DEFINE n == [Start0 EXCEPT !.lost = line[t].lost]
<1>1. Start0 \in LineType
  BY StartLine
<1>2. Start0.at = "idle" /\ Start0.base = NoBase /\ Start0.buf = <<>> /\ Start0.ring = <<>>
  BY DEF Start0
<1>3. n.at = "idle" /\ n.base = NoBase /\ n.buf = <<>> /\ n.ring = <<>> /\ n.lost = line[t].lost
  BY <1>1, <1>2 DEF LineType
<1>4. line[t].buf = <<>>
  BY DEF TypeInv, LineInv
<1> HIDE DEF n
<1>5. Quiet(t, n)
  BY <1>3, <1>4, QuietOutside DEF n
<1> QED  BY <1>5

LEMMA UnpackQuiet ==
  ASSUME TypeInv, NEW t \in Lines, Begin(t) \/ Unpack(t)
  PROVE  \E n : Quiet(t, n)
<1> DEFINE l == line[t]
<1>1. (Calm' => Calm) /\ l \in LineType
  BY CalmBefore DEF Step, TypeInv
<1>2. CASE Begin(t)
  <2> DEFINE n == [l EXCEPT !.at = "unpack", !.todo = bundles]
  <2>1. line' = [line EXCEPT ![t] = n] /\ UNCHANGED <<stored, dupes>> /\ l.at = "idle"
    BY <1>2 DEF Begin
  <2>2. /\ n.at = "unpack" /\ n.base = l.base /\ n.lost = l.lost /\ n.buf = l.buf
        /\ n.ring = l.ring
    BY <1>1 DEF LineType
  <2> HIDE DEF n
  <2>3. Quiet(t, n)
    BY <1>1, <2>1, <2>2, QuietOutside
  <2> QED  BY <2>3
<1>3. CASE SkipBundle(t)
  <2>1. PICK b : line' = [line EXCEPT ![t] = [l EXCEPT !.todo = l.todo \ {b}]]
    BY <1>3 DEF SkipBundle
  <2> DEFINE n == [l EXCEPT !.todo = l.todo \ {b}]
  <2>2. UNCHANGED <<stored, dupes>> /\ l.at = "unpack"
    BY <1>3 DEF SkipBundle
  <2>3. /\ n.at = "unpack" /\ n.base = l.base /\ n.lost = l.lost /\ n.buf = l.buf
        /\ n.ring = l.ring
    BY <1>1, <2>2 DEF LineType
  <2> HIDE DEF n
  <2>4. Quiet(t, n)
    BY <1>1, <2>1, <2>2, <2>3, QuietOutside DEF n
  <2> QED  BY <2>4
<1>4. CASE Identify(t)
  <2>1. PICK b : line' = [line EXCEPT ![t] =
                            [l EXCEPT !.at = "found", !.pkt = b, !.todo = l.todo \ {b}]]
    BY <1>4 DEF Identify
  <2> DEFINE n == [l EXCEPT !.at = "found", !.pkt = b, !.todo = l.todo \ {b}]
  <2>2. UNCHANGED <<stored, dupes>> /\ l.at = "unpack"
    BY <1>4 DEF Identify
  <2>3. /\ n.at = "found" /\ n.base = l.base /\ n.lost = l.lost /\ n.buf = l.buf
        /\ n.ring = l.ring
    BY <1>1 DEF LineType
  <2> HIDE DEF n
  <2>4. Quiet(t, n)
    BY <1>1, <2>1, <2>2, <2>3, QuietOutside DEF n
  <2> QED  BY <2>4
<1>5. CASE Spawn(t) \/ Unarchive(t)
  <2>1. PICK at \in {"spawn", "renaming", "delete"} : Goes(t, at)
    BY <1>5 DEF Spawn, Unarchive
  <2>2. UNCHANGED <<stored, dupes>> /\ l.at \in {"found", "spawn"}
    BY <1>5 DEF Spawn, Unarchive
  <2> QED  BY <1>1, <2>1, <2>2, GoesQuiet
<1>6. CASE DeleteBundle(t) \/ RenameBundle(t) \/ UnpackDone(t)
  <2>1. PICK at \in {"unpack", "scan"} : Goes(t, at)
    BY <1>6 DEF DeleteBundle, RenameBundle, UnpackDone
  <2>2. UNCHANGED <<stored, dupes>> /\ l.at \in {"delete", "renaming", "unpack"}
    BY <1>6 DEF DeleteBundle, RenameBundle, UnpackDone
  <2> QED  BY <1>1, <2>1, <2>2, GoesQuiet
<1> QED  BY <1>2, <1>3, <1>4, <1>5, <1>6 DEF Unpack

LEMMA OutsideQuiet ==
  ASSUME TypeInv, NEW t \in Lines,
         Pick(t) \/ Number(t) \/ Rename(t) \/ Open(t) \/ CannotOpen(t) \/ ClosePacket(t) \/ Unlink(t)
  PROVE  \E n : Quiet(t, n)
<1> DEFINE l == line[t]
<1>1. (Calm' => Calm) /\ l \in LineType
  BY CalmBefore DEF Step, Tosses, TypeInv
<1>2. CASE Pick(t)
  <2>1. UNCHANGED <<stored, dupes>> /\ l.at = "scan"
    BY <1>2 DEF Pick
  <2>2. CASE line' = [line EXCEPT ![t] = [Start0 EXCEPT !.lost = line[t].lost]]
    BY <1>1, <2>1, <2>2, FreshQuiet
  <2>3. CASE \E p : line' = [line EXCEPT ![t].at = "number", ![t].pkt = p]
    <3>1. PICK p : line' = [line EXCEPT ![t] = [l EXCEPT !.at = "number", !.pkt = p]]
      BY <2>3
    <3> DEFINE n == [l EXCEPT !.at = "number", !.pkt = p]
    <3>2. /\ n.at = "number" /\ n.base = l.base /\ n.lost = l.lost /\ n.buf = l.buf
          /\ n.ring = l.ring
      BY <1>1 DEF LineType
    <3> HIDE DEF n
    <3>3. Quiet(t, n)
      BY <1>1, <2>1, <3>1, <3>2, QuietOutside DEF n
    <3> QED  BY <3>3
  <2> QED  BY <1>2, <2>2, <2>3 DEF Pick
<1>3. CASE Number(t)
  <2>1. PICK k : line' = [line EXCEPT ![t] = [l EXCEPT !.at = "rename", !.num = k]]
    BY <1>3 DEF Number
  <2>2. UNCHANGED <<stored, dupes>> /\ l.at = "number"
    BY <1>3 DEF Number
  <2> DEFINE n == [l EXCEPT !.at = "rename", !.num = k]
  <2>3. /\ n.at = "rename" /\ n.base = l.base /\ n.lost = l.lost /\ n.buf = l.buf
        /\ n.ring = l.ring
    BY <1>1 DEF LineType
  <2> HIDE DEF n
  <2>4. Quiet(t, n)
    BY <1>1, <2>1, <2>2, <2>3, QuietOutside DEF n
  <2> QED  BY <2>4
<1>4. CASE Open(t)
  <2> DEFINE n == [Start0 EXCEPT !.at = "toss", !.pkt = badpkt[l.num], !.num = l.num,
                                 !.base = l.base, !.lost = l.lost]
  <2>1. UNCHANGED <<stored, dupes>> /\ l.at = "open" /\ line' = [line EXCEPT ![t] = n]
    BY <1>4 DEF Open
  <2>2. Start0 \in LineType /\ Start0.areatag = None /\ Start0.buf = <<>> /\ Start0.ring = <<>>
    BY StartLine DEF Start0
  <2>3. l.buf = <<>>
    BY <2>1 DEF TypeInv, LineInv
  <2>4. n.areatag = None /\ n.base = l.base /\ n.lost = l.lost /\ n.buf = l.buf /\ n.ring = <<>>
    BY <2>2, <2>3 DEF LineType
  <2> HIDE DEF n
  <2>5. Quiet(t, n)
    BY <1>1, <2>1, <2>4, QuietOutside
  <2> QED  BY <2>5
<1>5. CASE Rename(t) \/ CannotOpen(t) \/ Unlink(t)
  <2>1. PICK at \in {"open", "scan"} : Goes(t, at)
    BY <1>5 DEF Rename, CannotOpen, Unlink
  <2>2. UNCHANGED <<stored, dupes>> /\ l.at \in {"rename", "open", "unlink"}
    BY <1>5 DEF Rename, CannotOpen, Unlink
  <2> QED  BY <1>1, <2>1, <2>2, GoesQuiet
<1>6. CASE ClosePacket(t)
  <2>1. UNCHANGED <<stored, dupes>> /\ l.at = "close"
    BY <1>6 DEF ClosePacket
  <2>2. CASE Goes(t, "unlink")
    BY <1>1, <2>1, <2>2, GoesQuiet
  <2>3. CASE line' = [line EXCEPT ![t] = [Start0 EXCEPT !.lost = line[t].lost]]
    BY <1>1, <2>1, <2>3, FreshQuiet
  <2> QED  BY <1>6, <2>2, <2>3 DEF ClosePacket, Goes
<1> QED  BY <1>2, <1>3, <1>4, <1>5, <1>6

LEMMA BadAreaQuiet ==
  ASSUME TypeInv, NEW t \in Lines, BadArea(t)
  PROVE  \E n : Quiet(t, n)
<1> DEFINE l == line[t]
           n == [l EXCEPT !.at = "toss", !.tag = Msg(t).area, !.pos = l.pos + 1]
<1>1. (Calm' => Calm) /\ l \in LineType
  BY CalmBefore DEF Step, Tosses, TypeInv
<1>2. line' = [line EXCEPT ![t] = n] /\ UNCHANGED <<stored, dupes>> /\ l.at = "area"
  BY DEF BadArea
<1>3. /\ n.at = "toss" /\ n.areatag = l.areatag /\ n.base = l.base /\ n.lost = l.lost
      /\ n.buf = l.buf /\ n.ring = l.ring
  BY <1>1 DEF LineType
<1> HIDE DEF n
<1>4. Quiet(t, n)
  BY <1>1, <1>2, <1>3 DEF Quiet, Place
<1> QED  BY <1>4

-----------------------------------------------------------------------------
(* The others *)

LEMMA HoldKept ==
  ASSUME NEW ln, NEW ln2, HoldInv(ln),
         \A u \in Lines : \A b \in Bases : Has(ln2[u], b) => Has(ln[u], b)
  PROVE  HoldInv(ln2)
BY DEF HoldInv

\* A line that has an area with a base open is the only one that has the base.
LEMMA OnlyHolder ==
  ASSUME TypeInv, HoldInv(line), NEW t \in Lines, NEW u \in Lines,
         line[t].base \in Bases,
         \/ line[u].base = line[t].base
         \/ Place(line[u]) /\ Base[line[u].areatag] = line[t].base
  PROVE  u = t
<1>1. line[u].base = line[t].base
  BY DEF TypeInv, LineInv
<1> QED  BY <1>1 DEF HoldInv, Has

\* write_dupe_check(): what another line knows is not touched, since the area is ours.
LEMMA WriteKeeps ==
  ASSUME OnceInv, NEW t \in Lines, LeaveArea(t) \/ EndPacket(t), TypeInv'
  PROVE  OnceInv'
<1> DEFINE l == line[t]
<1>1. (Calm' => Calm) /\ l \in LineType /\ LineInv(l) /\ TypeInv
  BY CalmBefore DEF Step, Tosses, TypeInv, OnceInv
<1>2. PICK at \in {"area", "flush"} :
        /\ line' = [line EXCEPT ![t] = [l EXCEPT !.at = at]]
        /\ l.at = "toss" /\ stored' = stored /\ WriteDupes(t)
  BY DEF LeaveArea, EndPacket, Goes
<1> DEFINE n == [l EXCEPT !.at = at]
<1>3. /\ n.at = at /\ n.areatag = l.areatag /\ n.base = l.base /\ n.lost = l.lost
      /\ n.buf = l.buf /\ n.ring = l.ring
  BY <1>1 DEF LineType
<1>4. line' = [line EXCEPT ![t] = n]
  BY <1>2
<1> HIDE DEF n
<1>5. \A u \in Lines : line'[u] = IF u = t THEN n ELSE line[u]
  BY <1>1, <1>4 DEF TypeInv
<1>6. Place(n) <=> Place(l)
  BY <1>2, <1>3 DEF Place
<1>7. HoldInv(line')
  <2>1. \A u \in Lines : \A b \in Bases : Has(line'[u], b) => Has(line[u], b)
    BY <1>3, <1>5 DEF Has
  <2> QED  BY <2>1, HoldKept DEF OnceInv
<1>8. /\ dupes \in [DOMAIN Base -> Seq(Hash)]
      /\ l.areatag = None \/ l.areatag \in DOMAIN Base
  BY <1>1 DEF TypeInv, SharedType, LineType
<1>9. \A a \in DOMAIN Base : dupes'[a] = IF a = l.areatag THEN l.ring ELSE dupes[a]
  BY <1>2, <1>8, Constants DEF WriteDupes
<1>10. RecordInv(line', dupes')
  <2> SUFFICES ASSUME NEW u \in Lines, Place(line'[u]), line'[u].at \in {"area", "flush"},
                      line'[u].base # NoBase
               PROVE  dupes'[line'[u].areatag] = line'[u].ring
    BY DEF RecordInv
  <2>1. CASE u = t
    <3>1. l.areatag \in DOMAIN Base
      BY <1>3, <1>5, <1>8, <2>1 DEF Place
    <3> QED  BY <1>3, <1>5, <1>9, <2>1, <3>1
  <2>2. CASE u # t
    <3>1. line'[u] = line[u] /\ dupes[line[u].areatag] = line[u].ring
      BY <1>5, <2>2 DEF OnceInv, RecordInv
    <3>2. line[u].areatag \in DOMAIN Base /\ line[u].base = Base[line[u].areatag]
          /\ line[u].base \in Bases
      BY <1>1, <3>1 DEF TypeInv, LineInv, LineType, Place
    <3>3. line[u].areatag # l.areatag
      <4> SUFFICES ASSUME line[u].areatag = l.areatag PROVE u = t
        BY <2>2
      <4>1. Place(l)
        BY <1>2, <3>1 DEF Place
      <4> QED  BY <1>1, <3>2, <4>1, OnlyHolder DEF OnceInv, LineInv
    <3> QED  BY <1>9, <3>1, <3>2, <3>3
  <2> QED  BY <2>1, <2>2
<1>11. SpacedInv(line', dupes')
  BY <1>3, <1>5, <1>9 DEF SpacedInv, OnceInv
<1>12. ASSUME Calm' PROVE GoodInv(stored', line', dupes')
  <2>1. GoodInv(stored, line, dupes)
    BY <1>1, <1>12 DEF OnceInv
  <2>2. ASSUME NEW u \in Lines, NEW a
        PROVE  /\ Live(line'[u], a) <=> Live(line[u], a)
               /\ Live(line[u], a) => line'[u].ring = line[u].ring
    BY <1>3, <1>5, <1>6 DEF Live
  <2>3. ASSUME NEW e, e.area \in DOMAIN Base, Known(e, line, dupes)
        PROVE  Known(e, line', dupes')
    <3>1. CASE e.area = l.areatag /\ l.areatag # None
      <4>1. Live(line'[t], e.area)
        BY <1>2, <1>3, <1>5, <3>1 DEF Live, Place
      <4>2. \A u \in Lines : Live(line'[u], e.area) => Noted(e, line'[u].ring)
        BY <2>2, <2>3 DEF Known
      <4> QED  BY <4>1, <4>2 DEF Known
    <3>2. CASE e.area # l.areatag \/ l.areatag = None
      <4>1. dupes'[e.area] = dupes[e.area]
        BY <1>2, <1>9, <2>3, <3>2 DEF WriteDupes
      <4> QED  BY <2>2, <2>3, <4>1, KnownKept
    <3> QED  BY <3>1, <3>2
  <2>4. \A u \in Lines : line[u].base \in Bases \cup {NoBase}
    BY <1>1 DEF TypeInv, LineType
  <2>5. \A u \in Lines : line'[u].base # NoBase =>
          line'[u].base = line[u].base /\ line'[u].buf = line[u].buf
    BY <1>3, <1>5
  <2> QED  BY <1>2, <2>1, <2>3, <2>4, <2>5, GoodInvKept DEF Of
<1> QED  BY <1>7, <1>10, <1>11, <1>12 DEF OnceInv

\* An area is left after its record has been written: what DUPES.DAT has is then the
\* ring.  What is in buffers goes to the base, which is closed or has no buffers.
LEMMA CloseKeeps ==
  ASSUME OnceInv, NEW t \in Lines, NEW n, TypeInv',
         line' = [line EXCEPT ![t] = n], Calm' => Calm, dupes' = dupes,
         line[t].at \in {"area", "flush"}, ~Place(n), n.ring = line[t].ring, n.lost = line[t].lost,
         \/ n.base = line[t].base /\ n.buf = line[t].buf /\ stored' = stored
         \/ /\ n.base = NoBase \/ (n.base = line[t].base /\ n.base \in Squish)
            /\ n.buf = <<>> /\ stored' = Written(t, line[t].buf)
  PROVE  OnceInv'
<1> DEFINE l == line[t]
<1>1. l \in LineType /\ LineInv(l) /\ TypeInv /\ stored \in [Bases -> Seq(Entry)]
  BY DEF TypeInv, OnceInv, SharedType
<1>2. \A u \in Lines : line'[u] = IF u = t THEN n ELSE line[u]
  BY <1>1 DEF TypeInv
<1>3. \A u \in Lines : line[u].base \in Bases \cup {NoBase}
  BY <1>1 DEF TypeInv, LineType
<1>4. HoldInv(line')
  <2>1. \A u \in Lines : \A b \in Bases : Has(line'[u], b) => Has(line[u], b)
    BY <1>2, Constants DEF Has
  <2> QED  BY <2>1, HoldKept DEF OnceInv
<1>5. RecordInv(line', dupes')
  BY <1>2 DEF RecordInv, OnceInv
<1>6. SpacedInv(line', dupes')
  BY <1>2 DEF SpacedInv, OnceInv
<1>7. ASSUME Calm' PROVE GoodInv(stored', line', dupes')
  <2>1. GoodInv(stored, line, dupes)
    BY <1>7 DEF OnceInv
  <2>2. ASSUME NEW b \in Bases, NEW e, Of(e, b), Known(e, line, dupes)
        PROVE  Known(e, line', dupes')
    <3>1. \A u \in Lines : Live(line'[u], e.area) =>
             Live(line[u], e.area) /\ line'[u].ring = line[u].ring
      BY <1>2 DEF Live
    <3>2. ASSUME \A u \in Lines : ~Live(line'[u], e.area)
          PROVE  Noted(e, dupes[e.area])
      <4>1. CASE Live(line[t], e.area)
        <5>1. l.base = b /\ b # NoBase
          BY <1>1, <2>2, <4>1, Constants DEF Live, LineInv, Of
        <5>2. dupes[e.area] = l.ring
          BY <4>1, <5>1 DEF OnceInv, RecordInv, Live
        <5> QED  BY <2>2, <4>1, <5>2 DEF Known
      <4>2. CASE ~Live(line[t], e.area)
        <5>1. \A u \in Lines : ~Live(line[u], e.area)
          BY <1>2, <3>2, <4>2
        <5> QED  BY <2>2, <5>1 DEF Known
      <4> QED  BY <4>1, <4>2
    <3> QED  BY <2>2, <3>1, <3>2 DEF Known
  <2>3. CASE /\ \A u \in Lines : line'[u].base # NoBase =>
                  line'[u].base = line[u].base /\ line'[u].buf = line[u].buf
             /\ stored' = stored
    BY <1>3, <2>1, <2>2, <2>3, GoodInvKept
  <2>4. CASE n.base = l.base /\ n.buf = l.buf /\ stored' = stored
    BY <1>2, <2>3, <2>4
  <2>5. CASE /\ n.base = NoBase \/ (n.base = l.base /\ n.base \in Squish)
             /\ n.buf = <<>> /\ stored' = Written(t, l.buf)
    <3>1. CASE l.base = NoBase
      <4>1. stored' = stored /\ n.base = NoBase
        BY <2>5, <3>1 DEF Written
      <4> QED  BY <1>2, <2>3, <4>1
    <3>2. CASE l.base # NoBase
      <4>1. l.base \in Bases /\ stored' = [stored EXCEPT ![l.base] = stored[l.base] \o l.buf]
        BY <1>3, <2>5, <3>2 DEF Written
      <4>2. \A b \in Bases : stored'[b] = IF b = l.base THEN stored[b] \o l.buf ELSE stored[b]
        BY <1>1, <4>1
      <4>3. \A b \in Bases : Good(stored'[b], b, line', dupes')
        <5>1. \A b \in Bases : Good(stored'[b], b, line, dupes)
          BY <2>1, <3>2, <4>2 DEF GoodInv
        <5> QED  BY <2>2, <5>1, GoodKept
      <4>4. ASSUME NEW u \in Lines, line'[u].base # NoBase
            PROVE  Good(stored'[line'[u].base] \o line'[u].buf, line'[u].base, line', dupes')
        <5>1. CASE u = t
          <6>1. line'[u].base = l.base /\ line'[u].buf = <<>> /\ l.base \in Squish
            BY <1>2, <2>5, <4>4, <5>1
          <6>2. stored'[l.base] \in Seq(Entry)
            BY <4>1 DEF TypeInv, SharedType
          <6>3. stored'[l.base] \o <<>> = stored'[l.base]
            BY <6>2
          <6> QED  BY <4>1, <4>3, <6>1, <6>3
        <5>2. CASE u # t
          <6>1. line'[u] = line[u] /\ line[u].base \in Bases
            BY <1>2, <1>3, <4>4, <5>2
          <6>2. line[u].base # l.base
            BY <1>1, <4>1, <5>2, OnlyHolder DEF OnceInv
          <6>3. Good(stored[line[u].base] \o line[u].buf, line[u].base, line, dupes)
            BY <2>1, <4>4, <6>1 DEF GoodInv
          <6>4. Good(stored[line[u].base] \o line[u].buf, line[u].base, line', dupes')
            BY <2>2, <6>1, <6>3, GoodKept
          <6> QED  BY <4>2, <6>1, <6>2, <6>4
        <5> QED  BY <5>1, <5>2
      <4> QED  BY <4>3, <4>4 DEF GoodInv
    <3> QED  BY <3>1, <3>2
  <2> QED  BY <2>4, <2>5
<1> QED  BY <1>4, <1>5, <1>6, <1>7 DEF OnceInv

LEMMA CloseBaseKeeps ==
  ASSUME OnceInv, NEW t \in Lines, CloseBase(t), TypeInv'
  PROVE  OnceInv'
<1> DEFINE l == line[t]
<1>1. l \in LineType /\ (Calm' => Calm) /\ dupes' = dupes /\ l.at = "area"
  BY CalmBefore DEF CloseBase, Step, Tosses, TypeInv, OnceInv
<1>2. CASE Goes(t, "read") /\ UNCHANGED stored
  <2> DEFINE n == [l EXCEPT !.at = "read"]
  <2>1. /\ n.at = "read" /\ n.ring = l.ring /\ n.lost = l.lost /\ n.base = l.base
        /\ n.buf = l.buf /\ line' = [line EXCEPT ![t] = n]
    BY <1>1, <1>2 DEF LineType, Goes
  <2> HIDE DEF n
  <2>2. ~Place(n)
    BY <2>1 DEF Place
  <2> QED  BY <1>1, <1>2, <2>1, <2>2, CloseKeeps
<1>3. CASE /\ line' = [line EXCEPT ![t].at = "wait", ![t].base = NoBase, ![t].buf = <<>>]
           /\ stored' = Written(t, line[t].buf)
  <2> DEFINE n == [l EXCEPT !.at = "wait", !.base = NoBase, !.buf = <<>>]
  <2>1. /\ n.at = "wait" /\ n.ring = l.ring /\ n.lost = l.lost /\ n.base = NoBase
        /\ n.buf = <<>> /\ line' = [line EXCEPT ![t] = n]
    BY <1>1, <1>3 DEF LineType
  <2> HIDE DEF n
  <2>2. ~Place(n)
    BY <2>1 DEF Place
  <2> QED  BY <1>1, <1>3, <2>1, <2>2, CloseKeeps
<1> QED  BY <1>2, <1>3 DEF CloseBase

LEMMA FlushKeeps ==
  ASSUME OnceInv, NEW t \in Lines, Flush(t), TypeInv'
  PROVE  OnceInv'
<1> DEFINE l == line[t]
           b == IF l.base \in Squish THEN l.base ELSE NoBase
           n == [l EXCEPT !.at = "close", !.ok = TRUE, !.buf = <<>>, !.base = b]
<1>1. /\ l \in LineType /\ (Calm' => Calm) /\ dupes' = dupes /\ l.at = "flush"
      /\ stored' = Written(t, l.buf) /\ line' = [line EXCEPT ![t] = n]
  BY CalmBefore DEF Flush, Step, Tosses, TypeInv, OnceInv
<1>2. b = NoBase \/ (b = l.base /\ b \in Squish)
  OBVIOUS
<1> HIDE DEF b
<1>3. /\ n.at = "close" /\ n.ring = l.ring /\ n.lost = l.lost /\ n.base = b /\ n.buf = <<>>
  BY <1>1 DEF LineType
<1> HIDE DEF n
<1>4. ~Place(n)
  BY <1>3 DEF Place
<1> QED  BY <1>1, <1>2, <1>3, <1>4, CloseKeeps

LEMMA OpenBaseKeeps ==
  ASSUME OnceInv, NEW t \in Lines, OpenBase(t), TypeInv'
  PROVE  OnceInv'
<1> DEFINE l == line[t]
           b == Base[Msg(t).area]
           n == [l EXCEPT !.at = "read", !.base = b, !.sys = b]
<1>1. /\ l \in LineType /\ (Calm' => Calm) /\ dupes' = dupes /\ stored' = stored /\ l.at = "wait"
      /\ Free(b) /\ line' = [line EXCEPT ![t] = n] /\ TypeInv /\ LineInv(l)
  BY CalmBefore DEF OpenBase, Step, Tosses, TypeInv, OnceInv
<1>2. l.buf = <<>> /\ b \in Bases \cup {NoBase}
  BY <1>1, Constants DEF LineInv, Msg, MsgOf
<1> HIDE DEF b
<1>3. n.at = "read" /\ n.ring = l.ring /\ n.lost = l.lost /\ n.base = b /\ n.buf = <<>>
  BY <1>1, <1>2 DEF LineType
<1> HIDE DEF n
<1>4. ~Place(n) /\ ~Place(l)
  BY <1>1, <1>3 DEF Place
<1>5. \A u \in Lines : line'[u] = IF u = t THEN n ELSE line[u]
  BY <1>1 DEF TypeInv
<1>6. HoldInv(line')
  <2> SUFFICES ASSUME NEW u \in Lines, NEW v \in Lines, NEW c \in Bases,
                      Has(line'[u], c), Has(line'[v], c), u # v
               PROVE  FALSE
    BY DEF HoldInv
  <2>1. \A w \in Lines : Has(line'[w], c) => Has(line[w], c) \/ (w = t /\ c = b)
    BY <1>3, <1>5 DEF Has
  <2>2. CASE Has(line[u], c) /\ Has(line[v], c)
    BY <2>2 DEF OnceInv, HoldInv
  <2>3. CASE c = b
    <3>1. \A w \in Lines : ~Has(line[w], c)
      BY <1>1, <2>3, Constants DEF Free, Holds, Has
    <3> QED  BY <2>1, <3>1
  <2> QED  BY <2>1, <2>2, <2>3
<1>7. RecordInv(line', dupes')
  BY <1>1, <1>4, <1>5 DEF RecordInv, OnceInv
<1>8. SpacedInv(line', dupes')
  BY <1>1, <1>3, <1>5 DEF SpacedInv, OnceInv
<1>9. ASSUME Calm' PROVE GoodInv(stored', line', dupes')
  <2>1. GoodInv(stored, line, dupes)
    BY <1>1, <1>9 DEF OnceInv
  <2>2. ASSUME NEW u \in Lines, NEW a
        PROVE  /\ Live(line'[u], a) <=> Live(line[u], a)
               /\ Live(line[u], a) => line'[u].ring = line[u].ring
    BY <1>4, <1>5 DEF Live
  <2>3. ASSUME NEW e, Known(e, line, dupes) PROVE Known(e, line', dupes')
    BY <1>1, <2>2, <2>3, KnownKept
  <2>4. \A c \in Bases : Good(stored'[c], c, line', dupes')
    BY <1>1, <2>1, <2>3, GoodKept DEF GoodInv
  <2>5. ASSUME NEW u \in Lines, line'[u].base # NoBase
        PROVE  Good(stored'[line'[u].base] \o line'[u].buf, line'[u].base, line', dupes')
    <3>1. CASE u = t
      <4>1. b \in Bases /\ line'[u].base = b /\ line'[u].buf = <<>>
        BY <1>2, <1>3, <1>5, <2>5, <3>1
      <4>2. stored'[b] \in Seq(Entry)
        BY <4>1 DEF TypeInv, SharedType
      <4>3. stored'[b] \o <<>> = stored'[b]
        BY <4>2
      <4> QED  BY <2>4, <4>1, <4>3
    <3>2. CASE u # t
      <4>1. line'[u] = line[u]
        BY <1>5, <3>2
      <4>2. Good(stored[line[u].base] \o line[u].buf, line[u].base, line, dupes)
        BY <2>1, <2>5, <4>1 DEF GoodInv
      <4> QED  BY <1>1, <2>3, <4>1, <4>2, GoodKept
    <3> QED  BY <3>1, <3>2
  <2> QED  BY <2>4, <2>5 DEF GoodInv
<1> QED  BY <1>6, <1>7, <1>8, <1>9 DEF OnceInv

\* read_dupe_check(): the record is read when the base is locked, and so when no other
\* line has a ring of the area.
LEMMA ReadDupesKeeps ==
  ASSUME OnceInv, NEW t \in Lines, ReadDupes(t), TypeInv'
  PROVE  OnceInv'
<1> DEFINE l == line[t]
           a == Msg(t).area
           n == [l EXCEPT !.at = "toss", !.areatag = a, !.tag = a, !.ring = dupes[a]]
<1>1. /\ l \in LineType /\ (Calm' => Calm) /\ dupes' = dupes /\ stored' = stored /\ l.at = "read"
      /\ line' = [line EXCEPT ![t] = n] /\ TypeInv /\ LineInv(l)
  BY CalmBefore DEF ReadDupes, Step, Tosses, TypeInv, OnceInv
<1>2. a \in DOMAIN Base /\ l.base = Base[a]
  BY <1>1 DEF LineInv, Msg, MsgOf
<1> HIDE DEF a
<1>3. /\ n.at = "toss" /\ n.areatag = a /\ n.ring = dupes[a] /\ n.lost = l.lost
      /\ n.base = l.base /\ n.buf = l.buf
  BY <1>1 DEF LineType
<1> HIDE DEF n
<1>4. \A u \in Lines : line'[u] = IF u = t THEN n ELSE line[u]
  BY <1>1 DEF TypeInv
<1>5. HoldInv(line')
  <2>1. \A u \in Lines : \A b \in Bases : Has(line'[u], b) => Has(line[u], b)
    BY <1>3, <1>4 DEF Has
  <2> QED  BY <2>1, HoldKept DEF OnceInv
<1>6. RecordInv(line', dupes')
  BY <1>1, <1>3, <1>4 DEF RecordInv, OnceInv
<1>7. SpacedInv(line', dupes')
  BY <1>1, <1>2, <1>3, <1>4 DEF SpacedInv, OnceInv
<1>8. ASSUME Calm' PROVE GoodInv(stored', line', dupes')
  <2>1. GoodInv(stored, line, dupes)
    BY <1>1, <1>8 DEF OnceInv
  <2>2. ASSUME NEW b \in Bases, NEW e, Of(e, b), Known(e, line, dupes)
        PROVE  Known(e, line', dupes')
    <3>1. ~Live(line[t], e.area)
      BY <1>1 DEF Live, Place
    <3>2. CASE e.area = a
      <4>1. l.base = b /\ b # NoBase
        BY <1>2, <2>2, <3>2, Constants DEF Of
      <4>2. \A u \in Lines : Live(line[u], a) => u = t
        BY <1>1, <2>2, <3>2, <4>1, OnlyHolder DEF Live, OnceInv, Of
      <4>3. Noted(e, dupes[a])
        BY <2>2, <3>1, <3>2, <4>2 DEF Known
      <4>4. \A u \in Lines : Live(line'[u], a) => line'[u].ring = dupes[a]
        BY <1>3, <1>4, <4>2, <3>1, <3>2
      <4> QED  BY <1>1, <3>2, <4>3, <4>4 DEF Known
    <3>3. CASE e.area # a
      <4>1. \A u \in Lines : /\ Live(line'[u], e.area) <=> Live(line[u], e.area)
                             /\ Live(line[u], e.area) => line'[u].ring = line[u].ring
        BY <1>3, <1>4, <3>1, <3>3 DEF Live
      <4> QED  BY <1>1, <2>2, <4>1, KnownKept
    <3> QED  BY <3>2, <3>3
  <2>3. \A u \in Lines : line[u].base \in Bases \cup {NoBase}
    BY <1>1 DEF TypeInv, LineType
  <2>4. \A u \in Lines : line'[u].base # NoBase =>
          line'[u].base = line[u].base /\ line'[u].buf = line[u].buf
    BY <1>3, <1>4
  <2> QED  BY <1>1, <2>1, <2>2, <2>3, <2>4, GoodInvKept
<1> QED  BY <1>5, <1>6, <1>7, <1>8 DEF OnceInv

-----------------------------------------------------------------------------
(* A message is filed *)

LEMMA RingGrows ==
  ASSUME NEW r \in Seq(Hash), NEW h \in Hash, Spaced(r), h \notin Recent(r)
  PROVE  Spaced(Append(r, h))
<1> DEFINE s == Append(r, h)
<1>1. MaxDupes \in Nat /\ Len(r) \in Nat /\ DOMAIN r = 1 .. Len(r)
  BY TossAssumption
<1>2. DOMAIN s = 1 .. Len(r) + 1 /\ s[Len(r) + 1] = h /\ \A i \in 1 .. Len(r) : s[i] = r[i]
  OBVIOUS
<1> HIDE DEF s
<1>3. SUFFICES ASSUME NEW p \in DOMAIN s, NEW q \in DOMAIN s, p < q, s[p] = s[q]
               PROVE  q - p > MaxDupes
  BY DEF Spaced, s
<1>4. p \in 1 .. Len(r) /\ s[p] = r[p]
  BY <1>1, <1>2, <1>3
<1>5. CASE q \in 1 .. Len(r)
  BY <1>1, <1>2, <1>3, <1>4, <1>5 DEF Spaced
<1>6. CASE q = Len(r) + 1
  <2>1. r[p] = h
    BY <1>2, <1>3, <1>4, <1>6
  <2>2. ~(p > Len(r) - MaxDupes)
    BY <1>1, <1>4, <2>1 DEF Recent
  <2> QED  BY <1>1, <1>4, <1>6, <2>2
<1> QED  BY <1>1, <1>2, <1>3, <1>5, <1>6

LEMMA NothingAppended == \A s \in Seq(Entry) : s \o <<>> = s
OBVIOUS

LEMMA AppendToEnd ==
  ASSUME NEW p \in Seq(Entry), NEW q \in Seq(Entry), NEW e \in Entry
  PROVE  p \o Append(q, e) = Append(p \o q, e)
OBVIOUS

LEMMA NotedKept ==
  ASSUME NEW e, NEW r \in Seq(Hash), NEW h \in Hash, Noted(e, r)
  PROVE  Noted(e, Append(r, h)) /\ e.n < Len(r) + 1
<1>1. e.n \in 1 .. Len(r) /\ r[e.n] = <<e.id, e.tag>>
  BY DEF Noted
<1>2. Append(r, h)[e.n] = r[e.n] /\ e.n \in DOMAIN Append(r, h)
  BY <1>1
<1> QED  BY <1>1, <1>2 DEF Noted

LEMMA GoodGrows ==
  ASSUME NEW s \in Seq(Entry), NEW e \in Entry, NEW b, NEW ln, NEW d, Good(s, b, ln, d),
         Of(e, b), Known(e, ln, d), \A i \in DOMAIN s : s[i].area = e.area => s[i].n < e.n
  PROVE  Good(Append(s, e), b, ln, d)
<1> DEFINE w == Append(s, e)
<1>1. /\ DOMAIN s = 1 .. Len(s) /\ DOMAIN w = 1 .. Len(s) + 1 /\ Len(s) \in Nat
      /\ w[Len(s) + 1] = e /\ \A i \in 1 .. Len(s) : w[i] = s[i]
  OBVIOUS
<1> HIDE DEF w
<1>2. ASSUME NEW i \in DOMAIN w PROVE Of(w[i], b) /\ Known(w[i], ln, d)
  <2>1. CASE i \in 1 .. Len(s)
    BY <1>1, <2>1 DEF Good
  <2>2. CASE i = Len(s) + 1
    BY <1>1, <2>2
  <2> QED  BY <1>1, <2>1, <2>2
<1>3. ASSUME NEW i \in DOMAIN w, NEW j \in DOMAIN w, i < j, w[i].area = w[j].area
      PROVE  w[i].n < w[j].n
  <2>1. i \in 1 .. Len(s) /\ w[i] = s[i]
    BY <1>1, <1>3
  <2>2. CASE j \in 1 .. Len(s)
    BY <1>1, <1>3, <2>1, <2>2 DEF Good
  <2>3. CASE j = Len(s) + 1
    BY <1>1, <1>3, <2>1, <2>3
  <2> QED  BY <1>1, <2>2, <2>3
<1> QED  BY <1>2, <1>3 DEF Good, w

\* What a line has and knows when it files a message: everything is as before, and the
\* new entry comes after all of its area.
LEMMA FileKeeps ==
  ASSUME OnceInv, NEW t \in Lines, NEW n, FileMessage(t), TypeInv',
         MsgHash(line[t]) \notin Recent(line[t].ring), line' = [line EXCEPT ![t] = n],
         n.at = "toss", n.areatag = line[t].areatag, n.base = line[t].base, n.lost = line[t].lost,
         n.ring = Append(line[t].ring, MsgHash(line[t])),
         \/ line[t].base = NoBase /\ n.buf = line[t].buf /\ stored' = stored
         \/ /\ line[t].base \in Squish /\ n.buf = line[t].buf
            /\ stored' = [stored EXCEPT ![line[t].base] = Append(@, MsgEntry(line[t]))]
         \/ /\ line[t].base \in Bases /\ n.buf = Append(line[t].buf, MsgEntry(line[t]))
            /\ stored' = stored
  PROVE  OnceInv'
<1> DEFINE l == line[t]
           e == MsgEntry(l)
           h == MsgHash(l)
           b == l.base
<1>1. /\ l \in LineType /\ LineInv(l) /\ TypeInv /\ stored \in [Bases -> Seq(Entry)]
      /\ l.at = "toss" /\ InPacket(t) /\ ~NewArea(t) /\ (Calm' => Calm) /\ dupes' = dupes
      /\ l.ring \in Seq(Hash) /\ l.buf \in Seq(Entry)
  BY CalmBefore DEF TypeInv, OnceInv, SharedType, FileMessage, Step, Tosses, LineType
<1>2. /\ Place(l) /\ l.areatag \in DOMAIN Base /\ b = Base[l.areatag] /\ e \in Entry /\ h \in Hash
  BY <1>1, MessageFiled
<1>3. e.area = l.areatag /\ e.n = Len(l.ring) + 1 /\ h = <<e.id, e.tag>> /\ Of(e, b)
  BY <1>2 DEF MsgEntry, MsgHash, Of
<1>4. \A u \in Lines : line'[u] = IF u = t THEN n ELSE line[u]
  BY <1>1 DEF TypeInv
<1>5. \A u \in Lines : line[u].base \in Bases \cup {NoBase}
  BY <1>1 DEF TypeInv, LineType
<1> HIDE DEF e, h
<1>6. HoldInv(line')
  <2>1. \A u \in Lines : \A c \in Bases : Has(line'[u], c) => Has(line[u], c)
    BY <1>4 DEF Has
  <2> QED  BY <2>1, HoldKept DEF OnceInv
<1>7. RecordInv(line', dupes')
  BY <1>1, <1>4 DEF RecordInv, OnceInv
<1>8. SpacedInv(line', dupes')
  <2>1. Spaced(n.ring)
    BY <1>1, <1>2, RingGrows DEF OnceInv, SpacedInv, h
  <2> QED  BY <1>1, <1>4, <2>1 DEF SpacedInv, OnceInv
<1>9. ASSUME Calm' PROVE GoodInv(stored', line', dupes')
  <2>1. GoodInv(stored, line, dupes)
    BY <1>1, <1>9 DEF OnceInv
  <2>2. \A u \in Lines : \A a : Live(line'[u], a) <=> Live(line[u], a)
    BY <1>1, <1>4 DEF Live, Place
  <2>3. ASSUME NEW x, Known(x, line, dupes) PROVE Known(x, line', dupes')
    <3>1. ASSUME NEW u \in Lines, Live(line'[u], x.area) PROVE Noted(x, line'[u].ring)
      <4>1. Noted(x, line[u].ring)
        BY <2>2, <2>3, <3>1 DEF Known
      <4>2. CASE u = t
        BY <1>1, <1>2, <1>4, <4>1, <4>2, NotedKept DEF h
      <4>3. CASE u # t
        BY <1>4, <4>1, <4>3
      <4> QED  BY <4>2, <4>3
    <3> QED  BY <1>1, <2>2, <2>3, <3>1 DEF Known
  <2>4. CASE b = NoBase
    <3>1. stored' = stored /\ n.buf = l.buf
      BY <2>4, Constants
    <3>2. \A u \in Lines : line'[u].base # NoBase =>
            line'[u].base = line[u].base /\ line'[u].buf = line[u].buf
      BY <1>4, <3>1
    <3> QED  BY <1>5, <2>1, <2>3, <3>1, <3>2, GoodInvKept
  <2>5. CASE b \in Bases
    <3> DEFINE w == stored[b] \o l.buf
    <3>1. b # NoBase /\ stored[b] \in Seq(Entry) /\ w \in Seq(Entry)
      BY <1>1, <2>5, Constants
    <3>2. Known(e, line', dupes')
      <4>1. \A u \in Lines : Live(line'[u], e.area) => u = t
        <5> SUFFICES ASSUME NEW u \in Lines, Live(line'[u], e.area) PROVE u = t
          OBVIOUS
        <5>1. Place(line[u]) /\ Base[line[u].areatag] = line[t].base
          BY <1>2, <1>3, <2>2 DEF Live
        <5>2. HoldInv(line)
          BY DEF OnceInv
        <5> QED  BY <1>1, <2>5, <5>1, <5>2, OnlyHolder
      <4>2. Live(line'[t], e.area)
        BY <1>2, <1>3, <2>2 DEF Live
      <4>3. Noted(e, n.ring)
        <5>1. n.ring = Append(l.ring, h) /\ Len(l.ring) \in Nat
          BY <1>1 DEF h
        <5>2. Len(l.ring) + 1 \in DOMAIN n.ring /\ n.ring[Len(l.ring) + 1] = h
          BY <1>1, <1>2, <5>1
        <5> QED  BY <1>3, <5>2 DEF Noted
      <4> QED  BY <1>4, <4>1, <4>2, <4>3 DEF Known
    <3>3. Good(w, b, line, dupes) /\ Good(stored[b], b, line, dupes)
      BY <2>1, <2>5, <3>1 DEF GoodInv
    <3>4. Good(w, b, line', dupes') /\ Good(stored[b], b, line', dupes')
      BY <2>3, <3>3, GoodKept
    <3>5. ASSUME NEW s, Good(s, b, line, dupes), NEW i \in DOMAIN s, s[i].area = e.area
          PROVE  s[i].n < e.n
      <4>1. Known(s[i], line, dupes) /\ Live(line[t], s[i].area)
        BY <1>2, <1>3, <3>5 DEF Good, Live
      <4>2. Noted(s[i], l.ring)
        BY <4>1 DEF Known
      <4> QED  BY <1>1, <1>2, <1>3, <4>2, NotedKept
    <3>6. Good(Append(w, e), b, line', dupes') /\ Good(Append(stored[b], e), b, line', dupes')
      BY <1>2, <1>3, <3>1, <3>2, <3>3, <3>4, <3>5, GoodGrows
    <3>7. ASSUME NEW u \in Lines, u # t, line'[u].base # NoBase
          PROVE  /\ line'[u] = line[u] /\ line[u].base # b
                 /\ Good(stored[line'[u].base] \o line'[u].buf, line'[u].base, line', dupes')
      <4>1. line'[u] = line[u] /\ line[u].base # b
        BY <1>1, <1>4, <2>5, <3>7, OnlyHolder DEF OnceInv
      <4>2. Good(stored[line[u].base] \o line[u].buf, line[u].base, line, dupes)
        BY <2>1, <3>7, <4>1 DEF GoodInv
      <4> QED  BY <2>3, <4>1, <4>2, GoodKept
    <3>8. \A c \in Bases : Good(stored[c], c, line', dupes')
      BY <2>1, <2>3, GoodKept DEF GoodInv
    <3>9. CASE stored' = stored /\ n.buf = Append(l.buf, e)
      <4>1. stored[b] \o n.buf = Append(w, e)
        <5>1. /\ stored[b] \in Seq(Entry) /\ l.buf \in Seq(Entry) /\ e \in Entry
              /\ n.buf = Append(l.buf, e)
          BY <1>1, <1>2, <3>1, <3>9
        <5> HIDE DEF l, b
        <5> QED  BY <5>1, AppendToEnd
      <4>2. ASSUME NEW u \in Lines, line'[u].base # NoBase
            PROVE  Good(stored'[line'[u].base] \o line'[u].buf, line'[u].base, line', dupes')
        <5>1. CASE u = t
          BY <1>4, <3>6, <3>9, <4>1, <5>1
        <5> QED  BY <3>7, <3>9, <4>2, <5>1
      <4> QED  BY <3>8, <3>9, <4>2 DEF GoodInv
    <3>10. CASE /\ b \in Squish /\ n.buf = l.buf
                /\ stored' = [stored EXCEPT ![b] = Append(stored[b], e)]
      <4>1. n.buf = <<>>
        BY <1>1, <3>10 DEF LineInv, Kept
      <4>2. \A c \in Bases : stored'[c] = IF c = b THEN Append(stored[b], e) ELSE stored[c]
        BY <1>1, <2>5, <3>10
      <4>3. stored'[b] \o n.buf = Append(stored[b], e)
        <5>1. Append(stored[b], e) \in Seq(Entry)
          BY <1>2, <3>1
        <5>2. stored'[b] = Append(stored[b], e)
          BY <2>5, <4>2
        <5> HIDE DEF l, b
        <5> QED  BY <4>1, <5>1, <5>2, NothingAppended
      <4>4. \A c \in Bases : Good(stored'[c], c, line', dupes')
        BY <3>6, <3>8, <4>2
      <4>5. ASSUME NEW u \in Lines, line'[u].base # NoBase
            PROVE  Good(stored'[line'[u].base] \o line'[u].buf, line'[u].base, line', dupes')
        <5>1. CASE u = t
          <6>1. line'[u] = n /\ n.base = b
            BY <1>4, <5>1
          <6> QED  BY <3>6, <4>3, <6>1
        <5>2. CASE u # t
          <6>1. line'[u] = line[u] /\ line[u].base # b /\ line[u].base \in Bases
            BY <1>5, <3>7, <4>5, <5>2
          <6>2. stored'[line'[u].base] = stored[line'[u].base]
            BY <4>2, <6>1
          <6> QED  BY <3>7, <4>5, <5>2, <6>2
        <5> QED  BY <5>1, <5>2
      <4> QED  BY <4>4, <4>5 DEF GoodInv
    <3> QED  BY <3>1, <3>9, <3>10, Constants DEF e
  <2> QED  BY <1>5, <2>4, <2>5
<1> QED  BY <1>6, <1>7, <1>8, <1>9 DEF OnceInv

LEMMA FileMessageKeeps ==
  ASSUME OnceInv, NEW t \in Lines, FileMessage(t), TypeInv'
  PROVE  OnceInv'
<1> DEFINE l == line[t]
           n == [l EXCEPT !.pos = l.pos + 1, !.ring = Append(l.ring, MsgHash(l))]
           m == [n EXCEPT !.buf = Append(l.buf, MsgEntry(l))]
<1>1. l \in LineType /\ l.at = "toss" /\ dupes' = dupes /\ (Calm' => Calm)
  BY CalmBefore DEF FileMessage, OnceInv, TypeInv, Step, Tosses
<1>2. /\ n.at = "toss" /\ n.areatag = l.areatag /\ n.base = l.base /\ n.lost = l.lost
      /\ n.buf = l.buf /\ n.ring = Append(l.ring, MsgHash(l))
  BY <1>1 DEF LineType
<1>3. /\ m.at = "toss" /\ m.areatag = l.areatag /\ m.base = l.base /\ m.lost = l.lost
      /\ m.buf = Append(l.buf, MsgEntry(l)) /\ m.ring = Append(l.ring, MsgHash(l))
  BY <1>1 DEF LineType
<1> HIDE DEF n, m
<1>4. CASE UNCHANGED stored /\ line' = [line EXCEPT ![t] = [l EXCEPT !.pos = l.pos + 1]]
  <2> DEFINE k == [l EXCEPT !.pos = l.pos + 1]
  <2>1. /\ k.at = "toss" /\ k.areatag = l.areatag /\ k.base = l.base /\ k.lost = l.lost
        /\ k.buf = l.buf /\ k.ring = l.ring
    BY <1>1 DEF LineType
  <2>2. line' = [line EXCEPT ![t] = k]
    BY <1>4
  <2> HIDE DEF k
  <2>3. Quiet(t, k)
    BY <1>1, <1>4, <2>1, <2>2 DEF Quiet, Place
  <2> QED  BY <2>3, QuietKeeps
<1>5. CASE /\ MsgHash(l) \notin Recent(l.ring) /\ line' = [line EXCEPT ![t] = n]
           /\ \/ l.base = NoBase /\ UNCHANGED stored
              \/ /\ l.base \in Squish
                 /\ stored' = [stored EXCEPT ![l.base] = Append(@, MsgEntry(l))]
  BY <1>2, <1>5, FileKeeps
<1>6. CASE /\ MsgHash(l) \notin Recent(l.ring) /\ line' = [line EXCEPT ![t] = m]
           /\ l.base \in Bases /\ UNCHANGED stored
  BY <1>3, <1>6, FileKeeps
<1> QED  BY <1>4, <1>5, <1>6, FileMessageIs DEF OnceInv, n, m

\* Where process_packet() gives up or the process dies, only what holds at any time is
\* left to keep.
LEMMA FailureKeeps ==
  ASSUME OnceInv, NEW t \in Lines, CannotSave(t) \/ Crash(t), TypeInv'
  PROVE  OnceInv'
<1> DEFINE l == line[t]
<1>1. l \in LineType /\ LineInv(l) /\ TypeInv /\ ~Calm' /\ dupes' = dupes
  BY AfterFailure DEF TypeInv, OnceInv, CannotSave, Crash
<1>2. PICK n : /\ line' = [line EXCEPT ![t] = n] /\ n.at \in {"close", "idle"}
               /\ n.ring \in {l.ring, <<>>}
               /\ \A b \in Bases : Has(n, b) => Has(l, b)
  <2>1. CASE Crash(t)
    <3>1. Start0.at = "idle" /\ Start0.ring = <<>> /\ \A b \in Bases : ~Has(Start0, b)
      BY Constants DEF Start0, Has
    <3> QED  BY <2>1, <3>1 DEF Crash
  <2>2. CASE CannotSave(t) /\ l.base \in Squish \cup {NoBase}
    <3> DEFINE n == [l EXCEPT !.at = "close", !.ok = FALSE]
    <3>1. n.at = "close" /\ n.ring = l.ring /\ n.base = l.base /\ n.lost = l.lost
      BY <1>1 DEF LineType
    <3>2. line' = [line EXCEPT ![t] = n]
      BY <2>2 DEF CannotSave
    <3> HIDE DEF n
    <3> QED  BY <3>1, <3>2 DEF Has
  <2>3. CASE CannotSave(t) /\ l.base \notin Squish \cup {NoBase}
    <3> DEFINE n == [l EXCEPT !.at = "close", !.ok = FALSE, !.base = NoBase, !.buf = <<>>,
                              !.lost = l.lost \cup {l.base}]
    <3>1. n.at = "close" /\ n.ring = l.ring /\ n.base = NoBase /\ n.lost = l.lost \cup {l.base}
      BY <1>1 DEF LineType
    <3>2. line' = [line EXCEPT ![t] = n]
      BY <2>3 DEF CannotSave
    <3> HIDE DEF n
    <3> QED  BY <3>1, <3>2, Constants DEF Has
  <2> QED  BY <2>1, <2>2, <2>3
<1>3. \A u \in Lines : line'[u] = IF u = t THEN n ELSE line[u]
  BY <1>1, <1>2 DEF TypeInv
<1>4. HoldInv(line')
  <2>1. \A u \in Lines : \A b \in Bases : Has(line'[u], b) => Has(line[u], b)
    BY <1>2, <1>3
  <2> QED  BY <2>1, HoldKept DEF OnceInv
<1>5. RecordInv(line', dupes')
  BY <1>1, <1>2, <1>3 DEF RecordInv, OnceInv
<1>6. SpacedInv(line', dupes')
  BY <1>1, <1>2, <1>3, NothingSpaced DEF SpacedInv, OnceInv
<1> QED  BY <1>1, <1>4, <1>5, <1>6 DEF OnceInv

-----------------------------------------------------------------------------
LEMMA InitOnce == Init => OnceInv
<1> SUFFICES ASSUME Init PROVE OnceInv
  OBVIOUS
<1>1. TypeInv
  BY InitTypes
<1>2. \A t \in Lines : /\ line[t].at = "idle" /\ line[t].base = NoBase /\ line[t].lost = {}
                       /\ line[t].ring = <<>>
  BY DEF Init, Start0
<1>3. HoldInv(line) /\ RecordInv(line, dupes)
  BY <1>2, Constants DEF HoldInv, Has, RecordInv, Place
<1>4. SpacedInv(line, dupes)
  BY <1>2, NothingSpaced DEF SpacedInv, Init
<1>5. GoodInv(stored, line, dupes)
  <2>1. \A b \in Bases : stored[b] = <<>>
    BY DEF Init
  <2>2. \A b : Good(<<>>, b, line, dupes)
    BY DEF Good
  <2> QED  BY <1>2, <2>1, <2>2 DEF GoodInv
<1> QED  BY <1>1, <1>3, <1>4, <1>5 DEF OnceInv

LEMMA StepOnce ==
  ASSUME OnceInv, [Next]_vars
  PROVE  OnceInv'
<1>1. TypeInv'
  BY StepTypes DEF OnceInv
<1>2. CASE UNCHANGED vars
  BY <1>1, <1>2 DEF vars, OnceInv, Calm
<1>3. ASSUME NEW t \in Lines, Begin(t) \/ Step(t) \/ CannotSave(t) \/ Crash(t)
      PROVE  OnceInv'
  <2>1. CASE Begin(t) \/ Unpack(t)
    BY <1>1, <2>1, UnpackQuiet, QuietKeeps DEF OnceInv
  <2>2. CASE Pick(t) \/ Number(t) \/ Rename(t) \/ Open(t) \/ CannotOpen(t) \/ ClosePacket(t) \/ Unlink(t)
    BY <1>1, <2>2, OutsideQuiet, QuietKeeps DEF OnceInv
  <2>3. CASE BadArea(t)
    BY <1>1, <2>3, BadAreaQuiet, QuietKeeps DEF OnceInv
  <2>4. CASE LeaveArea(t) \/ EndPacket(t)
    BY <1>1, <2>4, WriteKeeps
  <2>5. CASE CloseBase(t) \/ Flush(t)
    BY <1>1, <2>5, CloseBaseKeeps, FlushKeeps
  <2>6. CASE OpenBase(t) \/ ReadDupes(t) \/ FileMessage(t)
    BY <1>1, <2>6, OpenBaseKeeps, ReadDupesKeeps, FileMessageKeeps
  <2>7. CASE CannotSave(t) \/ Crash(t)
    BY <1>1, <2>7, FailureKeeps
  <2> QED  BY <1>3, <2>1, <2>2, <2>3, <2>4, <2>5, <2>6, <2>7 DEF Step, Tosses
<1> QED  BY <1>2, <1>3 DEF Next

\* Two entries of one message are in one ring, which has their hash twice.
LEMMA OnceFollows == OnceInv => TossedOnce
<1> SUFFICES ASSUME OnceInv, Calm, NEW b \in Bases,
                    NEW i \in DOMAIN stored[b], NEW j \in DOMAIN stored[b], i < j,
                    stored[b][i].id = stored[b][j].id, stored[b][i].area = stored[b][j].area,
                    stored[b][i].tag = stored[b][i].area, stored[b][j].tag = stored[b][j].area
             PROVE  stored[b][j].n - stored[b][i].n > MaxDupes
  BY DEF TossedOnce
<1> DEFINE e == stored[b][i]
           f == stored[b][j]
<1>1. Good(stored[b], b, line, dupes)
  BY DEF OnceInv, GoodInv
<1>2. /\ Known(e, line, dupes) /\ Known(f, line, dupes) /\ e.n < f.n
      /\ e.area \in DOMAIN Base
  BY <1>1 DEF Good, Of
<1>3. PICK r : Noted(e, r) /\ Noted(f, r) /\ Spaced(r)
  <2>1. CASE \E t \in Lines : Live(line[t], e.area)
    <3>1. PICK t \in Lines : Live(line[t], e.area)
      BY <2>1
    <3>2. Noted(e, line[t].ring) /\ Noted(f, line[t].ring) /\ Spaced(line[t].ring)
      BY <1>2, <3>1 DEF Known, OnceInv, SpacedInv
    <3> QED  BY <3>2
  <2>2. CASE \A t \in Lines : ~Live(line[t], e.area)
    BY <1>2, <2>2 DEF Known, OnceInv, SpacedInv
  <2> QED  BY <2>1, <2>2
<1>4. r[e.n] = r[f.n] /\ e.n \in DOMAIN r /\ f.n \in DOMAIN r
  BY <1>3 DEF Noted
<1> QED  BY <1>2, <1>3, <1>4 DEF Spaced

\* As long as nothing fails and no process dies, the base of an area gets each message
\* once, unless MAXDUPES others have come in between or it follows one of an unknown
\* area, whatever lines toss whatever packets.
THEOREM TossedOnceHolds == Spec => []TossedOnce
<1>1. OnceInv /\ [Next]_vars => OnceInv'
  BY StepOnce
<1> QED  BY <1>1, InitOnce, OnceFollows, PTL DEF Spec

-----------------------------------------------------------------------------
(* The invariant behind NothingLost: what DUPES.DAT or a ring says has been *)
(* filed, and the messages of a packet up to where it has been read, have   *)
(* been or are in a buffer.                                                 *)

HasBase(a)    == a \in DOMAIN Base /\ Base[a] \in Bases
Done(i, a, st, c) ==
  \/ [id |-> i, area |-> a] \in c
  \/ \E k \in DOMAIN st[Base[a]] : st[Base[a]][k].id = i /\ st[Base[a]][k].area = a
InBuf(l, i, a, p) == \E k \in DOMAIN l.buf : l.buf[k].id = i /\ l.buf[k].area = a /\ l.buf[k].n = p
Buffered(l, i, a) == \E k \in DOMAIN l.buf : l.buf[k].id = i /\ l.buf[k].area = a

DupesKept(d, ln, st, c) ==
  \A a \in DOMAIN Base : HasBase(a) =>
    \A p \in DOMAIN d[a] :
      Done(d[a][p][1], a, st, c) \/ \E u \in Lines : InBuf(ln[u], d[a][p][1], a, p)

RingKept(l, st, c) ==
  Place(l) /\ HasBase(l.areatag) =>
    \A p \in DOMAIN l.ring :
      Done(l.ring[p][1], l.areatag, st, c) \/ InBuf(l, l.ring[p][1], l.areatag, p)

AtMessages == {"toss", "area", "wait", "read"}
Processing(l) ==
  l.at \in AtMessages \cup {"flush", "unlink"} \/ (l.at = "close" /\ l.ok)
SoFar(l, st, c) ==
  Processing(l) =>
    /\ l.at \notin AtMessages => l.pkt \in Packets /\ l.pos > Len(Content[l.pkt])
    /\ \A i \in DOMAIN Content[l.pkt] :
         i < l.pos /\ HasBase(Content[l.pkt][i].area) =>
           \/ Done(Content[l.pkt][i].id, Content[l.pkt][i].area, st, c)
           \/ Buffered(l, Content[l.pkt][i].id, Content[l.pkt][i].area)

KeptInv ==
  /\ DupesKept(dupes, line, stored, env.cut)
  /\ \A t \in Lines : RingKept(line[t], stored, env.cut) /\ SoFar(line[t], stored, env.cut)

\* Bases and what has been cut only grow.
Grew ==
  /\ \A b \in Bases : \A i \in DOMAIN stored[b] :
       i \in DOMAIN stored'[b] /\ stored'[b][i] = stored[b][i]
  /\ env.cut \subseteq env'.cut

LEMMA DoneGrows ==
  ASSUME Grew, NEW i, NEW a, HasBase(a), Done(i, a, stored, env.cut)
  PROVE  Done(i, a, stored', env'.cut)
BY DEF Grew, Done, HasBase

\* What a step of t has to show: nothing that DUPES.DAT refers to leaves its buffers
\* unwritten, and its own ring and packet are accounted for.
LEMMA KeptFollows ==
  ASSUME TypeInv, KeptInv, Grew, NEW t \in Lines, NEW n, line' = [line EXCEPT ![t] = n],
         \A a \in DOMAIN Base :
           dupes'[a] = dupes[a] \/ (Place(n) /\ n.areatag = a /\ dupes'[a] = n.ring),
         \A i : \A a : \A p \in DOMAIN dupes[a] :
           HasBase(a) /\ InBuf(line[t], i, a, p) => InBuf(n, i, a, p) \/ Done(i, a, stored', env'.cut),
         RingKept(n, stored', env'.cut), SoFar(n, stored', env'.cut)
  PROVE  KeptInv'
<1>1. \A u \in Lines : line'[u] = IF u = t THEN n ELSE line[u]
  BY DEF TypeInv
<1>2. DupesKept(dupes', line', stored', env'.cut)
  <2> SUFFICES ASSUME NEW a \in DOMAIN Base, HasBase(a), NEW p \in DOMAIN dupes'[a]
               PROVE  \/ Done(dupes'[a][p][1], a, stored', env'.cut)
                      \/ \E u \in Lines : InBuf(line'[u], dupes'[a][p][1], a, p)
    BY DEF DupesKept
  <2>0. CASE Place(n) /\ n.areatag = a /\ dupes'[a] = n.ring
    BY <1>1, <2>0 DEF RingKept
  <2>1. CASE dupes'[a] = dupes[a] /\ Done(dupes[a][p][1], a, stored, env.cut)
    BY <2>1, DoneGrows
  <2>2. CASE dupes'[a] = dupes[a] /\ \E u \in Lines : InBuf(line[u], dupes[a][p][1], a, p)
    <3>1. PICK u \in Lines : InBuf(line[u], dupes[a][p][1], a, p)
      BY <2>2
    <3>2. CASE u = t
      BY <1>1, <2>2, <3>1, <3>2
    <3>3. CASE u # t
      BY <1>1, <2>2, <3>1, <3>3
    <3> QED  BY <3>2, <3>3
  <2> QED  BY <2>0, <2>1, <2>2 DEF KeptInv, DupesKept
<1>3. ASSUME NEW u \in Lines
      PROVE  RingKept(line'[u], stored', env'.cut) /\ SoFar(line'[u], stored', env'.cut)
  <2>1. CASE u = t
    BY <1>1, <2>1
  <2>2. CASE u # t
    <3>1. line'[u] = line[u] /\ RingKept(line[u], stored, env.cut) /\ SoFar(line[u], stored, env.cut)
      BY <1>1, <2>2 DEF KeptInv
    <3>2. RingKept(line[u], stored', env'.cut)
      BY <3>1, DoneGrows DEF RingKept
    <3>3. SoFar(line[u], stored', env'.cut)
      BY <3>1, DoneGrows DEF SoFar
    <3> QED  BY <3>1, <3>2, <3>3
  <2> QED  BY <2>1, <2>2
<1> QED  BY <1>2, <1>3 DEF KeptInv

-----------------------------------------------------------------------------
(* Bases grow *)

LEMMA SameGrew ==
  ASSUME stored' = stored, env.cut \subseteq env'.cut
  PROVE  Grew
BY DEF Grew

LEMMA ConcatIs ==
  ASSUME NEW p \in Seq(Entry), NEW q \in Seq(Entry)
  PROVE  /\ DOMAIN (p \o q) = 1 .. Len(p) + Len(q) /\ Len(p) \in Nat /\ Len(q) \in Nat
         /\ \A k \in 1 .. Len(p) + Len(q) :
              (p \o q)[k] = IF k <= Len(p) THEN p[k] ELSE q[k - Len(p)]
<1>1. p \o q \in Seq(Entry) /\ Len(p \o q) = Len(p) + Len(q)
  OBVIOUS
<1>2. \A k \in 1 .. Len(p) + Len(q) :
        (p \o q)[k] = IF k <= Len(p) THEN p[k] ELSE q[k - Len(p)]
  OBVIOUS
<1> QED  BY <1>1, <1>2

\* What Written() adds is after what is there.
LEMMA WrittenGrew ==
  ASSUME TypeInv, NEW t \in Lines, NEW buf \in Seq(Entry), stored' = Written(t, buf),
         env.cut \subseteq env'.cut
  PROVE  /\ Grew
         /\ line[t].base \in Bases => \A k \in DOMAIN buf :
              \E j \in DOMAIN stored'[line[t].base] : stored'[line[t].base][j] = buf[k]
<1> DEFINE c == line[t].base
<1>1. c \in Bases \cup {NoBase} /\ stored \in [Bases -> Seq(Entry)]
  BY DEF TypeInv, LineType, SharedType
<1>2. CASE c = NoBase
  BY <1>2, SameGrew, Constants DEF Written
<1>3. CASE c \in Bases
  <2>1. \A b \in Bases : stored'[b] = IF b = c THEN stored[c] \o buf ELSE stored[b]
    BY <1>1, <1>3, Constants DEF Written
  <2>2. stored[c] \in Seq(Entry)
    BY <1>1, <1>3
  <2>3. \A i \in DOMAIN stored[c] :
          i \in DOMAIN (stored[c] \o buf) /\ (stored[c] \o buf)[i] = stored[c][i]
    BY <2>2
  <2>4. ASSUME NEW k \in DOMAIN buf
        PROVE  \E j \in DOMAIN (stored[c] \o buf) : (stored[c] \o buf)[j] = buf[k]
    <3>1. k \in 1 .. Len(buf) /\ Len(buf) \in Nat /\ Len(stored[c]) \in Nat
      BY <2>2
    <3> DEFINE j == Len(stored[c]) + k
    <3>2. j \in 1 .. Len(stored[c]) + Len(buf) /\ ~(j <= Len(stored[c])) /\ j - Len(stored[c]) = k
      <4>1. ASSUME NEW x \in Nat, NEW y \in Nat, NEW z \in 1 .. y
            PROVE  x + z \in 1 .. x + y /\ ~(x + z <= x) /\ (x + z) - x = z
        BY <4>1
      <4> QED  BY <3>1, <4>1
    <3>3. j \in DOMAIN (stored[c] \o buf) /\ (stored[c] \o buf)[j] = buf[k]
      BY <2>2, <3>2, ConcatIs
    <3> QED  BY <3>2, <3>3
  <2> QED  BY <1>3, <2>1, <2>3, <2>4 DEF Grew
<1> QED  BY <1>1, <1>2, <1>3

LEMMA StepGrew ==
  ASSUME TypeInv, NEW t \in Lines, Begin(t) \/ Step(t) \/ CannotSave(t) \/ Crash(t)
  PROVE  Grew
<1> DEFINE l == line[t]
<1>1. env.cut \subseteq env'.cut
  <2>1. CASE Begin(t) \/ Step(t)
    BY <2>1, CalmBefore
  <2>2. CASE CannotSave(t) \/ Crash(t)
    <3>1. env \in EnvType
      BY DEF TypeInv, SharedType
    <3>2. PICK f, c, r : env' = [env EXCEPT !.failures = f, !.crashes = c, !.cut = @ \cup r]
      <4>1. CASE CannotSave(t)
        <5>1. env' = [env EXCEPT !.failures = env.failures - 1, !.crashes = env.crashes,
                                 !.cut = @ \cup Recorded(l.buf)]
          BY <3>1, <4>1 DEF CannotSave, EnvType
        <5> QED  BY <5>1
      <4>2. CASE Crash(t)
        <5>1. PICK k \in 0 .. Len(l.buf) :
                env' = [env EXCEPT !.crashes = env.crashes - 1,
                                   !.cut = @ \cup Recorded(SubSeq(l.buf, k + 1, Len(l.buf)))]
          BY <4>2 DEF Crash
        <5>2. env' = [env EXCEPT !.failures = env.failures, !.crashes = env.crashes - 1,
                                 !.cut = @ \cup Recorded(SubSeq(l.buf, k + 1, Len(l.buf)))]
          BY <3>1, <5>1 DEF EnvType
        <5> QED  BY <5>2
      <4> QED  BY <2>2, <4>1, <4>2
    <3> QED  BY <3>1, <3>2 DEF EnvType
  <2> QED  BY <2>1, <2>2
<1>2. CASE UNCHANGED stored
  BY <1>1, <1>2, SameGrew
<1>3. CASE \E buf \in Seq(Entry) : stored' = Written(t, buf)
  BY <1>1, <1>3, WrittenGrew
<1>4. CASE FileMessage(t)
  <2>1. CASE stored' = [stored EXCEPT ![l.base] = Append(@, MsgEntry(l))] /\ l.base \in Squish
    <3>1. l.base \in Bases /\ stored \in [Bases -> Seq(Entry)] /\ MsgEntry(l) \in Entry
      BY <1>4, <2>1, Constants, MessageFiled, FileMessageIs DEF TypeInv, SharedType
    <3>2. \A b \in Bases : stored'[b] = IF b = l.base THEN Append(stored[b], MsgEntry(l)) ELSE stored[b]
      BY <2>1, <3>1
    <3>3. stored[l.base] \in Seq(Entry)
      BY <3>1
    <3>4. \A i \in DOMAIN stored[l.base] :
            /\ i \in DOMAIN Append(stored[l.base], MsgEntry(l))
            /\ Append(stored[l.base], MsgEntry(l))[i] = stored[l.base][i]
      BY <3>1, <3>3
    <3> QED  BY <1>1, <3>2, <3>4 DEF Grew
  <2> QED  BY <1>2, <1>4, <2>1, FileMessageIs
<1>5. \/ UNCHANGED stored
      \/ \E buf \in Seq(Entry) : stored' = Written(t, buf)
      \/ FileMessage(t)
  <2>1. l.buf \in Seq(Entry) /\ \A k \in 0 .. Len(l.buf) : SubSeq(l.buf, 1, k) \in Seq(Entry)
    <3>1. l.buf \in Seq(Entry)
      BY DEF TypeInv, LineType
    <3> QED  BY <3>1
  <2>2. CASE Begin(t) \/ CannotSave(t)
    BY <2>2 DEF Begin, CannotSave
  <2>3. CASE Crash(t)
    BY <2>1, <2>3 DEF Crash
  <2>4. CASE Unpack(t)
    BY <2>4 DEF Unpack, SkipBundle, Identify, Spawn, Unarchive, DeleteBundle, RenameBundle, UnpackDone
  <2>5. CASE Tosses(t)
    BY <2>1, <2>5 DEF Tosses, Pick, Number, Rename, Open, CannotOpen, LeaveArea, BadArea, CloseBase,
       OpenBase, ReadDupes, EndPacket, Flush, ClosePacket, Unlink
  <2> QED  BY <2>2, <2>3, <2>4, <2>5 DEF Step
<1> QED  BY <1>2, <1>3, <1>4, <1>5

-----------------------------------------------------------------------------
(* Outside packets *)

Out == {"idle", "unpack", "found", "spawn", "delete", "renaming", "scan", "number", "rename", "open"}

LEMMA OutsideMoves ==
  ASSUME TypeInv, NEW t \in Lines,
         \/ Begin(t) \/ Unpack(t) \/ Pick(t) \/ Number(t) \/ Rename(t) \/ CannotOpen(t) \/ Unlink(t)
         \/ ClosePacket(t) /\ ~line[t].ok
  PROVE  /\ dupes' = dupes /\ line[t].buf = <<>>
         /\ \E n : /\ line' = [line EXCEPT ![t] = n] /\ n.at \in Out
                   /\ n.at = "delete" => Unarchive(t) /\ n.pkt = line[t].pkt
<1> DEFINE l == line[t]
<1>1. l \in LineType /\ LineInv(l)
  BY DEF TypeInv
<1>2. ASSUME NEW at \in Out, Goes(t, at), at = "delete" => Unarchive(t)
      PROVE  \E n : /\ line' = [line EXCEPT ![t] = n] /\ n.at \in Out
                    /\ n.at = "delete" => Unarchive(t) /\ n.pkt = line[t].pkt
  <2> DEFINE n == [l EXCEPT !.at = at]
  <2>1. n.at = at /\ n.pkt = l.pkt /\ line' = [line EXCEPT ![t] = n]
    BY <1>1, <1>2 DEF LineType, Goes
  <2> HIDE DEF n
  <2> QED  BY <1>2, <2>1
<1>3. ASSUME line' = [line EXCEPT ![t] = [Start0 EXCEPT !.lost = l.lost]]
      PROVE  \E n : /\ line' = [line EXCEPT ![t] = n] /\ n.at \in Out
                    /\ n.at = "delete" => Unarchive(t) /\ n.pkt = line[t].pkt
  <2> DEFINE n == [Start0 EXCEPT !.lost = l.lost]
  <2>1. n.at = "idle"
    BY DEF Start0
  <2> HIDE DEF n
  <2> QED  BY <1>3, <2>1 DEF Out, n
<1>4. CASE Begin(t)
  <2> DEFINE n == [l EXCEPT !.at = "unpack", !.todo = bundles]
  <2>1. n.at = "unpack" /\ line' = [line EXCEPT ![t] = n] /\ dupes' = dupes /\ l.at = "idle"
    BY <1>1, <1>4 DEF LineType, Begin
  <2> HIDE DEF n
  <2> QED  BY <1>1, <2>1 DEF LineInv, Out
<1>5. CASE SkipBundle(t)
  <2>1. PICK b : line' = [line EXCEPT ![t] = [l EXCEPT !.todo = l.todo \ {b}]]
    BY <1>5 DEF SkipBundle
  <2> DEFINE n == [l EXCEPT !.todo = l.todo \ {b}]
  <2>2. n.at = "unpack" /\ dupes' = dupes /\ l.at = "unpack"
    BY <1>1, <1>5 DEF LineType, SkipBundle
  <2> HIDE DEF n
  <2> QED  BY <1>1, <2>1, <2>2 DEF LineInv, Out, n
<1>6. CASE Identify(t)
  <2>1. PICK b : line' = [line EXCEPT ![t] =
                            [l EXCEPT !.at = "found", !.pkt = b, !.todo = l.todo \ {b}]]
    BY <1>6 DEF Identify
  <2> DEFINE n == [l EXCEPT !.at = "found", !.pkt = b, !.todo = l.todo \ {b}]
  <2>2. n.at = "found" /\ dupes' = dupes /\ l.at = "unpack"
    BY <1>1, <1>6 DEF LineType, Identify
  <2> HIDE DEF n
  <2> QED  BY <1>1, <2>1, <2>2 DEF LineInv, Out, n
<1>7. CASE Spawn(t) \/ Unarchive(t) \/ DeleteBundle(t) \/ RenameBundle(t) \/ UnpackDone(t)
  <2>1. PICK at \in Out : Goes(t, at) /\ (at = "delete" => Unarchive(t))
    BY <1>7 DEF Spawn, Unarchive, DeleteBundle, RenameBundle, UnpackDone, Out
  <2>2. dupes' = dupes /\ l.at \in {"found", "spawn", "delete", "renaming", "unpack"}
    BY <1>7 DEF Spawn, Unarchive, DeleteBundle, RenameBundle, UnpackDone
  <2> QED  BY <1>1, <1>2, <2>1, <2>2 DEF LineInv
<1>8. CASE Pick(t)
  <2>1. dupes' = dupes /\ l.at = "scan"
    BY <1>8 DEF Pick
  <2>2. l.buf = <<>>
    BY <1>1, <2>1 DEF LineInv
  <2>3. CASE \E p : line' = [line EXCEPT ![t].at = "number", ![t].pkt = p]
    <3>1. PICK p : line' = [line EXCEPT ![t] = [l EXCEPT !.at = "number", !.pkt = p]]
      BY <2>3
    <3> DEFINE n == [l EXCEPT !.at = "number", !.pkt = p]
    <3>2. n.at = "number"
      BY <1>1 DEF LineType
    <3> HIDE DEF n
    <3> QED  BY <2>1, <2>2, <3>1, <3>2 DEF Out, n
  <2> QED  BY <1>3, <1>8, <2>1, <2>2, <2>3 DEF Pick
<1>9. CASE Number(t)
  <2>1. PICK k : line' = [line EXCEPT ![t] = [l EXCEPT !.at = "rename", !.num = k]]
    BY <1>9 DEF Number
  <2> DEFINE n == [l EXCEPT !.at = "rename", !.num = k]
  <2>2. n.at = "rename" /\ dupes' = dupes /\ l.at = "number"
    BY <1>1, <1>9 DEF LineType, Number
  <2> HIDE DEF n
  <2> QED  BY <1>1, <2>1, <2>2 DEF LineInv, Out, n
<1>10. CASE Rename(t) \/ CannotOpen(t) \/ Unlink(t)
  <2>1. PICK at \in {"open", "scan"} : Goes(t, at)
    BY <1>10 DEF Rename, CannotOpen, Unlink
  <2>2. dupes' = dupes /\ l.at \in {"rename", "open", "unlink"}
    BY <1>10 DEF Rename, CannotOpen, Unlink
  <2> QED  BY <1>1, <1>2, <2>1, <2>2 DEF LineInv, Out
<1>11. CASE ClosePacket(t) /\ ~l.ok
  <2>1. dupes' = dupes /\ l.at = "close" /\ line' = [line EXCEPT ![t] = [Start0 EXCEPT !.lost = l.lost]]
    BY <1>11 DEF ClosePacket
  <2> QED  BY <1>1, <1>3, <2>1 DEF LineInv
<1> QED  BY <1>4, <1>5, <1>6, <1>7, <1>8, <1>9, <1>10, <1>11 DEF Unpack

LEMMA OutsideKeeps ==
  ASSUME TypeInv, KeptInv, Grew, NEW t \in Lines, NEW n, line' = [line EXCEPT ![t] = n],
         dupes' = dupes, line[t].buf = <<>>, n.at \in Out
  PROVE  KeptInv'
<1>1. \A i : \A a : \A p : ~InBuf(line[t], i, a, p)
  BY DEF InBuf
<1>2. RingKept(n, stored', env'.cut) /\ SoFar(n, stored', env'.cut)
  BY DEF RingKept, Place, SoFar, Processing, AtMessages, Out
<1> QED  BY <1>1, <1>2, KeptFollows

\* The packet a line has been reading stays as far read as it was.
LEMMA SoFarKept ==
  ASSUME Grew, NEW l, NEW n, SoFar(l, stored, env.cut), Processing(l),
         n.pkt = l.pkt, n.pos = l.pos,
         n.at \notin AtMessages => l.pkt \in Packets /\ l.pos > Len(Content[l.pkt]),
         \A i : \A a : HasBase(a) /\ Buffered(l, i, a) =>
                         Buffered(n, i, a) \/ Done(i, a, stored', env'.cut)
  PROVE  SoFar(n, stored', env'.cut)
BY DoneGrows DEF SoFar

LEMMA RingStays ==
  ASSUME Grew, NEW l, NEW n, RingKept(l, stored, env.cut), Place(l),
         n.areatag = l.areatag, n.ring = l.ring, n.buf = l.buf
  PROVE  RingKept(n, stored', env'.cut)
BY DoneGrows DEF RingKept, InBuf

LEMMA OpenKept ==
  ASSUME TypeInv, KeptInv, NEW t \in Lines, Open(t)
  PROVE  KeptInv'
<1> DEFINE l == line[t]
           n == [Start0 EXCEPT !.at = "toss", !.pkt = badpkt[l.num], !.num = l.num,
                               !.base = l.base, !.lost = l.lost]
<1>1. /\ l.at = "open" /\ line' = [line EXCEPT ![t] = n] /\ dupes' = dupes /\ stored' = stored
      /\ badpkt[l.num] \in Packets /\ LineInv(l)
  BY DEF Open, TypeInv, SharedType
<1>2. Grew
  BY <1>1, StepGrew DEF Step, Tosses
<1>3. n.at = "toss" /\ n.pkt = badpkt[l.num] /\ n.pos = 1 /\ n.areatag = None
  BY DEF Start0
<1> HIDE DEF n
<1>4. RingKept(n, stored', env'.cut)
  BY <1>3 DEF RingKept, Place
<1>5. \A i \in DOMAIN Content[n.pkt] : ~(i < 1)
  <2>1. Content[n.pkt] \in Seq(Message)
    BY <1>1, <1>3, Constants
  <2> QED  BY <2>1
<1>6. SoFar(n, stored', env'.cut)
  BY <1>3, <1>5 DEF SoFar, AtMessages
<1>7. \A i : \A a : \A p : ~InBuf(l, i, a, p)
  BY <1>1 DEF InBuf, LineInv
<1> QED  BY <1>1, <1>2, <1>4, <1>6, <1>7, KeptFollows

\* The message where a line stands is the last one it has to account for.
LEMMA NextSoFar ==
  ASSUME TypeInv, Grew, NEW t \in Lines, NEW n, SoFar(line[t], stored, env.cut),
         line[t].at \in {"toss", "area"}, n.at = "toss", n.pkt = line[t].pkt,
         n.pos = line[t].pos + 1,
         \A i : \A a : HasBase(a) /\ Buffered(line[t], i, a) =>
                         Buffered(n, i, a) \/ Done(i, a, stored', env'.cut),
         HasBase(MsgOf(line[t]).area) =>
           \/ Done(MsgOf(line[t]).id, MsgOf(line[t]).area, stored', env'.cut)
           \/ Buffered(n, MsgOf(line[t]).id, MsgOf(line[t]).area)
  PROVE  SoFar(n, stored', env'.cut)
<1> DEFINE l == line[t]
<1>1. l.pos \in Nat /\ l.pkt \in Packets /\ Content[l.pkt] \in Seq(Message)
  BY Constants DEF TypeInv, LineInv, LineType, Inside
<1>2. ASSUME NEW i \in DOMAIN Content[l.pkt], i < n.pos, HasBase(Content[l.pkt][i].area)
      PROVE  \/ Done(Content[l.pkt][i].id, Content[l.pkt][i].area, stored', env'.cut)
             \/ Buffered(n, Content[l.pkt][i].id, Content[l.pkt][i].area)
  <2>1. i < l.pos \/ i = l.pos
    BY <1>1, <1>2
  <2>2. CASE i < l.pos
    <3>1. \/ Done(Content[l.pkt][i].id, Content[l.pkt][i].area, stored, env.cut)
          \/ Buffered(l, Content[l.pkt][i].id, Content[l.pkt][i].area)
      BY <1>2, <2>2 DEF SoFar, Processing, AtMessages
    <3> QED  BY <1>2, <3>1, DoneGrows
  <2>3. CASE i = l.pos
    BY <1>2, <2>3 DEF MsgOf
  <2> QED  BY <2>1, <2>2, <2>3
<1> QED  BY <1>2 DEF SoFar, AtMessages

LEMMA BadAreaKept ==
  ASSUME TypeInv, KeptInv, NEW t \in Lines, BadArea(t)
  PROVE  KeptInv'
<1> DEFINE l == line[t]
           n == [l EXCEPT !.at = "toss", !.tag = Msg(t).area, !.pos = l.pos + 1]
<1>1. /\ l.at = "area" /\ line' = [line EXCEPT ![t] = n] /\ dupes' = dupes
      /\ stored' = stored /\ l \in LineType /\ MsgOf(l).area \notin DOMAIN Base
  BY DEF BadArea, TypeInv, Msg, MsgOf
<1>2. Grew
  BY StepGrew DEF Step, Tosses
<1>3. /\ n.at = "toss" /\ n.pkt = l.pkt /\ n.pos = l.pos + 1 /\ n.areatag = l.areatag
      /\ n.ring = l.ring /\ n.buf = l.buf
  BY <1>1 DEF LineType
<1> HIDE DEF n
<1>4. RingKept(l, stored, env.cut) /\ SoFar(l, stored, env.cut)
  BY DEF KeptInv
<1>5. RingKept(n, stored', env'.cut)
  <2>1. CASE l.areatag = None
    BY <1>3, <2>1 DEF RingKept, Place
  <2>2. CASE l.areatag # None
    BY <1>1, <1>2, <1>3, <1>4, <2>2, RingStays DEF Place
  <2> QED  BY <2>1, <2>2
<1>6. SoFar(n, stored', env'.cut)
  BY <1>1, <1>2, <1>3, <1>4, NextSoFar DEF HasBase, Buffered
<1>7. \A i : \A a : \A p : InBuf(l, i, a, p) => InBuf(n, i, a, p)
  BY <1>3 DEF InBuf
<1>8. \A a \in DOMAIN Base : dupes'[a] = dupes[a]
  BY <1>1
<1> QED  BY <1>1, <1>2, <1>5, <1>6, <1>7, <1>8, KeptFollows

\* Where an area or the packet ends, DUPES.DAT becomes the ring.
LEMMA WriteKept ==
  ASSUME TypeInv, KeptInv, NEW t \in Lines, LeaveArea(t) \/ EndPacket(t)
  PROVE  KeptInv'
<1> DEFINE l == line[t]
<1>1. PICK at \in {"area", "flush"} :
        /\ line' = [line EXCEPT ![t].at = at]
        /\ at = "flush" => ~InPacket(t)
  BY DEF LeaveArea, EndPacket, Goes
<1> DEFINE n == [l EXCEPT !.at = at]
<1>2. /\ l.at = "toss" /\ line' = [line EXCEPT ![t] = n] /\ WriteDupes(t)
      /\ stored' = stored /\ l \in LineType
  BY <1>1 DEF LeaveArea, EndPacket, TypeInv
<1>3. Grew
  BY StepGrew DEF Step, Tosses
<1>4. /\ n.at = at /\ n.pkt = l.pkt /\ n.pos = l.pos /\ n.areatag = l.areatag
      /\ n.ring = l.ring /\ n.buf = l.buf
  BY <1>2 DEF LineType
<1> HIDE DEF n
<1>5. RingKept(l, stored, env.cut) /\ SoFar(l, stored, env.cut)
  BY DEF KeptInv
<1>6. RingKept(n, stored', env'.cut)
  <2>1. CASE l.areatag = None
    BY <1>4, <2>1 DEF RingKept, Place
  <2>2. CASE l.areatag # None
    BY <1>2, <1>3, <1>4, <1>5, <2>2, RingStays DEF Place
  <2> QED  BY <2>1, <2>2
<1>7. SoFar(n, stored', env'.cut)
  <2>1. l.pkt \in Packets /\ l.pos \in Nat /\ Len(Content[l.pkt]) \in Nat
    BY <1>2, Constants DEF TypeInv, LineInv, LineType, Inside
  <2>2. n.at \notin AtMessages => l.pkt \in Packets /\ l.pos > Len(Content[l.pkt])
    BY <1>1, <1>4, <2>1 DEF AtMessages, InPacket
  <2> QED  BY <1>2, <1>3, <1>4, <1>5, <2>2, SoFarKept DEF Processing, AtMessages, Buffered
<1>8. \A a \in DOMAIN Base :
        dupes'[a] = dupes[a] \/ (Place(n) /\ n.areatag = a /\ dupes'[a] = n.ring)
  <2>1. CASE l.areatag = None
    BY <1>2, <2>1 DEF WriteDupes
  <2>2. CASE l.areatag # None
    <3>1. dupes' = [dupes EXCEPT ![l.areatag] = l.ring] /\ dupes \in [DOMAIN Base -> Seq(Hash)]
      BY <1>2, <2>2 DEF WriteDupes, TypeInv, SharedType
    <3>2. Place(n)
      BY <1>1, <1>4, <2>2 DEF Place
    <3> QED  BY <1>4, <3>1, <3>2
  <2> QED  BY <2>1, <2>2
<1>9. \A i : \A a : \A p : InBuf(l, i, a, p) => InBuf(n, i, a, p)
  BY <1>4 DEF InBuf
<1> QED  BY <1>2, <1>3, <1>6, <1>7, <1>8, <1>9, KeptFollows

\* A base that is closed has what was in the buffers.
LEMMA BufferWritten ==
  ASSUME TypeInv, NEW t \in Lines, stored' = Written(t, line[t].buf), env' = env
  PROVE  /\ Grew
         /\ \A i : \A a : HasBase(a) /\ Buffered(line[t], i, a) => Done(i, a, stored', env'.cut)
<1> DEFINE l == line[t]
<1>1. LineInv(l) /\ l.buf \in Seq(Entry)
  BY DEF TypeInv, LineType
<1>2. Grew
  BY <1>1, WrittenGrew
<1>3. ASSUME NEW i, NEW a, HasBase(a), NEW k \in DOMAIN l.buf,
             l.buf[k].id = i, l.buf[k].area = a
      PROVE  Done(i, a, stored', env'.cut)
  <2>1. Base[a] = l.base
    BY <1>1, <1>3 DEF LineInv
  <2>2. \E j \in DOMAIN stored'[Base[a]] : stored'[Base[a]][j] = l.buf[k]
    BY <1>1, <1>3, <2>1, WrittenGrew DEF HasBase
  <2> QED  BY <1>3, <2>2 DEF Done
<1> QED  BY <1>2, <1>3 DEF Buffered

LEMMA ClosedKept ==
  ASSUME TypeInv, KeptInv, Grew, NEW t \in Lines, NEW n, line' = [line EXCEPT ![t] = n],
         \A i : \A a : HasBase(a) /\ Buffered(line[t], i, a) => Done(i, a, stored', env'.cut),
         dupes' = dupes, line[t].at \in {"area", "flush"},
         n.at \in {"wait", "close"}, n.pkt = line[t].pkt, n.pos = line[t].pos,
         n.at = "close" => line[t].at = "flush"
  PROVE  KeptInv'
<1> DEFINE l == line[t]
<1>1. \A i : \A a : \A p : InBuf(l, i, a, p) => Buffered(l, i, a)
  BY DEF InBuf, Buffered
<1>2. RingKept(n, stored', env'.cut)
  BY DEF RingKept, Place
<1>3. SoFar(n, stored', env'.cut)
  <2>1. SoFar(l, stored, env.cut)
    BY DEF KeptInv
  <2>2. n.at \notin AtMessages => l.pkt \in Packets /\ l.pos > Len(Content[l.pkt])
    BY <2>1 DEF SoFar, Processing, AtMessages
  <2> QED  BY <2>1, <2>2, SoFarKept DEF Processing, AtMessages
<1> QED  BY <1>1, <1>2, <1>3, KeptFollows

LEMMA FlushKept ==
  ASSUME TypeInv, KeptInv, NEW t \in Lines, Flush(t)
  PROVE  KeptInv'
<1> DEFINE l == line[t]
           b == IF l.base \in Squish THEN l.base ELSE NoBase
           n == [l EXCEPT !.at = "close", !.ok = TRUE, !.buf = <<>>, !.base = b]
<1>1. /\ l.at = "flush" /\ line' = [line EXCEPT ![t] = n] /\ dupes' = dupes
      /\ stored' = Written(t, l.buf) /\ env' = env /\ l \in LineType
  BY DEF Flush, TypeInv
<1>2. n.at = "close" /\ n.pkt = l.pkt /\ n.pos = l.pos
  BY <1>1 DEF LineType
<1> HIDE DEF n
<1>3. /\ Grew
      /\ \A i : \A a : HasBase(a) /\ Buffered(line[t], i, a) => Done(i, a, stored', env'.cut)
  BY <1>1, BufferWritten
<1> QED  BY <1>1, <1>2, <1>3, ClosedKept

\* A step that leaves its place in the packet, its buffers and DUPES.DAT alone
LEMMA BetweenKept ==
  ASSUME TypeInv, KeptInv, NEW t \in Lines, NEW n, line' = [line EXCEPT ![t] = n], Grew,
         dupes' = dupes, line[t].at \in {"area", "wait", "read"},
         n.at \in {"wait", "read", "toss"}, n.pkt = line[t].pkt, n.pos = line[t].pos,
         n.buf = line[t].buf, RingKept(n, stored', env'.cut)
  PROVE  KeptInv'
<1>1. SoFar(line[t], stored, env.cut)
  BY DEF KeptInv
<1>2. /\ \A i : \A a : \A p : InBuf(line[t], i, a, p) => InBuf(n, i, a, p)
      /\ \A i : \A a : Buffered(line[t], i, a) => Buffered(n, i, a)
  BY DEF InBuf, Buffered
<1>3. SoFar(n, stored', env'.cut)
  BY <1>1, <1>2, SoFarKept DEF Processing, AtMessages
<1> QED  BY <1>2, <1>3, KeptFollows

LEMMA CloseBaseKept ==
  ASSUME TypeInv, KeptInv, NEW t \in Lines, CloseBase(t)
  PROVE  KeptInv'
<1> DEFINE l == line[t]
<1>1. l.at = "area" /\ dupes' = dupes /\ env' = env /\ l \in LineType
  BY DEF CloseBase, TypeInv
<1>2. CASE Goes(t, "read") /\ stored' = stored
  <2> DEFINE n == [l EXCEPT !.at = "read"]
  <2>1. n.at = "read" /\ n.pkt = l.pkt /\ n.pos = l.pos /\ n.buf = l.buf
    BY <1>1 DEF LineType
  <2>2. line' = [line EXCEPT ![t] = n]
    BY <1>2 DEF Goes
  <2> HIDE DEF n
  <2>3. RingKept(n, stored', env'.cut)
    BY <2>1 DEF RingKept, Place
  <2> QED  BY <1>1, <1>2, <2>1, <2>2, <2>3, SameGrew, BetweenKept
<1>3. CASE /\ line' = [line EXCEPT ![t].at = "wait", ![t].base = NoBase, ![t].buf = <<>>]
           /\ stored' = Written(t, l.buf)
  <2> DEFINE n == [l EXCEPT !.at = "wait", !.base = NoBase, !.buf = <<>>]
  <2>1. n.at = "wait" /\ n.pkt = l.pkt /\ n.pos = l.pos
    BY <1>1 DEF LineType
  <2>2. line' = [line EXCEPT ![t] = n]
    BY <1>3
  <2> HIDE DEF n
  <2>3. /\ Grew
        /\ \A i : \A a : HasBase(a) /\ Buffered(line[t], i, a) => Done(i, a, stored', env'.cut)
    BY <1>1, <1>3, BufferWritten
  <2> QED  BY <1>1, <2>1, <2>2, <2>3, ClosedKept
<1> QED  BY <1>2, <1>3 DEF CloseBase

LEMMA OpenBaseKept ==
  ASSUME TypeInv, KeptInv, NEW t \in Lines, OpenBase(t)
  PROVE  KeptInv'
<1> DEFINE l == line[t]
           n == [l EXCEPT !.at = "read", !.base = Base[Msg(t).area], !.sys = Base[Msg(t).area]]
<1>1. /\ l.at = "wait" /\ line' = [line EXCEPT ![t] = n] /\ dupes' = dupes
      /\ stored' = stored /\ env' = env /\ l \in LineType
  BY DEF OpenBase, TypeInv
<1>2. n.at = "read" /\ n.pkt = l.pkt /\ n.pos = l.pos /\ n.buf = l.buf
  BY <1>1 DEF LineType
<1> HIDE DEF n
<1>3. RingKept(n, stored', env'.cut)
  BY <1>2 DEF RingKept, Place
<1> QED  BY <1>1, <1>2, <1>3, SameGrew, BetweenKept

\* What DUPES.DAT says of an area is on the disk, when its base is ours.
LEMMA ReadDupesKept ==
  ASSUME TypeInv, KeptInv, HoldInv(line), NEW t \in Lines, ReadDupes(t)
  PROVE  KeptInv'
<1> DEFINE l == line[t]
           a == Msg(t).area
           n == [l EXCEPT !.at = "toss", !.areatag = a, !.tag = a, !.ring = dupes[a]]
<1>1. /\ l.at = "read" /\ line' = [line EXCEPT ![t] = n] /\ dupes' = dupes /\ LineInv(l)
      /\ stored' = stored /\ env' = env /\ l \in LineType /\ a = MsgOf(l).area
  BY DEF ReadDupes, TypeInv, Msg, MsgOf
<1>2. /\ n.at = "toss" /\ n.pkt = l.pkt /\ n.pos = l.pos /\ n.buf = l.buf
      /\ n.areatag = a /\ n.ring = dupes[a]
  BY <1>1 DEF LineType
<1> HIDE DEF n
<1>3. a \in DOMAIN Base /\ l.base = Base[a]
  BY <1>1 DEF LineInv
<1>4. ASSUME HasBase(a), NEW p \in DOMAIN dupes[a]
      PROVE  Done(dupes[a][p][1], a, stored', env'.cut) \/ InBuf(n, dupes[a][p][1], a, p)
  <2>1. CASE Done(dupes[a][p][1], a, stored, env.cut)
    BY <1>1, <2>1
  <2>2. CASE \E u \in Lines : InBuf(line[u], dupes[a][p][1], a, p)
    <3>1. PICK u \in Lines : InBuf(line[u], dupes[a][p][1], a, p)
      BY <2>2
    <3>2. PICK k \in DOMAIN line[u].buf : line[u].buf[k].area = a
      BY <3>1 DEF InBuf
    <3>3. line[u].base = l.base /\ l.base \in Bases
      BY <1>3, <1>4, <3>2 DEF TypeInv, LineInv, HasBase
    <3>4. u = t
      BY <3>3, OnlyHolder
    <3> QED  BY <1>2, <3>1, <3>4 DEF InBuf
  <2> QED  BY <1>3, <1>4, <2>1, <2>2 DEF KeptInv, DupesKept
<1>5. RingKept(n, stored', env'.cut)
  BY <1>2, <1>4 DEF RingKept
<1> QED  BY <1>1, <1>2, <1>5, SameGrew, BetweenKept

\* A message that is a duplicate has been filed, or is in a buffer.
LEMMA DuplicateKept ==
  ASSUME TypeInv, KeptInv, NEW t \in Lines, NEW n, line' = [line EXCEPT ![t] = n], Grew,
         dupes' = dupes, line[t].at = "toss", InPacket(t), ~NewArea(t),
         MsgHash(line[t]) \in Recent(line[t].ring),
         n.at = "toss", n.pkt = line[t].pkt, n.pos = line[t].pos + 1, n.buf = line[t].buf,
         n.areatag = line[t].areatag, n.ring = line[t].ring
  PROVE  KeptInv'
<1> DEFINE l == line[t]
           m == MsgOf(l)
<1>1. /\ RingKept(l, stored, env.cut) /\ SoFar(l, stored, env.cut)
      /\ Place(l) /\ m.area = l.areatag
  BY MessageFiled DEF KeptInv
<1>2. /\ \A i : \A a : \A p : InBuf(l, i, a, p) => InBuf(n, i, a, p)
      /\ \A i : \A a : \A p : InBuf(l, i, a, p) => Buffered(n, i, a)
      /\ \A i : \A a : Buffered(l, i, a) => Buffered(n, i, a)
  BY DEF InBuf, Buffered
<1>3. RingKept(n, stored', env'.cut)
  BY <1>1, RingStays
<1>4. ASSUME HasBase(m.area)
      PROVE  Done(m.id, m.area, stored', env'.cut) \/ Buffered(n, m.id, m.area)
  <2>1. PICK p \in DOMAIN l.ring : l.ring[p] = MsgHash(l)
    BY DEF Recent
  <2>2. l.ring[p][1] = m.id
    BY <2>1 DEF MsgHash
  <2>3. Done(m.id, l.areatag, stored, env.cut) \/ InBuf(l, m.id, l.areatag, p)
    BY <1>1, <1>4, <2>1, <2>2 DEF RingKept
  <2> QED  BY <1>1, <1>2, <1>4, <2>3, DoneGrows
<1>5. SoFar(n, stored', env'.cut)
  BY <1>1, <1>2, <1>4, NextSoFar
<1> QED  BY <1>2, <1>3, <1>5, KeptFollows

LEMMA AppendIs ==
  ASSUME NEW r \in Seq(Hash), NEW h \in Hash, NEW p \in DOMAIN Append(r, h)
  PROVE  \/ p \in DOMAIN r /\ Append(r, h)[p] = r[p]
         \/ p = Len(r) + 1 /\ Append(r, h)[p] = h
OBVIOUS

\* One that is filed is in the base now, or in a buffer, or its area has no base.
LEMMA FiledKept ==
  ASSUME TypeInv, KeptInv, NEW t \in Lines, NEW n, line' = [line EXCEPT ![t] = n], Grew,
         dupes' = dupes, line[t].at = "toss", InPacket(t), ~NewArea(t),
         n.at = "toss", n.pkt = line[t].pkt, n.pos = line[t].pos + 1,
         n.areatag = line[t].areatag, n.ring = Append(line[t].ring, MsgHash(line[t])),
         \A k \in DOMAIN line[t].buf : k \in DOMAIN n.buf /\ n.buf[k] = line[t].buf[k],
         HasBase(line[t].areatag) =>
           \/ Done(MsgOf(line[t]).id, line[t].areatag, stored', env'.cut)
           \/ InBuf(n, MsgOf(line[t]).id, line[t].areatag, Len(line[t].ring) + 1)
  PROVE  KeptInv'
<1> DEFINE l == line[t]
           m == MsgOf(l)
<1>1. /\ RingKept(l, stored, env.cut) /\ SoFar(l, stored, env.cut)
      /\ Place(l) /\ m.area = l.areatag
  BY MessageFiled DEF KeptInv
<1>2. /\ \A i : \A a : \A p : InBuf(l, i, a, p) => InBuf(n, i, a, p)
      /\ \A i : \A a : \A p : InBuf(n, i, a, p) => Buffered(n, i, a)
      /\ \A i : \A a : Buffered(l, i, a) => Buffered(n, i, a)
  BY DEF InBuf, Buffered
<1>3. RingKept(n, stored', env'.cut)
  <2>1. l.ring \in Seq(Hash) /\ MsgHash(l) \in Hash
    BY MessageFiled DEF TypeInv, LineType
  <2> SUFFICES ASSUME HasBase(l.areatag), NEW p \in DOMAIN n.ring
               PROVE  \/ Done(n.ring[p][1], l.areatag, stored', env'.cut)
                      \/ InBuf(n, n.ring[p][1], l.areatag, p)
    BY DEF RingKept
  <2>2. \/ p \in DOMAIN l.ring /\ n.ring[p] = l.ring[p]
        \/ p = Len(l.ring) + 1 /\ n.ring[p] = MsgHash(l)
    BY <2>1, AppendIs
  <2>3. CASE p \in DOMAIN l.ring /\ n.ring[p] = l.ring[p]
    BY <1>1, <1>2, <2>3, DoneGrows DEF RingKept
  <2>4. CASE p = Len(l.ring) + 1 /\ n.ring[p] = MsgHash(l)
    <3>1. n.ring[p][1] = m.id
      BY <2>4 DEF MsgHash
    <3> QED  BY <2>4, <3>1
  <2> QED  BY <2>2, <2>3, <2>4
<1>4. HasBase(m.area) => Done(m.id, m.area, stored', env'.cut) \/ Buffered(n, m.id, m.area)
  BY <1>1, <1>2
<1>5. SoFar(n, stored', env'.cut)
  BY <1>1, <1>2, <1>4, NextSoFar
<1> QED  BY <1>2, <1>3, <1>5, KeptFollows

LEMMA FileMessageKept ==
  ASSUME TypeInv, KeptInv, NEW t \in Lines, FileMessage(t)
  PROVE  KeptInv'
<1> DEFINE l == line[t]
           e == MsgEntry(l)
           k == [l EXCEPT !.pos = l.pos + 1]
           n == [l EXCEPT !.pos = l.pos + 1, !.ring = Append(l.ring, MsgHash(l))]
           m == [n EXCEPT !.buf = Append(l.buf, e)]
<1>1. /\ l \in LineType /\ l.at = "toss" /\ InPacket(t) /\ ~NewArea(t) /\ dupes' = dupes
      /\ env' = env
  BY FileMessageIs DEF TypeInv
<1>2. /\ k.at = "toss" /\ k.pkt = l.pkt /\ k.pos = l.pos + 1 /\ k.buf = l.buf
      /\ k.areatag = l.areatag /\ k.ring = l.ring
  BY <1>1 DEF LineType
<1>3. /\ n.at = "toss" /\ n.pkt = l.pkt /\ n.pos = l.pos + 1 /\ n.buf = l.buf
      /\ n.areatag = l.areatag /\ n.ring = Append(l.ring, MsgHash(l))
  BY <1>1 DEF LineType
<1>4. /\ m.at = "toss" /\ m.pkt = l.pkt /\ m.pos = l.pos + 1 /\ m.buf = Append(l.buf, e)
      /\ m.areatag = l.areatag /\ m.ring = Append(l.ring, MsgHash(l))
  BY <1>1 DEF LineType
<1> HIDE DEF k, n, m
<1>5. Grew
  BY StepGrew DEF Step, Tosses
<1>6. /\ l.base = Base[l.areatag] /\ l.areatag \in DOMAIN Base /\ e \in Entry
      /\ e.id = MsgOf(l).id /\ e.area = l.areatag /\ e.n = Len(l.ring) + 1
      /\ l.buf \in Seq(Entry) /\ stored \in [Bases -> Seq(Entry)]
  BY <1>1, MessageFiled DEF MsgEntry, LineType, TypeInv, SharedType
<1>7. CASE MsgHash(l) \in Recent(l.ring) /\ line' = [line EXCEPT ![t] = k]
  BY <1>1, <1>2, <1>5, <1>7, DuplicateKept
<1>8. CASE /\ l.base \in Squish /\ line' = [line EXCEPT ![t] = n]
           /\ stored' = [stored EXCEPT ![l.base] = Append(@, e)]
  <2>1. stored'[l.base] = Append(stored[l.base], e) /\ stored[l.base] \in Seq(Entry)
    BY <1>6, <1>8, Constants
  <2>2. /\ Len(stored[l.base]) + 1 \in DOMAIN stored'[l.base]
        /\ stored'[l.base][Len(stored[l.base]) + 1] = e
    BY <1>6, <2>1
  <2>3. Done(MsgOf(l).id, l.areatag, stored', env'.cut)
    BY <1>6, <2>2 DEF Done
  <2> QED  BY <1>1, <1>3, <1>5, <1>8, <2>3, FiledKept
<1>9. CASE l.base = NoBase /\ line' = [line EXCEPT ![t] = n]
  <2>1. ~HasBase(l.areatag)
    BY <1>6, <1>9, Constants DEF HasBase
  <2> QED  BY <1>1, <1>3, <1>5, <1>9, <2>1, FiledKept
<1>10. CASE line' = [line EXCEPT ![t] = m]
  <2>1. /\ Len(l.buf) + 1 \in DOMAIN m.buf /\ m.buf[Len(l.buf) + 1] = e
        /\ \A j \in DOMAIN l.buf : j \in DOMAIN m.buf /\ m.buf[j] = l.buf[j]
    BY <1>4, <1>6
  <2>2. InBuf(m, MsgOf(l).id, l.areatag, Len(l.ring) + 1)
    BY <1>6, <2>1 DEF InBuf
  <2> QED  BY <1>1, <1>4, <1>5, <1>10, <2>1, <2>2, FiledKept
<1> QED  BY <1>7, <1>8, <1>9, <1>10, FileMessageIs DEF n, m, k

\* What a line gives up in its buffers and DUPES.DAT knows is recorded as cut.
LEMMA LostKept ==
  ASSUME TypeInv, KeptInv, NEW t \in Lines, NEW n, line' = [line EXCEPT ![t] = n], Grew,
         dupes' = dupes, n.at \in {"close", "idle"}, ~n.ok,
         \A k \in DOMAIN line[t].buf :
           \/ \E j \in DOMAIN n.buf : n.buf[j] = line[t].buf[k]
           \/ \E j \in DOMAIN stored'[line[t].base] :
                 line[t].base \in Bases /\ stored'[line[t].base][j] = line[t].buf[k]
           \/ line[t].buf[k].n <= Len(dupes[line[t].buf[k].area]) =>
                 [id |-> line[t].buf[k].id, area |-> line[t].buf[k].area] \in env'.cut
  PROVE  KeptInv'
<1> DEFINE l == line[t]
<1>1. RingKept(n, stored', env'.cut) /\ SoFar(n, stored', env'.cut)
  BY DEF RingKept, Place, SoFar, Processing, AtMessages
<1>2. ASSUME NEW i, NEW a, NEW p \in DOMAIN dupes[a], HasBase(a), InBuf(l, i, a, p)
      PROVE  InBuf(n, i, a, p) \/ Done(i, a, stored', env'.cut)
  <2>1. PICK k \in DOMAIN l.buf : l.buf[k].id = i /\ l.buf[k].area = a /\ l.buf[k].n = p
    BY <1>2 DEF InBuf
  <2>2. Base[a] = l.base /\ p <= Len(dupes[a])
    <3>1. dupes[a] \in Seq(Hash)
      BY <1>2 DEF TypeInv, SharedType, HasBase
    <3>2. p <= Len(dupes[a])
      BY <1>2, <3>1
    <3> QED  BY <2>1, <3>2 DEF TypeInv, LineInv
  <2>3. CASE \E j \in DOMAIN n.buf : n.buf[j] = l.buf[k]
    BY <2>1, <2>3 DEF InBuf
  <2>4. CASE \E j \in DOMAIN stored'[l.base] : stored'[l.base][j] = l.buf[k]
    BY <2>1, <2>2, <2>4 DEF Done
  <2>5. CASE [id |-> l.buf[k].id, area |-> l.buf[k].area] \in env'.cut
    BY <2>1, <2>5 DEF Done
  <2> QED  BY <2>1, <2>2, <2>3, <2>4, <2>5
<1> QED  BY <1>1, <1>2, KeptFollows

LEMMA RecordedIs ==
  ASSUME NEW buf, NEW k \in DOMAIN buf, buf[k].n <= Len(dupes[buf[k].area])
  PROVE  [id |-> buf[k].id, area |-> buf[k].area] \in Recorded(buf)
BY DEF Recorded

LEMMA CannotSaveKept ==
  ASSUME TypeInv, KeptInv, NEW t \in Lines, CannotSave(t)
  PROVE  KeptInv'
<1> DEFINE l == line[t]
           n == [l EXCEPT !.at = "close", !.ok = FALSE]
           m == [l EXCEPT !.at = "close", !.ok = FALSE, !.base = NoBase, !.buf = <<>>,
                          !.lost = l.lost \cup {l.base}]
<1>1. l \in LineType /\ dupes' = dupes /\ env'.cut = env.cut \cup Recorded(l.buf)
  <2>1. env' = [env EXCEPT !.failures = env.failures - 1, !.cut = env.cut \cup Recorded(l.buf)]
    BY DEF CannotSave
  <2> QED  BY <2>1 DEF CannotSave, TypeInv, SharedType, EnvType
<1>2. /\ n.at = "close" /\ n.ok = FALSE /\ n.buf = l.buf
      /\ m.at = "close" /\ m.ok = FALSE
  BY <1>1 DEF LineType
<1>3. Grew
  BY StepGrew
<1>4. line' = [line EXCEPT ![t] = n] \/ line' = [line EXCEPT ![t] = m]
  BY DEF CannotSave
<1> HIDE DEF n, m
<1>5. CASE line' = [line EXCEPT ![t] = n]
  BY <1>1, <1>2, <1>3, <1>5, LostKept
<1>6. CASE line' = [line EXCEPT ![t] = m]
  <2>1. \A k \in DOMAIN l.buf : l.buf[k].n <= Len(dupes[l.buf[k].area]) =>
          [id |-> l.buf[k].id, area |-> l.buf[k].area] \in env'.cut
    BY <1>1, RecordedIs
  <2> QED  BY <1>1, <1>2, <1>3, <1>6, <2>1, LostKept
<1> QED  BY <1>4, <1>5, <1>6

\* Of a process that dies the first part of the buffers is written.
LEMMA CrashKept ==
  ASSUME TypeInv, KeptInv, NEW t \in Lines, Crash(t)
  PROVE  KeptInv'
<1> DEFINE l == line[t]
<1>1. LineInv(l) /\ l.buf \in Seq(Entry) /\ dupes' = dupes
      /\ line' = [line EXCEPT ![t] = Start0] /\ Len(l.buf) \in Nat
  BY DEF Crash, TypeInv, LineType
<1>2. PICK k \in 0 .. Len(l.buf) :
        /\ stored' = Written(t, SubSeq(l.buf, 1, k))
        /\ env' = [env EXCEPT !.crashes = env.crashes - 1,
                              !.cut = env.cut \cup Recorded(SubSeq(l.buf, k + 1, Len(l.buf)))]
  BY DEF Crash
<1> DEFINE head == SubSeq(l.buf, 1, k)
           tail == SubSeq(l.buf, k + 1, Len(l.buf))
<1>3. head \in Seq(Entry) /\ tail \in Seq(Entry)
      /\ \A j \in DOMAIN l.buf : \/ j \in DOMAIN head /\ head[j] = l.buf[j]
                                 \/ j - k \in DOMAIN tail /\ tail[j - k] = l.buf[j]
  <2> DEFINE s == l.buf
  <2>1. s \in Seq(Entry) /\ Len(s) \in Nat /\ k \in 0 .. Len(s) /\ DOMAIN s = 1 .. Len(s)
    BY <1>1
  <2> HIDE DEF s
  <2>2. /\ SubSeq(s, 1, k) \in Seq(Entry) /\ DOMAIN SubSeq(s, 1, k) = 1 .. k
        /\ \A j \in 1 .. k : SubSeq(s, 1, k)[j] = s[j]
    BY <2>1
  <2>3. /\ SubSeq(s, k + 1, Len(s)) \in Seq(Entry)
        /\ DOMAIN SubSeq(s, k + 1, Len(s)) = 1 .. Len(s) - k
        /\ \A j \in 1 .. Len(s) - k : SubSeq(s, k + 1, Len(s))[j] = s[j + k]
    <3>0. Len(s) \in Nat /\ k \in Nat /\ \A j \in k + 1 .. Len(s) : s[j] \in Entry
      BY <2>1
    <3>1. SubSeq(s, k + 1, Len(s)) \in Seq(Entry)
      BY <3>0
    <3>2. Len(SubSeq(s, k + 1, Len(s))) = Len(s) - k
      <4> DEFINE m == Len(s)
      <4>1. m \in Nat /\ k \in 0 .. m
        BY <2>1
      <4> HIDE DEF m
      <4>2. Len(SubSeq(s, k + 1, m)) = m - k
        BY <4>1
      <4> QED  BY <4>2 DEF m
    <3>3. \A j \in 1 .. Len(s) - k : SubSeq(s, k + 1, Len(s))[j] = s[j + k]
      BY <2>1
    <3> QED  BY <3>1, <3>2, <3>3
  <2>4. \A j \in 1 .. Len(s) : j \in 1 .. k \/ (j - k \in 1 .. Len(s) - k /\ (j - k) + k = j)
    BY <2>1
  <2>5. head = SubSeq(s, 1, k) /\ tail = SubSeq(s, k + 1, Len(s))
    BY DEF s
  <2> HIDE DEF head, tail
  <2>6. ASSUME NEW j \in DOMAIN s
        PROVE  \/ j \in DOMAIN head /\ head[j] = s[j]
               \/ j - k \in DOMAIN tail /\ tail[j - k] = s[j]
    <3>1. CASE j \in 1 .. k
      BY <2>2, <2>5, <3>1
    <3>2. CASE j - k \in 1 .. Len(s) - k /\ (j - k) + k = j
      BY <2>3, <2>5, <3>2
    <3> QED  BY <2>1, <2>4, <2>6, <3>1, <3>2
  <2> QED  BY <2>2, <2>3, <2>5, <2>6 DEF s
<1>4. env'.cut = env.cut \cup Recorded(tail) /\ stored' = Written(t, head)
  BY <1>2 DEF TypeInv, SharedType, EnvType
<1> HIDE DEF head, tail
<1>5. /\ Grew
      /\ l.base \in Bases => \A j \in DOMAIN head :
           \E i \in DOMAIN stored'[l.base] : stored'[l.base][i] = head[j]
  BY <1>3, <1>4, WrittenGrew
<1>6. Start0.at = "idle" /\ Start0.ok = FALSE
  BY DEF Start0
<1>7. ASSUME NEW j \in DOMAIN l.buf
      PROVE  \/ \E i \in DOMAIN stored'[l.base] :
                  l.base \in Bases /\ stored'[l.base][i] = l.buf[j]
             \/ l.buf[j].n <= Len(dupes[l.buf[j].area]) =>
                  [id |-> l.buf[j].id, area |-> l.buf[j].area] \in env'.cut
  <2>1. l.base \in Bases
    <3>1. l.base \notin Kept /\ l.base \in Bases \cup {NoBase}
      BY <1>1, <1>7 DEF LineInv, LineType
    <3> QED  BY <3>1 DEF Kept
  <2>2. CASE j \in DOMAIN head /\ head[j] = l.buf[j]
    BY <1>5, <2>1, <2>2
  <2>3. CASE j - k \in DOMAIN tail /\ tail[j - k] = l.buf[j]
    BY <1>4, <2>3, RecordedIs
  <2> QED  BY <1>3, <1>7, <2>2, <2>3
<1> QED  BY <1>1, <1>5, <1>6, <1>7, LostKept

LEMMA ClosePacketKept ==
  ASSUME TypeInv, KeptInv, NEW t \in Lines, ClosePacket(t), line[t].ok
  PROVE  KeptInv'
<1> DEFINE l == line[t]
           n == [l EXCEPT !.at = "unlink"]
<1>1. /\ l \in LineType /\ LineInv(l) /\ l.at = "close" /\ dupes' = dupes
      /\ line' = [line EXCEPT ![t] = n]
  BY DEF ClosePacket, TypeInv
<1>2. n.at = "unlink" /\ n.pkt = l.pkt /\ n.pos = l.pos /\ n.buf = l.buf
  BY <1>1 DEF LineType
<1> HIDE DEF n
<1>3. Grew
  BY StepGrew DEF Step, Tosses
<1>4. RingKept(n, stored', env'.cut)
  BY <1>2 DEF RingKept, Place
<1>5. SoFar(n, stored', env'.cut)
  <2>1. SoFar(l, stored, env.cut)
    BY DEF KeptInv
  <2>2. l.pkt \in Packets /\ l.pos > Len(Content[l.pkt])
    BY <1>1, <2>1 DEF SoFar, Processing, AtMessages
  <2>3. \A i : \A a : Buffered(l, i, a) => Buffered(n, i, a)
    BY <1>2 DEF Buffered
  <2> QED  BY <1>1, <1>2, <1>3, <2>1, <2>2, <2>3, SoFarKept DEF Processing
<1>6. \A i : \A a : \A p : InBuf(l, i, a, p) => InBuf(n, i, a, p)
  BY <1>2 DEF InBuf
<1> QED  BY <1>1, <1>3, <1>4, <1>5, <1>6, KeptFollows

LEMMA StepKept ==
  ASSUME TypeInv, KeptInv, HoldInv(line), NEW t \in Lines,
         Begin(t) \/ Step(t) \/ CannotSave(t) \/ Crash(t)
  PROVE  KeptInv'
<1>1. CASE \/ Begin(t) \/ Unpack(t) \/ Pick(t) \/ Number(t) \/ Rename(t) \/ CannotOpen(t)
           \/ Unlink(t)
           \/ ClosePacket(t) /\ ~line[t].ok
  <2>1. PICK n : /\ line' = [line EXCEPT ![t] = n] /\ n.at \in Out
                 /\ dupes' = dupes /\ line[t].buf = <<>>
    BY <1>1, OutsideMoves
  <2>2. Grew
    BY StepGrew
  <2> QED  BY <2>1, <2>2, OutsideKeeps
<1>2. CASE ClosePacket(t) /\ line[t].ok
  BY <1>2, ClosePacketKept
<1>3. CASE Open(t) \/ LeaveArea(t) \/ EndPacket(t) \/ BadArea(t)
  BY <1>3, OpenKept, WriteKept, BadAreaKept
<1>4. CASE CloseBase(t) \/ OpenBase(t) \/ ReadDupes(t) \/ Flush(t)
  BY <1>4, CloseBaseKept, OpenBaseKept, ReadDupesKept, FlushKept
<1>5. CASE FileMessage(t) \/ CannotSave(t) \/ Crash(t)
  BY <1>5, FileMessageKept, CannotSaveKept, CrashKept
<1> QED  BY <1>1, <1>2, <1>3, <1>4, <1>5 DEF Step, Tosses

-----------------------------------------------------------------------------
(* Where packets are.  A line that reads a packet, or is about to delete it, *)
(* is the only one at its number, unless a packet has been opened again.     *)

AtPacket(l) == l.at \in Inside \cup {"unlink"}
NumInv(ln, bp) ==
  /\ \A t \in Lines : AtPacket(ln[t]) => ln[t].num \in DOMAIN bp /\ bp[ln[t].num] = ln[t].pkt
  /\ \A t, u \in Lines : AtPacket(ln[t]) /\ AtPacket(ln[u]) /\ ln[t].num = ln[u].num => t = u

\* A packet is there, or in a bundle, or all of it is filed.
AllDone(p, st, c) ==
  \A i \in DOMAIN Content[p] :
    HasBase(Content[p][i].area) => Done(Content[p][i].id, Content[p][i].area, st, c)
There(p, w, bp)       == p \in w \/ \E n \in DOMAIN bp : bp[n] = p
Safe(p, w, bp, st, c) == There(p, w, bp) \/ AllDone(p, st, c)
SafeInv(w, bp, bs, st, c) ==
  \A p \in Packets : Safe(p, w, bp, st, c) \/ \E b \in bs : p \in Bundle[b]
\* So are those of a bundle that is about to be deleted.
DelInv(ln, w, bp, st, c) ==
  \A t \in Lines : ln[t].at = "delete" => \A p \in Bundle[ln[t].pkt] : Safe(p, w, bp, st, c)

DiskInv ==
  ~env.reopened =>
    /\ NumInv(line, badpkt)
    /\ SafeInv(waiting, badpkt, bundles \cup spoiled, stored, env.cut)
    /\ DelInv(line, waiting, badpkt, stored, env.cut)

LEMMA ReopenedStays ==
  ASSUME TypeInv, NEW t \in Lines, Begin(t) \/ Step(t) \/ CannotSave(t) \/ Crash(t)
  PROVE  ~env'.reopened => ~env.reopened
<1>1. env \in EnvType
  BY DEF TypeInv, SharedType
<1>2. CASE Open(t)
  <2>1. PICK b : env' = [env EXCEPT !.reopened = env.reopened \/ b]
    BY <1>2 DEF Open
  <2> QED  BY <1>1, <2>1 DEF EnvType
<1>3. CASE Begin(t)
  BY <1>3 DEF Begin
<1>4. CASE Unpack(t)
  <2>1. UNCHANGED env \/ env' = [env EXCEPT !.failures = env.failures - 1]
    BY <1>4 DEF Unpack, SkipBundle, Identify, Spawn, Unarchive, DeleteBundle, RenameBundle, UnpackDone
  <2> QED  BY <1>1, <2>1 DEF EnvType
<1>5. CASE Tosses(t) /\ ~Open(t)
  BY <1>5 DEF Tosses, Pick, Number, Rename, CannotOpen, LeaveArea, BadArea, CloseBase,
     OpenBase, ReadDupes, FileMessage, EndPacket, Flush, ClosePacket, Unlink
<1>6. CASE CannotSave(t)
  <2>1. PICK c : env' = [env EXCEPT !.failures = env.failures - 1, !.cut = c]
    BY <1>6 DEF CannotSave
  <2> QED  BY <1>1, <2>1 DEF EnvType
<1>7. CASE Crash(t)
  <2>1. PICK c : env' = [env EXCEPT !.crashes = env.crashes - 1, !.cut = c]
    BY <1>7 DEF Crash
  <2> QED  BY <1>1, <2>1 DEF EnvType
<1> QED  BY <1>2, <1>3, <1>4, <1>5, <1>6, <1>7 DEF Step

\* What a step of t has to show of packets and bundles
LEMMA SafeFollows ==
  ASSUME TypeInv, Grew, NEW t \in Lines, NEW n, line' = [line EXCEPT ![t] = n],
         SafeInv(waiting, badpkt, bundles \cup spoiled, stored, env.cut),
         DelInv(line, waiting, badpkt, stored, env.cut),
         \A p \in Packets : There(p, waiting, badpkt) => Safe(p, waiting', badpkt', stored', env'.cut),
         \A b \in bundles \cup spoiled :
           \/ b \in bundles' \cup spoiled'
           \/ \A p \in Bundle[b] : Safe(p, waiting, badpkt, stored, env.cut),
         n.at = "delete" => \A p \in Bundle[n.pkt] : Safe(p, waiting', badpkt', stored', env'.cut)
  PROVE  /\ SafeInv(waiting', badpkt', bundles' \cup spoiled', stored', env'.cut)
         /\ DelInv(line', waiting', badpkt', stored', env'.cut)
<1>1. ASSUME NEW p \in Packets, Safe(p, waiting, badpkt, stored, env.cut)
      PROVE  Safe(p, waiting', badpkt', stored', env'.cut)
  <2>1. CASE There(p, waiting, badpkt)
    BY <2>1
  <2>2. CASE AllDone(p, stored, env.cut)
    <3>1. AllDone(p, stored', env'.cut)
      BY <2>2, DoneGrows DEF AllDone
    <3> QED  BY <3>1 DEF Safe
  <2> QED  BY <1>1, <2>1, <2>2 DEF Safe
<1>2. SafeInv(waiting', badpkt', bundles' \cup spoiled', stored', env'.cut)
  <2> SUFFICES ASSUME NEW p \in Packets, NEW b \in bundles \cup spoiled, p \in Bundle[b]
               PROVE  \/ Safe(p, waiting', badpkt', stored', env'.cut)
                      \/ \E c \in bundles' \cup spoiled' : p \in Bundle[c]
    BY <1>1 DEF SafeInv
  <2> QED  BY <1>1
<1>3. DelInv(line', waiting', badpkt', stored', env'.cut)
  <2> SUFFICES ASSUME NEW u \in Lines, line'[u].at = "delete", NEW p \in Bundle[line'[u].pkt]
               PROVE  Safe(p, waiting', badpkt', stored', env'.cut)
    BY DEF DelInv
  <2>1. line'[u] = IF u = t THEN n ELSE line[u]
    BY DEF TypeInv
  <2>2. CASE u = t
    BY <2>1, <2>2
  <2>3. CASE u # t
    <3>1. Safe(p, waiting, badpkt, stored, env.cut) /\ line[u].pkt \in DOMAIN Bundle
      BY <2>1, <2>3 DEF DelInv, TypeInv, LineInv
    <3>2. p \in Packets
      BY <2>1, <2>3, <3>1, Constants
    <3> QED  BY <1>1, <3>1, <3>2
  <2> QED  BY <2>2, <2>3
<1> QED  BY <1>2, <1>3

\* Numbers stay what they are when no packet is renamed, opened or deleted.
LEMMA NumFollows ==
  ASSUME TypeInv, NumInv(line, badpkt), NEW t \in Lines, NEW n, line' = [line EXCEPT ![t] = n],
         badpkt' = badpkt,
         AtPacket(n) => AtPacket(line[t]) /\ n.num = line[t].num /\ n.pkt = line[t].pkt
  PROVE  NumInv(line', badpkt')
<1>1. \A u \in Lines : line'[u] = IF u = t THEN n ELSE line[u]
  BY DEF TypeInv
<1>2. \A u \in Lines : AtPacket(line'[u]) =>
        AtPacket(line[u]) /\ line'[u].num = line[u].num /\ line'[u].pkt = line[u].pkt
  BY <1>1
<1> QED  BY <1>2 DEF NumInv

LEMMA StillKeeps ==
  ASSUME TypeInv, DiskInv, Grew, NEW t \in Lines, NEW n, line' = [line EXCEPT ![t] = n],
         UNCHANGED inbound, ~env'.reopened => ~env.reopened, n.at # "delete",
         AtPacket(n) => AtPacket(line[t]) /\ n.num = line[t].num /\ n.pkt = line[t].pkt
  PROVE  DiskInv'
<1>1. bundles' = bundles /\ spoiled' = spoiled /\ waiting' = waiting /\ badpkt' = badpkt
  BY DEF inbound
<1>2. SUFFICES ASSUME ~env'.reopened
               PROVE  /\ NumInv(line', badpkt')
                      /\ SafeInv(waiting', badpkt', bundles' \cup spoiled', stored', env'.cut)
                      /\ DelInv(line', waiting', badpkt', stored', env'.cut)
  BY DEF DiskInv
<1>3. \A p \in Packets : There(p, waiting, badpkt) => Safe(p, waiting', badpkt', stored', env'.cut)
  BY <1>1 DEF Safe
<1>4. NumInv(line', badpkt')
  BY <1>1, <1>2, NumFollows DEF DiskInv
<1> QED  BY <1>1, <1>2, <1>3, <1>4, SafeFollows DEF DiskInv

\* A line that goes on with its packet
LEMMA InsideMoves ==
  ASSUME TypeInv, NEW t \in Lines,
         \/ LeaveArea(t) \/ BadArea(t) \/ CloseBase(t) \/ OpenBase(t) \/ ReadDupes(t)
         \/ FileMessage(t) \/ CannotSave(t) \/ EndPacket(t) \/ Flush(t)
         \/ ClosePacket(t) /\ line[t].ok
  PROVE  /\ UNCHANGED inbound /\ AtPacket(line[t])
         /\ \E n : /\ line' = [line EXCEPT ![t] = n] /\ AtPacket(n)
                   /\ n.num = line[t].num /\ n.pkt = line[t].pkt
<1> DEFINE l == line[t]
<1>1. l \in LineType
  BY DEF TypeInv
<1>2. ASSUME NEW at \in Inside \cup {"unlink"}, Goes(t, at)
      PROVE  \E n : /\ line' = [line EXCEPT ![t] = n] /\ AtPacket(n)
                    /\ n.num = l.num /\ n.pkt = l.pkt
  <2> DEFINE n == [l EXCEPT !.at = at]
  <2>1. line' = [line EXCEPT ![t] = n] /\ n.at = at /\ n.num = l.num /\ n.pkt = l.pkt
    BY <1>1, <1>2 DEF Goes, LineType
  <2> HIDE DEF n
  <2> QED  BY <2>1 DEF AtPacket
<1>3. CASE LeaveArea(t) \/ EndPacket(t)
  <2>1. PICK at \in Inside : Goes(t, at)
    BY <1>3 DEF LeaveArea, EndPacket, Inside
  <2> QED  BY <1>2, <1>3, <2>1 DEF LeaveArea, EndPacket, AtPacket, Inside
<1>4. CASE BadArea(t)
  <2> DEFINE n == [l EXCEPT !.at = "toss", !.tag = Msg(t).area, !.pos = l.pos + 1]
  <2>1. line' = [line EXCEPT ![t] = n] /\ n.at = "toss" /\ n.num = l.num /\ n.pkt = l.pkt
    BY <1>1, <1>4 DEF BadArea, LineType
  <2> HIDE DEF n
  <2> QED  BY <1>4, <2>1 DEF BadArea, AtPacket, Inside
<1>5. CASE CloseBase(t)
  <2>1. l.at = "area" /\ UNCHANGED inbound
    BY <1>5 DEF CloseBase
  <2>2. CASE Goes(t, "read")
    <3> DEFINE n == [l EXCEPT !.at = "read"]
    <3>1. line' = [line EXCEPT ![t] = n] /\ n.at = "read" /\ n.num = l.num /\ n.pkt = l.pkt
      BY <1>1, <2>2 DEF Goes, LineType
    <3> HIDE DEF n
    <3> QED  BY <2>1, <3>1 DEF AtPacket, Inside
  <2>3. CASE line' = [line EXCEPT ![t].at = "wait", ![t].base = NoBase, ![t].buf = <<>>]
    <3> DEFINE n == [l EXCEPT !.at = "wait", !.base = NoBase, !.buf = <<>>]
    <3>1. line' = [line EXCEPT ![t] = n] /\ n.at = "wait" /\ n.num = l.num /\ n.pkt = l.pkt
      BY <1>1, <2>3 DEF LineType
    <3> HIDE DEF n
    <3> QED  BY <2>1, <3>1 DEF AtPacket, Inside
  <2> QED  BY <1>5, <2>2, <2>3 DEF CloseBase
<1>6. CASE OpenBase(t)
  <2> DEFINE n == [l EXCEPT !.at = "read", !.base = Base[Msg(t).area], !.sys = Base[Msg(t).area]]
  <2>1. line' = [line EXCEPT ![t] = n] /\ n.at = "read" /\ n.num = l.num /\ n.pkt = l.pkt
    BY <1>1, <1>6 DEF OpenBase, LineType
  <2> HIDE DEF n
  <2> QED  BY <1>6, <2>1 DEF OpenBase, AtPacket, Inside
<1>7. CASE ReadDupes(t)
  <2> DEFINE a == Msg(t).area
             n == [l EXCEPT !.at = "toss", !.areatag = a, !.tag = a, !.ring = dupes[a]]
  <2>1. line' = [line EXCEPT ![t] = n] /\ n.at = "toss" /\ n.num = l.num /\ n.pkt = l.pkt
    BY <1>1, <1>7 DEF ReadDupes, LineType
  <2> HIDE DEF n
  <2> QED  BY <1>7, <2>1 DEF ReadDupes, AtPacket, Inside
<1>8. CASE FileMessage(t)
  <2> DEFINE k == [l EXCEPT !.pos = l.pos + 1]
             n == [l EXCEPT !.pos = l.pos + 1, !.ring = Append(l.ring, MsgHash(l))]
             m == [n EXCEPT !.buf = Append(l.buf, MsgEntry(l))]
  <2>1. l.at = "toss" /\ UNCHANGED inbound
    BY <1>8, FileMessageIs
  <2>2. \A x \in {k, n, m} : x.at = "toss" /\ x.num = l.num /\ x.pkt = l.pkt
    BY <1>1, <2>1 DEF LineType
  <2>3. \E x \in {k, n, m} : line' = [line EXCEPT ![t] = x]
    BY <1>8, FileMessageIs
  <2> HIDE DEF k, n, m
  <2> QED  BY <2>1, <2>2, <2>3 DEF AtPacket, Inside
<1>9. CASE CannotSave(t)
  <2> DEFINE n == [l EXCEPT !.at = "close", !.ok = FALSE]
             m == [l EXCEPT !.at = "close", !.ok = FALSE, !.base = NoBase, !.buf = <<>>,
                            !.lost = l.lost \cup {l.base}]
  <2>1. \A x \in {n, m} : x.at = "close" /\ x.num = l.num /\ x.pkt = l.pkt
    BY <1>1 DEF LineType
  <2>2. \E x \in {n, m} : line' = [line EXCEPT ![t] = x]
    BY <1>9 DEF CannotSave
  <2> HIDE DEF n, m
  <2> QED  BY <1>9, <2>1, <2>2 DEF CannotSave, AtPacket, Inside
<1>10. CASE Flush(t)
  <2> DEFINE b == IF l.base \in Squish THEN l.base ELSE NoBase
             n == [l EXCEPT !.at = "close", !.ok = TRUE, !.buf = <<>>, !.base = b]
  <2>1. line' = [line EXCEPT ![t] = n] /\ n.at = "close" /\ n.num = l.num /\ n.pkt = l.pkt
    BY <1>1, <1>10 DEF Flush, LineType
  <2> HIDE DEF n
  <2> QED  BY <1>10, <2>1 DEF Flush, AtPacket, Inside
<1>11. CASE ClosePacket(t) /\ l.ok
  <2>1. Goes(t, "unlink")
    BY <1>11 DEF ClosePacket, Goes
  <2> QED  BY <1>2, <1>11, <2>1 DEF ClosePacket, AtPacket, Inside
<1> QED  BY <1>3, <1>4, <1>5, <1>6, <1>7, <1>8, <1>9, <1>10, <1>11

\* The steps that leave the inbound directory alone
LEMMA StillMoves ==
  ASSUME TypeInv, DiskInv, NEW t \in Lines,
         \/ Begin(t) \/ SkipBundle(t) \/ Identify(t) \/ Spawn(t) \/ UnpackDone(t)
         \/ Pick(t) \/ Number(t) \/ CannotOpen(t) \/ LeaveArea(t) \/ BadArea(t) \/ CloseBase(t)
         \/ OpenBase(t) \/ ReadDupes(t) \/ FileMessage(t) \/ CannotSave(t) \/ EndPacket(t)
         \/ Flush(t) \/ ClosePacket(t) \/ Crash(t)
  PROVE  DiskInv'
<1>1. Grew /\ (~env'.reopened => ~env.reopened)
  BY StepGrew, ReopenedStays DEF Step, Unpack, Tosses
<1>2. CASE \/ Begin(t) \/ SkipBundle(t) \/ Identify(t) \/ Spawn(t) \/ UnpackDone(t)
           \/ Pick(t) \/ Number(t) \/ CannotOpen(t)
           \/ ClosePacket(t) /\ ~line[t].ok
  <2>1. PICK n : /\ line' = [line EXCEPT ![t] = n] /\ n.at \in Out
                 /\ n.at = "delete" => Unarchive(t)
    BY <1>2, OutsideMoves DEF Unpack
  <2>2. line[t].at # "spawn" /\ UNCHANGED inbound
    BY <1>2 DEF Begin, SkipBundle, Identify, Spawn, UnpackDone, Pick, Number, CannotOpen, ClosePacket
  <2>3. n.at # "delete"
    BY <2>1, <2>2 DEF Unarchive
  <2>4. ~AtPacket(n)
    BY <2>1 DEF AtPacket, Inside, Out
  <2> QED  BY <1>1, <2>1, <2>2, <2>3, <2>4, StillKeeps
<1>3. CASE \/ LeaveArea(t) \/ BadArea(t) \/ CloseBase(t) \/ OpenBase(t) \/ ReadDupes(t)
           \/ FileMessage(t) \/ CannotSave(t) \/ EndPacket(t) \/ Flush(t)
           \/ ClosePacket(t) /\ line[t].ok
  <2>1. /\ UNCHANGED inbound /\ AtPacket(line[t])
        /\ \E n : /\ line' = [line EXCEPT ![t] = n] /\ AtPacket(n)
                  /\ n.num = line[t].num /\ n.pkt = line[t].pkt
    BY <1>3, InsideMoves
  <2>2. PICK n : /\ line' = [line EXCEPT ![t] = n] /\ AtPacket(n)
                 /\ n.num = line[t].num /\ n.pkt = line[t].pkt
    BY <2>1
  <2>3. n.at # "delete"
    BY <2>2 DEF AtPacket, Inside
  <2> QED  BY <1>1, <2>1, <2>2, <2>3, StillKeeps
<1>4. CASE Crash(t)
  <2>1. ~AtPacket(Start0) /\ Start0.at # "delete"
    BY DEF AtPacket, Inside, Start0
  <2>2. line' = [line EXCEPT ![t] = Start0] /\ UNCHANGED inbound
    BY <1>4 DEF Crash
  <2> QED  BY <1>1, <2>1, <2>2, StillKeeps
<1> QED  BY <1>2, <1>3, <1>4

LEMMA UnarchiveMoves ==
  ASSUME TypeInv, DiskInv, NEW t \in Lines, Unarchive(t)
  PROVE  DiskInv'
<1> DEFINE l == line[t]
<1>1. l \in LineType /\ l.at = "spawn" /\ l.pkt \in DOMAIN Bundle
  BY DEF Unarchive, TypeInv, LineInv
<1>2. PICK at \in {"delete", "renaming"} :
        Goes(t, at) /\ (at = "delete" => Bundle[l.pkt] \subseteq waiting')
  BY DEF Unarchive
<1> DEFINE n == [l EXCEPT !.at = at]
<1>3. line' = [line EXCEPT ![t] = n] /\ n.at = at /\ n.pkt = l.pkt
  BY <1>1, <1>2 DEF Goes, LineType
<1> HIDE DEF n
<1>4. /\ bundles' = bundles /\ spoiled' = spoiled /\ badpkt' = badpkt /\ waiting \subseteq waiting'
  BY DEF Unarchive
<1>5. Grew /\ (~env'.reopened => ~env.reopened)
  BY StepGrew, ReopenedStays DEF Step, Unpack
<1>6. ~AtPacket(n)
  BY <1>2, <1>3 DEF AtPacket, Inside
<1>7. \A p \in Packets : There(p, waiting, badpkt) => Safe(p, waiting', badpkt', stored', env'.cut)
  BY <1>4 DEF There, Safe
<1>8. n.at = "delete" => \A p \in Bundle[n.pkt] : Safe(p, waiting', badpkt', stored', env'.cut)
  BY <1>2, <1>3 DEF There, Safe
<1>9. ~env.reopened => NumInv(line', badpkt')
  BY <1>3, <1>4, <1>6, NumFollows DEF DiskInv
<1>10. ~env.reopened =>
         /\ SafeInv(waiting', badpkt', bundles' \cup spoiled', stored', env'.cut)
         /\ DelInv(line', waiting', badpkt', stored', env'.cut)
  BY <1>3, <1>4, <1>5, <1>7, <1>8, SafeFollows DEF DiskInv
<1> QED  BY <1>5, <1>9, <1>10 DEF DiskInv

\* A bundle goes when its packets are there, or is kept under another name.
LEMMA BundleMoves ==
  ASSUME TypeInv, DiskInv, NEW t \in Lines, DeleteBundle(t) \/ RenameBundle(t)
  PROVE  DiskInv'
<1> DEFINE l == line[t]
           n == [l EXCEPT !.at = "unpack"]
<1>1. l \in LineType /\ line' = [line EXCEPT ![t] = n]
  BY DEF DeleteBundle, RenameBundle, Goes, TypeInv
<1>2. n.at = "unpack"
  BY <1>1 DEF LineType
<1> HIDE DEF n
<1>3. badpkt' = badpkt /\ waiting' = waiting
  BY DEF DeleteBundle, RenameBundle
<1>4. Grew /\ (~env'.reopened => ~env.reopened)
  BY StepGrew, ReopenedStays DEF Step, Unpack
<1>5. ~AtPacket(n)
  BY <1>2 DEF AtPacket, Inside
<1>6. \A p \in Packets : There(p, waiting, badpkt) => Safe(p, waiting', badpkt', stored', env'.cut)
  BY <1>3 DEF Safe
<1>7. ASSUME ~env.reopened, NEW b \in bundles \cup spoiled
      PROVE  \/ b \in bundles' \cup spoiled'
             \/ \A p \in Bundle[b] : Safe(p, waiting, badpkt, stored, env.cut)
  <2>1. CASE DeleteBundle(t)
    BY <1>7, <2>1 DEF DeleteBundle, DiskInv, DelInv
  <2>2. CASE RenameBundle(t)
    BY <2>2 DEF RenameBundle
  <2> QED  BY <2>1, <2>2
<1>8. ~env.reopened => NumInv(line', badpkt')
  BY <1>1, <1>3, <1>5, NumFollows DEF DiskInv
<1>9. ~env.reopened =>
         /\ SafeInv(waiting', badpkt', bundles' \cup spoiled', stored', env'.cut)
         /\ DelInv(line', waiting', badpkt', stored', env'.cut)
  BY <1>1, <1>2, <1>4, <1>6, <1>7, SafeFollows DEF DiskInv
<1> QED  BY <1>4, <1>8, <1>9 DEF DiskInv

LEMMA RenameMoves ==
  ASSUME TypeInv, DiskInv, NEW t \in Lines, Rename(t)
  PROVE  DiskInv'
<1> DEFINE l == line[t]
           n == [l EXCEPT !.at = "open"]
<1>1. l \in LineType /\ line' = [line EXCEPT ![t] = n]
  BY DEF Rename, Goes, TypeInv
<1>2. n.at = "open"
  BY <1>1 DEF LineType
<1> HIDE DEF n
<1>3. /\ bundles' = bundles /\ spoiled' = spoiled
      /\ \A k \in DOMAIN badpkt : k \in DOMAIN badpkt' /\ badpkt'[k] = badpkt[k]
      /\ \A p \in waiting : p \in waiting' \/ \E k \in DOMAIN badpkt' : badpkt'[k] = p
  BY DEF Rename
<1>4. Grew /\ (~env'.reopened => ~env.reopened)
  BY StepGrew, ReopenedStays DEF Step, Tosses
<1>5. ~AtPacket(n)
  BY <1>2 DEF AtPacket, Inside
<1>6. \A p \in Packets : There(p, waiting, badpkt) => Safe(p, waiting', badpkt', stored', env'.cut)
  BY <1>3 DEF There, Safe
<1>7. ~env.reopened => NumInv(line', badpkt')
  <2>1. \A u \in Lines : line'[u] = IF u = t THEN n ELSE line[u]
    BY <1>1 DEF TypeInv
  <2>2. \A u \in Lines : AtPacket(line'[u]) => AtPacket(line[u]) /\ line'[u] = line[u]
    BY <1>5, <2>1
  <2> QED  BY <1>3, <2>2 DEF NumInv, DiskInv
<1>8. ~env.reopened =>
         /\ SafeInv(waiting', badpkt', bundles' \cup spoiled', stored', env'.cut)
         /\ DelInv(line', waiting', badpkt', stored', env'.cut)
  BY <1>1, <1>2, <1>3, <1>4, <1>6, SafeFollows DEF DiskInv
<1> QED  BY <1>4, <1>7, <1>8 DEF DiskInv

\* Nobody else reads the packet, or it has been opened again.
LEMMA OpenMoves ==
  ASSUME TypeInv, DiskInv, NEW t \in Lines, Open(t)
  PROVE  DiskInv'
<1> DEFINE l == line[t]
           n == [Start0 EXCEPT !.at = "toss", !.pkt = badpkt[l.num], !.num = l.num,
                               !.base = l.base, !.lost = l.lost]
<1>1. /\ line' = [line EXCEPT ![t] = n] /\ UNCHANGED inbound
      /\ l.num \in DOMAIN badpkt /\ ~Opened(l.num, t)
  BY DEF Open
<1>2. n.at = "toss" /\ n.num = l.num /\ n.pkt = badpkt[l.num]
  BY DEF Start0
<1> HIDE DEF n
<1>3. /\ bundles' = bundles /\ spoiled' = spoiled /\ waiting' = waiting /\ badpkt' = badpkt
  BY <1>1 DEF inbound
<1>4. Grew /\ (~env'.reopened => ~env.reopened)
  BY StepGrew, ReopenedStays DEF Step, Tosses
<1>5. ~env'.reopened => \A u \in Lines : ~(line[u].at = "unlink" /\ line[u].num = l.num)
  BY DEF Open, TypeInv, SharedType, EnvType
<1>6. ASSUME ~env'.reopened, NEW u \in Lines, u # t, AtPacket(line[u])
      PROVE  line[u].num # l.num
  BY <1>1, <1>5, <1>6 DEF Opened, Reading, AtPacket
<1>7. ~env'.reopened => NumInv(line', badpkt')
  <2>1. \A u \in Lines : line'[u] = IF u = t THEN n ELSE line[u]
    BY <1>1 DEF TypeInv
  <2> QED  BY <1>1, <1>2, <1>3, <1>4, <1>6, <2>1 DEF NumInv, DiskInv
<1>8. \A p \in Packets : There(p, waiting, badpkt) => Safe(p, waiting', badpkt', stored', env'.cut)
  BY <1>3 DEF Safe
<1>9. ~env.reopened =>
         /\ SafeInv(waiting', badpkt', bundles' \cup spoiled', stored', env'.cut)
         /\ DelInv(line', waiting', badpkt', stored', env'.cut)
  BY <1>1, <1>2, <1>3, <1>4, <1>8, SafeFollows DEF DiskInv
<1> QED  BY <1>4, <1>7, <1>9 DEF DiskInv

\* What is deleted has been filed, all of it.
LEMMA UnlinkMoves ==
  ASSUME TypeInv, KeptInv, DiskInv, NEW t \in Lines, Unlink(t)
  PROVE  DiskInv'
<1> DEFINE l == line[t]
           n == [l EXCEPT !.at = "scan"]
<1>1. l \in LineType /\ LineInv(l) /\ l.at = "unlink" /\ line' = [line EXCEPT ![t] = n]
  BY DEF Unlink, Goes, TypeInv
<1>2. n.at = "scan"
  BY <1>1 DEF LineType
<1> HIDE DEF n
<1>3. /\ bundles' = bundles /\ spoiled' = spoiled /\ waiting' = waiting
      /\ \A k \in DOMAIN badpkt : k # l.num => k \in DOMAIN badpkt' /\ badpkt'[k] = badpkt[k]
  BY DEF Unlink
<1>4. Grew /\ (~env'.reopened => ~env.reopened)
  BY StepGrew, ReopenedStays DEF Step, Tosses
<1>5. AllDone(l.pkt, stored', env'.cut)
  <2>1. SoFar(l, stored, env.cut) /\ \A i : \A a : ~Buffered(l, i, a)
    BY <1>1 DEF KeptInv, LineInv, Buffered
  <2>2. l.pkt \in Packets /\ l.pos > Len(Content[l.pkt]) /\ l.pos \in Nat
    BY <1>1, <2>1 DEF SoFar, Processing, AtMessages, LineType
  <2>3. \A i \in DOMAIN Content[l.pkt] : i < l.pos
    BY <2>2, Constants
  <2>4. AllDone(l.pkt, stored, env.cut)
    BY <1>1, <2>1, <2>3 DEF SoFar, Processing, AllDone
  <2> QED  BY <1>4, <2>4, DoneGrows DEF AllDone
<1>6. ASSUME ~env.reopened
      PROVE  /\ badpkt[l.num] = l.pkt
             /\ \A u \in Lines : u # t /\ AtPacket(line[u]) => line[u].num # l.num
  BY <1>1, <1>6 DEF DiskInv, NumInv, AtPacket
<1>7. ~env.reopened => NumInv(line', badpkt')
  <2>1. \A u \in Lines : line'[u] = IF u = t THEN n ELSE line[u]
    BY <1>1 DEF TypeInv
  <2>2. \A u \in Lines : AtPacket(line'[u]) => u # t /\ line'[u] = line[u]
    BY <1>2, <2>1 DEF AtPacket, Inside
  <2> QED  BY <1>3, <1>6, <2>2 DEF NumInv, DiskInv
<1>8. ~env.reopened => \A p \in Packets :
        There(p, waiting, badpkt) => Safe(p, waiting', badpkt', stored', env'.cut)
  <2> SUFFICES ASSUME ~env.reopened, NEW p \in Packets, There(p, waiting, badpkt)
               PROVE  Safe(p, waiting', badpkt', stored', env'.cut)
    OBVIOUS
  <2>1. CASE p \in waiting
    BY <1>3, <2>1 DEF Safe, There
  <2>2. CASE \E k \in DOMAIN badpkt : badpkt[k] = p
    <3>1. PICK k \in DOMAIN badpkt : badpkt[k] = p
      BY <2>2
    <3>2. CASE k = l.num
      BY <1>5, <1>6, <3>1, <3>2 DEF Safe
    <3>3. CASE k # l.num
      BY <1>3, <3>1, <3>3 DEF Safe, There
    <3> QED  BY <3>2, <3>3
  <2> QED  BY <2>1, <2>2 DEF There
<1>9. ~env.reopened =>
         /\ SafeInv(waiting', badpkt', bundles' \cup spoiled', stored', env'.cut)
         /\ DelInv(line', waiting', badpkt', stored', env'.cut)
  BY <1>1, <1>2, <1>3, <1>4, <1>8, SafeFollows DEF DiskInv
<1> QED  BY <1>4, <1>7, <1>9 DEF DiskInv

LEMMA StepDisk ==
  ASSUME TypeInv, KeptInv, DiskInv, NEW t \in Lines,
         Begin(t) \/ Step(t) \/ CannotSave(t) \/ Crash(t)
  PROVE  DiskInv'
<1>1. CASE \/ Unarchive(t) \/ DeleteBundle(t) \/ RenameBundle(t) \/ Rename(t) \/ Open(t)
           \/ Unlink(t)
  BY <1>1, UnarchiveMoves, BundleMoves, RenameMoves, OpenMoves, UnlinkMoves
<1>2. CASE ~(\/ Unarchive(t) \/ DeleteBundle(t) \/ RenameBundle(t) \/ Rename(t) \/ Open(t)
             \/ Unlink(t))
  BY <1>2, StillMoves DEF Step, Unpack, Tosses
<1> QED  BY <1>1, <1>2

-----------------------------------------------------------------------------
LostInv == OnceInv /\ KeptInv /\ DiskInv

LEMMA InitLost == Init => LostInv
<1> SUFFICES ASSUME Init PROVE LostInv
  OBVIOUS
<1>1. \A t \in Lines : line[t].at = "idle"
  BY DEF Init, Start0
<1>2. KeptInv
  <2>1. \A a \in DOMAIN Base : dupes[a] = <<>>
    BY DEF Init
  <2> QED  BY <1>1, <2>1 DEF KeptInv, DupesKept, RingKept, Place, SoFar, Processing, AtMessages
<1>3. NumInv(line, badpkt) /\ DelInv(line, waiting, badpkt, stored, env.cut)
  BY <1>1 DEF NumInv, DelInv, AtPacket, Inside
<1>4. SafeInv(waiting, badpkt, bundles \cup spoiled, stored, env.cut)
  <2>1. bundles = DOMAIN Bundle /\ waiting = Loose
    BY DEF Init
  <2> QED  BY <2>1, TossAssumption DEF SafeInv, Safe, There
<1> QED  BY <1>2, <1>3, <1>4, InitOnce DEF LostInv, DiskInv

LEMMA StepLost ==
  ASSUME LostInv, [Next]_vars
  PROVE  LostInv'
<1>1. OnceInv'
  BY StepOnce DEF LostInv
<1>2. CASE UNCHANGED vars
  BY <1>1, <1>2 DEF LostInv, vars, inbound, KeptInv, DiskInv
<1>3. ASSUME NEW t \in Lines, Begin(t) \/ Step(t) \/ CannotSave(t) \/ Crash(t)
      PROVE  KeptInv' /\ DiskInv'
  BY <1>3, StepKept, StepDisk DEF LostInv, OnceInv
<1> QED  BY <1>1, <1>2, <1>3 DEF Next, LostInv

LEMMA LostFollows == LostInv => NothingLost
<1> SUFFICES ASSUME LostInv, ~env.reopened, NEW m \in Message \ env.cut,
                    m.area \in DOMAIN Base, Base[m.area] # NoBase
             PROVE  Filed(m) \/ OnDisk(m)
  BY DEF NothingLost
<1>1. PICK p \in Packets : \E i \in DOMAIN Content[p] : Content[p][i] = m
  BY DEF Message
<1>2. PICK i \in DOMAIN Content[p] : Content[p][i] = m
  BY <1>1
<1>3. HasBase(m.area)
  BY Constants DEF HasBase
<1>4. Safe(p, waiting, badpkt, stored, env.cut) \/ \E b \in bundles \cup spoiled : p \in Bundle[b]
  BY DEF LostInv, DiskInv, SafeInv
<1>5. CASE There(p, waiting, badpkt) \/ \E b \in bundles \cup spoiled : p \in Bundle[b]
  <2>1. p \in waiting \cup {badpkt[n] : n \in DOMAIN badpkt}
             \cup UNION {Bundle[b] : b \in bundles \cup spoiled}
    BY <1>5 DEF There
  <2> QED  BY <1>1, <2>1 DEF OnDisk
<1>6. CASE AllDone(p, stored, env.cut)
  <2>1. Done(m.id, m.area, stored, env.cut)
    BY <1>2, <1>3, <1>6 DEF AllDone
  <2>2. m = [id |-> m.id, area |-> m.area]
    BY TossAssumption
  <2> QED  BY <2>1, <2>2 DEF Done, Filed
<1> QED  BY <1>4, <1>5, <1>6 DEF Safe

\* Whatever lines toss whatever packets, and whatever fails or dies: a message of an
\* area with a base has been filed, or a packet or bundle still has it, unless a packet
\* has been opened again before it was deleted, or DUPES.DAT was written and what was in
\* the buffers was not.
THEOREM NothingLostHolds == Spec => []NothingLost
<1>1. LostInv /\ [Next]_vars => LostInv'
  BY StepLost
<1> QED  BY <1>1, InitLost, LostFollows, PTL DEF Spec

=============================================================================
