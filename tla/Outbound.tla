-------------------------------- MODULE Outbound --------------------------------
(***************************************************************************)
(* The outbound directory: messages are written to packets (.XPR), which   *)
(* pack_outbound() (pack.c) compresses into bundles as ROUTE.CFG says and  *)
(* lists in .?LO files, and which the outbound scan of a Janus session,    *)
(* getfname() (janus.c), reads and strikes off.  Several lines work on it  *)
(* and ask flag_file() for an address first (AddressLocks, MailLines),     *)
(* though not everywhere.                                                  *)
(*                                                                         *)
(* Addresses are nodes of the home zone.  A packet is the set of its       *)
(* messages.  The transfer itself is Janus.tla.                            *)
(***************************************************************************)
EXTENDS Naturals, Sequences, FiniteSets

CONSTANTS
  Lines,     \* the processes at work
  Packers,   \* those of them that pack
  Callers,   \* those that call and answer
  Nodes,     \* systems
  Mail,      \* messages
  Dest,      \* Dest[m]: the node m is for
  Waiting,   \* mail that has been written already
  Routes,    \* commands of ROUTE.CFG that apply in some event, each a sequence of
             \* [cmd, flag, hub, nodes]
  Sessions,  \* the addresses the other system may have in a session
  Flags,     \* ext_flags for the .?LO files, in order
  Names,     \* bundles of a node in a day: the last digit of the name (10)
  Packs, Calls, Crashes,   \* bounds: times the outbound is packed, sessions, processes that die
  None

Commands == {"send", "sendall", "route"}

ASSUME OutboundAssumption ==
  /\ Packers \subseteq Lines /\ Callers \subseteq Lines
  /\ Dest \in [Mail -> Nodes] /\ Waiting \subseteq Mail
  /\ Flags \in Seq(STRING) \ {<<>>}
  /\ Routes \subseteq Seq([cmd : Commands, flag : {Flags[i] : i \in DOMAIN Flags},
                           hub : Nodes, nodes : SUBSET Nodes])
  /\ Sessions \subseteq Seq(Nodes) \ {<<>>}
  /\ Names \in Nat \ {0}
  /\ Packs \in Nat /\ Calls \in Nat /\ Crashes \in Nat
  /\ None \notin Nodes \cup Lines /\ "left" \notin Lines

VARIABLES
  xpr,      \* the packet of each node that waits for the packer
  aside,    \* its .X$R, set aside because the node was busy
  out,      \* its .OUT, which is sent as it is
  pkt,      \* what the *.PKT hold
  shelf,    \* what the .P$T and NOARC.nnn hold, which nothing reads again
  stray,    \* the packet under the name of the outbound directory
  bundle,   \* bundle[n][d]: what the bundles there are for n hold
  lo,       \* lo[n][f]: the lines [name, sent] of a .?LO file
  busy,     \* who holds the flag of a node: a line, or "left" by one that died
  line,     \* what each line is doing
  arrived,  \* <<m, n>>: the system called n has received m
  env       \* fresh: messages to be written; what is left of the bounds; and for the
            \* properties: messages added to an .OUT, or set aside under another name
            \* than their own, and bundles <<n, d>> that were refused

packets == <<xpr, aside, out, pkt, shelf, stray>>
vars    == <<packets, bundle, lo, busy, line, arrived, env>>

Idle == [at |-> "idle", route |-> <<>>, cmd |-> 0, todo |-> {}, node |-> None, nopack |-> FALSE,
         blko |-> None, name |-> 0, list |-> <<>>, ok |-> <<>>, orig |-> FALSE, k |-> 0,
         ext |-> 0, pos |-> 0, halted |-> FALSE]

Init ==
  /\ xpr = [n \in Nodes |-> {m \in Waiting : Dest[m] = n}]
  /\ aside = [n \in Nodes |-> {}] /\ out = [n \in Nodes |-> {}]
  /\ pkt = {} /\ shelf = {} /\ stray = {}
  /\ bundle = [n \in Nodes |-> <<>>]
  /\ lo = [n \in Nodes |-> [i \in DOMAIN Flags |-> <<>>]]
  /\ busy = [n \in Nodes |-> None]
  /\ line = [t \in Lines |-> Idle]
  /\ arrived = {}
  /\ env = [fresh |-> Mail \ Waiting, packs |-> Packs, calls |-> Calls, crashes |-> Crashes,
            added |-> {}, misnamed |-> {}, refused |-> {}]

At(t, at)   == line[t].at = at
Goes(t, at) == line' = [line EXCEPT ![t].at = at]

\* clear_flagged_file() and the end of a session: all flags of the line
Freed(t) == [n \in Nodes |-> IF busy[n] = t THEN None ELSE busy[n]]

-----------------------------------------------------------------------------
(* Writing mail *)

\* open_packet(): what was exported or entered is added to the packet of its node.
Export(m) ==
  /\ m \in env.fresh /\ env' = [env EXCEPT !.fresh = @ \ {m}]
  /\ xpr' = [xpr EXCEPT ![Dest[m]] = @ \cup {m}]
  /\ UNCHANGED <<aside, out, pkt, shelf, stray, bundle, lo, busy, line, arrived>>

-----------------------------------------------------------------------------
(* pack_outbound() *)

\* Faulty: what was left is not taken out of the way.
BeginAtOnce(t) ==
  /\ t \in Packers /\ At(t, "idle")
  /\ env.packs > 0 /\ env' = [env EXCEPT !.packs = @ - 1]
  /\ \E r \in Routes : line' = [line EXCEPT ![t] = [Idle EXCEPT !.at = "next", !.route = r]]
  /\ UNCHANGED <<packets, bundle, lo, busy, arrived>>

\* What an earlier run has left as .PKT is renamed, so that it is not packed for
\* some other node.
Begin(t) ==
  /\ t \in Packers /\ At(t, "idle")
  /\ env.packs > 0 /\ env' = [env EXCEPT !.packs = @ - 1]
  /\ \E r \in Routes : line' = [line EXCEPT ![t] = [Idle EXCEPT !.at = "next", !.route = r]]
  /\ shelf' = shelf \cup pkt /\ pkt' = {}
  /\ UNCHANGED <<xpr, aside, out, stray, bundle, lo, busy, arrived>>

Command(t) == line[t].route[line[t].cmd]

\* The next line of ROUTE.CFG.  Route-To asks for the flag of the hub at once.
NextCommand(t) ==
  LET c == line[t].route[line[t].cmd + 1]
      route == c.cmd = "route"
      l == [line[t] EXCEPT !.cmd = @ + 1, !.at = "find"]
  IN
  /\ At(t, "next") /\ line[t].cmd < Len(line[t].route)
  /\ line' = [line EXCEPT ![t] =
       [l EXCEPT !.todo   = IF route THEN c.nodes \cup {c.hub} ELSE c.nodes,
                 !.nopack = route /\ busy[c.hub] # None]]
  /\ busy' = IF route /\ busy[c.hub] = None THEN [busy EXCEPT ![c.hub] = t] ELSE busy
  /\ UNCHANGED <<packets, bundle, lo, arrived, env>>

\* Nothing more: with Route-To what was found is packed now.
FindNone(t) ==
  LET c == Command(t) IN
  /\ At(t, "find")
  /\ \A n \in line[t].todo : xpr[n] = {}
  /\ IF c.cmd = "route" /\ ~line[t].nopack
     THEN line' = [line EXCEPT ![t].at = "list", ![t].node = c.hub] /\ UNCHANGED busy
     ELSE Goes(t, "next") /\ busy' = Freed(t)
  /\ UNCHANGED <<packets, bundle, lo, arrived, env>>

\* A packet that findfirst() or findnext() finds for the command gets another name, and
\* the line goes on with at.  Send-To for a group of nodes leaves the name in blko.
Found(t, n, at) ==
  /\ At(t, "find") /\ n \in line[t].todo /\ xpr[n] # {}
  /\ xpr' = [xpr EXCEPT ![n] = {}]
  /\ line' = [line EXCEPT ![t].at = at, ![t].todo = @ \ {n},
                ![t].node = IF Command(t).cmd = "route" THEN @ ELSE n,
                ![t].blko = IF Command(t).cmd = "sendall" THEN n ELSE @]

\* The flag is ours: rename() to a .PKT with a name of its own.
TakePacket(t, n) ==
  LET route == Command(t).cmd = "route" IN
  /\ Found(t, n, IF route THEN "find" ELSE "list")
  /\ IF route THEN ~line[t].nopack /\ UNCHANGED busy
     ELSE busy[n] \in {None, t} /\ busy' = [busy EXCEPT ![n] = t]
  /\ pkt' = pkt \cup xpr[n]
  /\ UNCHANGED <<aside, out, shelf, stray, bundle, lo, arrived, env>>

\* The flag is another's: rename() to .X$R, again and again while there is one of
\* that name.  Send-To for a single node takes the name from blko, whatever the last
\* search was for.
SetAside(t, n) ==
  LET c == Command(t)
      as == IF c.cmd = "send" THEN line[t].blko ELSE n
  IN
  /\ Found(t, n, "find")
  /\ IF c.cmd = "route" THEN line[t].nopack ELSE busy[n] \notin {None, t}
  /\ IF as = None THEN stray = {} /\ stray' = xpr[n] /\ UNCHANGED <<aside, env>>
     ELSE /\ aside[as] = {} /\ aside' = [aside EXCEPT ![as] = xpr[n]] /\ UNCHANGED stray
          /\ env' = IF as = n THEN env ELSE [env EXCEPT !.misnamed = @ \cup xpr[n]]
  /\ UNCHANGED <<out, pkt, shelf, bundle, lo, busy, arrived>>

Line(d) == [name |-> d, sent |-> FALSE]
Lists(n, i, d) == \E j \in DOMAIN lo[n][i] : lo[n][i][j] = Line(d)

\* The next packet of the command, or the next command
Packed(t) ==
  /\ Goes(t, IF Command(t).cmd = "route" THEN "next" ELSE "find")
  /\ busy' = Freed(t)

\* The bundle is the first that is found, or if that is empty the one after it.
\* call_packer() puts it on the list before there is anything in it.
ListBundle(t) ==
  LET n == line[t].node
      i == CHOOSE j \in DOMAIN Flags : Flags[j] = Command(t).flag
      there == DOMAIN bundle[n]
  IN
  /\ At(t, "list")
  /\ \E found \in IF there = {} THEN {0} ELSE there :
       LET spent == found \in there /\ bundle[n][found] = {}
           d     == IF spent THEN (found + 1) % Names ELSE found
       IN
       /\ bundle' = IF spent THEN [bundle EXCEPT ![n] = [e \in there \ {found} |-> @[e]]] ELSE bundle
       /\ IF pkt = {} THEN Packed(t) /\ UNCHANGED <<lo, env>>
          ELSE /\ lo' = IF Lists(n, i, d) THEN lo ELSE [lo EXCEPT ![n][i] = Append(@, Line(d))]
               /\ env' = [env EXCEPT !.refused = @ \ {<<n, d>>}]
               /\ line' = [line EXCEPT ![t].at = "archive", ![t].name = d] /\ UNCHANGED busy
  /\ UNCHANGED <<packets, arrived>>

\* The archiver moves all *.PKT into the bundle.  If it fails, before or after it has
\* written the bundle, rename_noarc_packet() takes them out of the way.
Archive(t) ==
  LET n == line[t].node
      b == bundle[n]
      d == line[t].name
      Added == [bundle EXCEPT ![n] =
                  [e \in DOMAIN b \cup {d} |-> (IF e \in DOMAIN b THEN b[e] ELSE {})
                                                  \cup (IF e = d THEN pkt ELSE {})]]
  IN
  /\ At(t, "archive") /\ Packed(t)
  /\ \/ bundle' = Added /\ UNCHANGED shelf
     \/ bundle' \in {bundle, Added} /\ shelf' = shelf \cup pkt
  /\ pkt' = {}
  /\ UNCHANGED <<xpr, aside, out, stray, lo, arrived, env>>

PackDone(t) ==
  /\ At(t, "next") /\ line[t].cmd = Len(line[t].route)
  /\ line' = [line EXCEPT ![t] = [Idle EXCEPT !.at = "restore", !.todo = Nodes]]
  /\ busy' = Freed(t)
  /\ UNCHANGED <<packets, bundle, lo, arrived, env>>

\* A session has the .OUT open.
Open(n) == \E u \in Lines : line[u].at \in {"send", "sent"} /\ line[u].node = n /\ line[u].ext = 0

\* clear_temp_file(), without a look at the flags: an .X$R becomes the .OUT or is added
\* to it by copy_mail_packet(), which gives up if it cannot open it.  The copy is one step:
\* no session finds the .OUT open, or sends the half of it, and no process dies in the middle.
Restore(t) ==
  /\ At(t, "restore")
  /\ \E n \in line[t].todo :
       /\ aside[n] # {}
       /\ line' = [line EXCEPT ![t].todo = @ \ {n}]
       /\ IF out[n] # {} /\ Open(n) THEN UNCHANGED <<aside, out, env>>
          ELSE /\ out' = [out EXCEPT ![n] = @ \cup aside[n]]
               /\ aside' = [aside EXCEPT ![n] = {}]
               /\ env' = IF out[n] = {} THEN env ELSE [env EXCEPT !.added = @ \cup aside[n]]
  /\ UNCHANGED <<xpr, pkt, shelf, stray, bundle, lo, busy, arrived>>

RestoreDone(t) ==
  /\ At(t, "restore")
  /\ \A n \in line[t].todo : aside[n] = {}
  /\ line' = [line EXCEPT ![t] = Idle]
  /\ UNCHANGED <<packets, bundle, lo, busy, arrived, env>>

Pack(t) ==
  \/ Begin(t) \/ NextCommand(t) \/ FindNone(t)
  \/ \E n \in Nodes : TakePacket(t, n) \/ SetAside(t, n)
  \/ ListBundle(t) \/ Archive(t)
  \/ PackDone(t) \/ Restore(t) \/ RestoreDone(t)

-----------------------------------------------------------------------------
(* Sessions: getfname() *)

\* The other system has been called or calls, and the flags of its addresses are
\* taken that can be had.
Connect(t) ==
  /\ t \in Callers /\ At(t, "idle")
  /\ env.calls > 0 /\ env' = [env EXCEPT !.calls = @ - 1]
  /\ \E list \in Sessions, orig \in BOOLEAN :
       LET ok == [k \in DOMAIN list |-> busy[list[k]] = None] IN
       /\ orig => \E k \in DOMAIN list : ok[k]
       /\ line' = [line EXCEPT ![t] = [Idle EXCEPT !.at = "scan", !.list = list, !.ok = ok,
                                          !.orig = orig, !.k = 1, !.node = list[1]]]
       /\ busy' = [n \in Nodes |-> IF \E k \in DOMAIN list : list[k] = n /\ ok[k] THEN t ELSE busy[n]]
  /\ UNCHANGED <<packets, bundle, lo, arrived>>

\* A file has been found: after HALT it is opened and nothing more.
Offer(l) == IF l.halted THEN "done" ELSE "send"

SendOut(t) ==
  LET l == line[t] IN
  /\ At(t, "scan") /\ l.ok[l.k] /\ l.ext = 0
  /\ out[l.node] # {}
  /\ Goes(t, Offer(l))
  /\ UNCHANGED <<packets, bundle, lo, busy, arrived, env>>

\* A list that is not passed over: the caller does not send what is on hold.
Reads(l, i) == ~(l.orig /\ Flags[i] = "H")

\* The lines of list i still to be read that are not struck off and whose file exists
Due(l, i) ==
  {j \in DOMAIN lo[l.node][i] :
     /\ Reads(l, i) /\ i >= l.ext /\ (i = l.ext => j > l.pos)
     /\ ~lo[l.node][i][j].sent
     /\ lo[l.node][i][j].name \in DOMAIN bundle[l.node]}

\* A list read to its end is deleted.
Without(l, lists) ==
  [lo EXCEPT ![l.node] = [i \in DOMAIN Flags |-> IF i \in lists /\ i >= l.ext /\ Reads(l, i)
                                                 THEN <<>> ELSE @[i]]]

\* rdflo, nxtout: the next line in the lists
SendListed(t) ==
  LET l == line[t] IN
  /\ At(t, "scan") /\ l.ok[l.k] /\ (l.ext = 0 => out[l.node] = {})
  /\ \E i \in DOMAIN Flags : \E j \in Due(l, i) :
       /\ \A h \in 1 .. i - 1 : Due(l, h) = {}
       /\ \A h \in Due(l, i) : j <= h
       /\ lo' = Without(l, 1 .. i - 1)
       /\ line' = [line EXCEPT ![t] = [l EXCEPT !.at = Offer(l), !.ext = i, !.pos = j,
                                               !.name = lo[l.node][i][j].name]]
  /\ UNCHANGED <<packets, bundle, busy, arrived, env>>

\* INITIAL_XFER for the next address, if there is one
NextAddress(l) ==
  IF l.k < Len(l.list)
  THEN [l EXCEPT !.at = "scan", !.k = @ + 1, !.node = l.list[l.k + 1], !.ext = 0, !.pos = 0]
  ELSE [l EXCEPT !.at = "done"]

\* end_send: nothing more for this address, or its flag is another line's.
EndAddress(t) ==
  LET l == line[t] IN
  /\ At(t, "scan")
  /\ IF l.ok[l.k]
     THEN /\ (l.ext = 0 => out[l.node] = {}) /\ \A i \in DOMAIN Flags : Due(l, i) = {}
          /\ lo' = Without(l, DOMAIN Flags)
     ELSE UNCHANGED lo
  /\ line' = [line EXCEPT ![t] = NextAddress(l)]
  /\ UNCHANGED <<packets, bundle, busy, arrived, env>>

Contents(l) == IF l.ext = 0 THEN out[l.node] ELSE bundle[l.node][l.name]

\* The other side has all of the file.
Arrive(t) ==
  /\ At(t, "send") /\ Goes(t, "sent")
  /\ arrived' = arrived \cup (Contents(line[t]) \X {line[t].node})
  /\ UNCHANGED <<packets, bundle, lo, busy, env>>

\* It says so, and getfname(GOOD_XFER) closes the file.
Acknowledged(t) ==
  /\ At(t, "sent") /\ Goes(t, "unlink")
  /\ UNCHANGED <<packets, bundle, lo, busy, arrived, env>>

\* Faulty: Do_after is not cleared.
RefusedUnlinking(t) ==
  /\ At(t, "send") /\ Goes(t, "unlink")
  /\ env' = [env EXCEPT !.refused = @ \cup {<<line[t].node, line[t].name>>}]
  /\ UNCHANGED <<packets, bundle, lo, busy, arrived>>

\* It refuses the file, which has it struck off just the same.
Refused(t) ==
  LET l == line[t] IN
  /\ At(t, "send")
  /\ IF l.ext = 0 THEN line' = [line EXCEPT ![t].at = "scan", ![t].ext = 1] /\ UNCHANGED env
     ELSE Goes(t, "strike") /\ env' = [env EXCEPT !.refused = @ \cup {<<l.node, l.name>>}]
  /\ UNCHANGED <<packets, bundle, lo, busy, arrived>>

\* Cleanup after a good transfer: an .OUT is deleted, a bundle truncated.
Unlink(t) ==
  LET l == line[t] IN
  /\ At(t, "unlink")
  /\ IF l.ext = 0
     THEN /\ out' = [out EXCEPT ![l.node] = {}] /\ UNCHANGED bundle
          /\ line' = [line EXCEPT ![t].at = "scan", ![t].ext = 1]
     ELSE /\ bundle' = [bundle EXCEPT ![l.node][l.name] = {}] /\ UNCHANGED out
          /\ Goes(t, "strike")
  /\ UNCHANGED <<xpr, aside, pkt, shelf, stray, lo, busy, arrived, env>>

\* The line is marked with ~.
Strike(t) ==
  LET l == line[t] IN
  /\ At(t, "strike") /\ Goes(t, "scan")
  /\ lo' = [lo EXCEPT ![l.node][l.ext][l.pos].sent = TRUE]
  /\ UNCHANGED <<packets, bundle, busy, arrived, env>>

\* Faulty: nothing counts what is not sent any more.
HaltUncounted(t) ==
  LET l == line[t] IN
  /\ l.at \in {"send", "sent"}
  /\ line' = [line EXCEPT ![t] = NextAddress([l EXCEPT !.halted = TRUE])]
  /\ lo' = Without(l, DOMAIN Flags)
  /\ UNCHANGED <<packets, bundle, busy, arrived, env>>

\* HALT from the other side: getfname(ABORT_XFER) goes through the rest of the
\* address without sending and counts what failed and what it would have sent, so that
\* only lists go of which nothing is left to send.  Then it looks for the first file
\* of the next address.
Halt(t) ==
  LET l == line[t] IN
  /\ l.at \in {"send", "sent"}
  /\ line' = [line EXCEPT ![t] = NextAddress([l EXCEPT !.halted = TRUE])]
  /\ lo' = Without(l, {i \in DOMAIN Flags : i # l.ext /\ Due(l, i) = {}})
  /\ UNCHANGED <<packets, bundle, busy, arrived, env>>

\* The session ends, well or badly.
HangUp(t) ==
  /\ line[t].at \in {"scan", "send", "sent", "done"}
  /\ line' = [line EXCEPT ![t] = Idle] /\ busy' = Freed(t)
  /\ UNCHANGED <<packets, bundle, lo, arrived, env>>

Session(t) ==
  \/ Connect(t) \/ SendOut(t) \/ SendListed(t) \/ EndAddress(t)
  \/ Arrive(t) \/ Acknowledged(t) \/ Refused(t) \/ Unlink(t) \/ Strike(t)
  \/ Halt(t) \/ HangUp(t)

-----------------------------------------------------------------------------
\* The process dies; its flags stay on the disk.
Crash(t) ==
  /\ ~At(t, "idle") /\ env.crashes > 0
  /\ env' = [env EXCEPT !.crashes = @ - 1]
  /\ line' = [line EXCEPT ![t] = Idle]
  /\ busy' = [n \in Nodes |-> IF busy[n] = t THEN "left" ELSE busy[n]]
  /\ UNCHANGED <<packets, bundle, lo, arrived>>

\* Somebody deletes what it has left.
DeleteFlags ==
  /\ \E n \in Nodes : busy[n] = "left"
  /\ busy' = [n \in Nodes |-> IF busy[n] = "left" THEN None ELSE busy[n]]
  /\ UNCHANGED <<packets, bundle, lo, line, arrived, env>>

Next ==
  \/ \E m \in Mail : Export(m)
  \/ \E t \in Lines : Pack(t) \/ Session(t) \/ Crash(t)
  \/ DeleteFlags

Spec == Init /\ [][Next]_vars

-----------------------------------------------------------------------------
(* Properties *)

\* Names of bundles, directories of them, lines of a .?LO file, what a process is doing
Digits  == 0 .. Names - 1
Dirs    == UNION {[D -> SUBSET Mail] : D \in SUBSET Digits}
Entries == [name : Digits, sent : BOOLEAN]
Records ==
  [at : {"idle", "next", "find", "list", "archive", "restore",
         "scan", "send", "sent", "unlink", "strike", "done"},
   route : Routes \cup {<<>>}, cmd : Nat, todo : SUBSET Nodes, node : Nodes \cup {None},
   nopack : BOOLEAN, blko : Nodes \cup {None}, name : Digits,
   list : Sessions \cup {<<>>}, ok : Seq(BOOLEAN), orig : BOOLEAN, k : Nat,
   ext : {0} \cup DOMAIN Flags, pos : Nat, halted : BOOLEAN]

Histories ==
  [fresh : SUBSET Mail, packs : Nat, calls : Nat, crashes : Nat, added : SUBSET Mail,
   misnamed : SUBSET Mail, refused : SUBSET (Nodes \X Digits)]

\* What is on the disk is mail, in bundles whose names keep to the digits there are, and
\* a process works on addresses, lists and lines there are.
TypeOK ==
  /\ xpr \in [Nodes -> SUBSET Mail] /\ aside \in [Nodes -> SUBSET Mail]
  /\ out \in [Nodes -> SUBSET Mail]
  /\ pkt \subseteq Mail /\ shelf \subseteq Mail /\ stray \subseteq Mail
  /\ bundle \in [Nodes -> Dirs]
  /\ lo \in [Nodes -> [DOMAIN Flags -> Seq(Entries)]]
  /\ busy \in [Nodes -> Lines \cup {None, "left"}]
  /\ line \in [Lines -> Records]
  /\ arrived \subseteq Mail \X Nodes
  /\ env \in Histories

OnDisk ==
  (UNION {xpr[n] \cup aside[n] \cup out[n] : n \in Nodes}) \cup pkt \cup shelf \cup stray
    \cup (UNION {UNION {bundle[n][d] : d \in DOMAIN bundle[n]} : n \in Nodes})

\* Mail that has been written is in some file until another system has received it,
\* whenever a process dies and whatever fails; but for what clear_temp_file() adds to an
\* .OUT, which a session may be about to delete (pack.c:158, janus.c:795).
MailKept == Mail \ (env.fresh \cup env.added) \subseteq OnDisk \cup {a[1] : a \in arrived}

\* A bundle that holds mail is on a list and not struck off, after sessions that break
\* off, halts and crashes, unless the other system refused it (janus.c:800-829).
Listed ==
  \A n \in Nodes : \A d \in DOMAIN bundle[n] :
    bundle[n][d] = {} \/ <<n, d>> \in env.refused \/ \E i \in DOMAIN Flags : Lists(n, i, d)

\* The systems ROUTE.CFG lets mail for n go to
Hubs(n) == {n} \cup UNION {{r[i].hub : i \in {j \in DOMAIN r : r[j].cmd = "route" /\ n \in r[j].nodes}}
                             : r \in Routes}

\* Mail arrives at its node or at the hub it is routed to, and nowhere else, whatever an
\* earlier packer has left behind; but for packets set aside under another's name
\* (pack.c:523), and while one line packs at a time: all take *.PKT (pack.c:773).
WhereItMay == \A a \in arrived : a[1] \in env.misnamed \/ a[2] \in Hubs(Dest[a[1]])
=============================================================================
