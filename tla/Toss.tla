---------------------------------- MODULE Toss ----------------------------------
(***************************************************************************)
(* import_mail() (import.c) run by several lines on one inbound directory: *)
(* bundles are unpacked, packets taken one by one, and their messages      *)
(* filed in the message bases.                                             *)
(*                                                                         *)
(* A base that is shared is kept open, and thereby locked, while a line    *)
(* files messages in its areas.  Netmail, *.MSG and passthrough areas have *)
(* none, and what becomes of their messages is left out; that they close   *)
(* the base of the area before is not.  What is refused (a wrong origin, a *)
(* duplicate, an unknown area) goes to directories without locks, which    *)
(* are left out too.                                                       *)
(***************************************************************************)
EXTENDS Integers, Sequences, FiniteSets

CONSTANTS
  Lines,      \* the processes that toss
  Content,    \* packets, the oldest first: sequences of messages [id, area]
  Loose,      \* packets in the inbound directory to begin with
  Bundle,     \* the packets of each bundle
  Base,       \* the base of each area that is configured; NoBase for none
  Squish,     \* bases that a line keeps locked at the end of a packet
  MaxDupes,   \* MAXDUPES
  MaxNumber,  \* the highest number of a BAD_PKT (999)
  Failures,   \* writes that fail: of a message or by the unarchiver
  Crashes,    \* processes that die
  None, NoBase

Packets == DOMAIN Content
Bases   == {Base[a] : a \in DOMAIN Base} \ {NoBase}
Message == UNION {{Content[p][i] : i \in DOMAIN Content[p]} : p \in Packets}
Ids     == {m.id : m \in Message}
Tags    == {m.area : m \in Message} \cup DOMAIN Base
Hash    == Ids \X Tags

ASSUME TossAssumption ==
  /\ \A m \in Message : m = [id |-> m.id, area |-> m.area]
  /\ Packets \subseteq Nat /\ IsFiniteSet(Packets)
  /\ Packets = Loose \cup UNION {Bundle[b] : b \in DOMAIN Bundle}
  /\ \A p \in Packets : Content[p] \in Seq(Message)
  /\ Squish \subseteq Bases
  /\ \A a, b \in DOMAIN Base : Base[a] \in Squish /\ Base[a] = Base[b] => a = b
  /\ MaxDupes \in Nat \ {0} /\ MaxNumber \in Nat /\ Failures \in Nat /\ Crashes \in Nat
  /\ None \notin Tags \cup Packets \cup DOMAIN Bundle

VARIABLES
  bundles,   \* bundles in the inbound directory
  spoiled,   \* bundles renamed to BAD_ARC
  waiting,   \* *.PK?
  badpkt,    \* BAD_PKT.nnn: number -> packet
  stored,    \* what each base holds: [id, area, tag, n], n the place in dupes
  dupes,     \* DUPES.DAT: all hashes of an area, of which the file has the last MaxDupes
  line,      \* what each line is doing
  env        \* what is left of Failures and Crashes, and for the properties:
             \*   reopened, a packet was opened again between fclose() and unlink()
             \*   cut, messages that DUPES.DAT has and that never left a stdio buffer

inbound == <<bundles, spoiled, waiting, badpkt>>
vars == <<inbound, stored, dupes, line, env>>

States == {"idle", "unpack", "found", "spawn", "delete", "renaming", "scan", "number", "rename", "open",
           "toss", "area", "wait", "read", "flush", "close", "unlink"}
Start0 == [at |-> "idle", todo |-> {}, pkt |-> None, num |-> 0, pos |-> 1, ok |-> FALSE,
           areatag |-> None, tag |-> None, ring |-> <<>>,
           sys |-> NoBase, base |-> NoBase, buf |-> <<>>, lost |-> {}]

-----------------------------------------------------------------------------
(* The shared files *)

\* Files a line has open: bases, also those it has lost sight of, and the packet
Holds(t, b)  == line[t].base = b \/ b \in line[t].lost
Free(b)      == b = NoBase \/ \A t \in Lines : ~Holds(t, b)
Inside       == {"toss", "area", "wait", "read", "flush", "close"}
Reading(t)   == line[t].at \in Inside
Opened(n, t) == \E u \in Lines \ {t} : Reading(u) /\ line[u].num = n

\* Another line's unarchiver has the bundle open.
InUse(b, t)  == \E u \in Lines \ {t} : line[u].at = "spawn" /\ line[u].pkt = b

\* What t has in stdio buffers goes to the disk.
Written(t, buf) ==
  IF line[t].base = NoBase THEN stored ELSE [stored EXCEPT ![line[t].base] = @ \o buf]

\* What of a buffer DUPES.DAT has already
Recorded(buf) ==
  {[id |-> buf[i].id, area |-> buf[i].area] :
     i \in {k \in DOMAIN buf : buf[k].n <= Len(dupes[buf[k].area])}}

\* check_and_add_dupe() looks at the last MAXDUPES hashes
Recent(r) == {r[i] : i \in {k \in DOMAIN r : k > Len(r) - MaxDupes}}

-----------------------------------------------------------------------------
(* unpack_arcmail() *)

Goes(t, at) == line' = [line EXCEPT ![t].at = at]

\* The event or the end of a session has import_mail() called.
Begin(t) ==
  /\ line[t].at = "idle" /\ bundles \cup waiting # {}
  /\ line' = [line EXCEPT ![t].at = "unpack", ![t].todo = bundles]
  /\ UNCHANGED <<inbound, stored, dupes, env>>

\* sh_open() fails: the bundle is gone, or another line's unarchiver is at it.
SkipBundle(t) ==
  /\ line[t].at = "unpack"
  /\ \E b \in line[t].todo :
       /\ b \notin bundles \/ InUse(b, t)
       /\ line' = [line EXCEPT ![t].todo = @ \ {b}]
  /\ UNCHANGED <<inbound, stored, dupes, env>>

\* The method of the bundle is recognized and the file closed again: until the
\* unarchiver opens it, another line may find it too.
Identify(t) ==
  /\ line[t].at = "unpack"
  /\ \E b \in line[t].todo \cap bundles :
       /\ ~InUse(b, t)
       /\ line' = [line EXCEPT ![t].at = "found", ![t].pkt = b, ![t].todo = @ \ {b}]
  /\ UNCHANGED <<inbound, stored, dupes, env>>

\* spawn_program(): an unarchiver that finds no bundle fails.
Spawn(t) ==
  /\ line[t].at = "found"
  /\ Goes(t, IF line[t].pkt \in bundles THEN "spawn" ELSE "renaming")
  /\ UNCHANGED <<inbound, stored, dupes, env>>

\* It extracts the packets, or some of them and fails.
Unarchive(t) ==
  /\ line[t].at = "spawn"
  /\ \/ /\ Goes(t, "delete") /\ UNCHANGED env
        /\ waiting' = waiting \cup Bundle[line[t].pkt]
     \/ /\ Goes(t, "renaming")
        /\ env.failures > 0 /\ env' = [env EXCEPT !.failures = @ - 1]
        /\ \E some \in SUBSET Bundle[line[t].pkt] : waiting' = waiting \cup some
  /\ UNCHANGED <<bundles, spoiled, badpkt, stored, dupes>>

\* unlink().  That it may fail while another line's unarchiver reads the bundle is left
\* out: the packets are then extracted once more than the other line does anyway.
DeleteBundle(t) ==
  /\ line[t].at = "delete" /\ Goes(t, "unpack")
  /\ bundles' = bundles \ {line[t].pkt}
  /\ UNCHANGED <<spoiled, waiting, badpkt, stored, dupes, env>>

\* do ... while (rename() == -1), which ends at the first free number once the bundle
\* is not in use, and never if it has gone.
RenameBundle(t) ==
  /\ line[t].at = "renaming" /\ Goes(t, "unpack")
  /\ line[t].pkt \in bundles /\ ~InUse(line[t].pkt, t)
  /\ bundles' = bundles \ {line[t].pkt} /\ spoiled' = spoiled \cup {line[t].pkt}
  /\ UNCHANGED <<waiting, badpkt, stored, dupes, env>>

UnpackDone(t) ==
  /\ line[t].at = "unpack" /\ line[t].todo = {} /\ Goes(t, "scan")
  /\ UNCHANGED <<inbound, stored, dupes, env>>

Unpack(t) == SkipBundle(t) \/ Identify(t) \/ Spawn(t) \/ Unarchive(t) \/ DeleteBundle(t)
             \/ RenameBundle(t) \/ UnpackDone(t)

-----------------------------------------------------------------------------
(* import_mail(): one packet after the other *)

\* The oldest packet.  When there is none the import ends, and what is still locked
\* is given up.
Pick(t) ==
  /\ line[t].at = "scan"
  /\ \/ /\ waiting = {}
        /\ line' = [line EXCEPT ![t] = [Start0 EXCEPT !.lost = line[t].lost]]
     \/ \E p \in waiting :
          /\ \A q \in waiting : p <= q
          /\ line' = [line EXCEPT ![t].at = "number", ![t].pkt = p]
  /\ UNCHANGED <<inbound, stored, dupes, env>>

\* One more than the highest number there is
IsNext(n) == (\A m \in DOMAIN badpkt : m < n) /\ (n = 0 \/ n - 1 \in DOMAIN badpkt)

\* rename_bad_packet() in two steps: the directory is read, then the file renamed,
\* which fails if it has gone or there is one of that name.
Number(t) ==
  /\ line[t].at = "number"
  /\ \E n \in 0 .. MaxNumber :
       IsNext(n) /\ line' = [line EXCEPT ![t].at = "rename", ![t].num = n]
  /\ UNCHANGED <<inbound, stored, dupes, env>>

Rename(t) ==
  /\ line[t].at = "rename" /\ Goes(t, "open")
  /\ IF line[t].pkt \in waiting /\ line[t].num \notin DOMAIN badpkt
     THEN /\ waiting' = waiting \ {line[t].pkt}
          /\ badpkt' = [n \in DOMAIN badpkt \cup {line[t].num} |->
                          IF n = line[t].num THEN line[t].pkt ELSE badpkt[n]]
     ELSE UNCHANGED <<waiting, badpkt>>
  /\ UNCHANGED <<bundles, spoiled, stored, dupes, env>>

\* sh_fopen() with SH_DENYRW, which tries for 20 s when another line has the file.
\* process_packet() begins with nothing in dupecheck and sys; f1 to f5 are forgotten.
Open(t) ==
  /\ line[t].at = "open"
  /\ line[t].num \in DOMAIN badpkt /\ ~Opened(line[t].num, t)
  /\ line' = [line EXCEPT ![t] =
       [Start0 EXCEPT !.at = "toss", !.pkt = badpkt[line[t].num], !.num = line[t].num,
                      !.base = line[t].base, !.lost = line[t].lost]]
  /\ env' = [env EXCEPT !.reopened =
                @ \/ \E u \in Lines : line[u].at = "unlink" /\ line[u].num = line[t].num]
  /\ UNCHANGED <<inbound, stored, dupes>>

CannotOpen(t) ==
  /\ line[t].at = "open"
  /\ line[t].num \notin DOMAIN badpkt \/ Opened(line[t].num, t)
  /\ Goes(t, "scan")
  /\ UNCHANGED <<inbound, stored, dupes, env>>

-----------------------------------------------------------------------------
(* process_packet() and read_dupe_check() *)

InPacket(t) == line[t].pos <= Len(Content[line[t].pkt])
Msg(t)      == Content[line[t].pkt][line[t].pos]
NewArea(t)  == Msg(t).area # line[t].areatag

\* write_dupe_check(), if an area has been read
WriteDupes(t) ==
  IF line[t].areatag = None THEN UNCHANGED dupes
  ELSE dupes' = [dupes EXCEPT ![line[t].areatag] = line[t].ring]

\* Faulty: the record of the area before is given up.
LeaveAreaUnwritten(t) ==
  /\ line[t].at = "toss" /\ InPacket(t) /\ NewArea(t) /\ Goes(t, "area")
  /\ UNCHANGED <<inbound, stored, dupes, env>>

LeaveArea(t) ==
  /\ line[t].at = "toss" /\ InPacket(t) /\ NewArea(t)
  /\ WriteDupes(t) /\ Goes(t, "area")
  /\ UNCHANGED <<inbound, stored, env>>

\* Faulty: the next message is taken for one of an area to open, even when there is none.
BadAreaAgain(t) ==
  /\ line[t].at = "area" /\ Msg(t).area \notin DOMAIN Base
  /\ line' = [line EXCEPT ![t].tag = Msg(t).area, ![t].pos = @ + 1]
  /\ UNCHANGED <<inbound, stored, dupes, env>>

\* An unknown area: only sys.echotag is changed, and the message is a bad one.
BadArea(t) ==
  /\ line[t].at = "area" /\ Msg(t).area \notin DOMAIN Base
  /\ line' = [line EXCEPT ![t].at = "toss", ![t].tag = Msg(t).area, ![t].pos = @ + 1]
  /\ UNCHANGED <<inbound, stored, dupes, env>>

\* Faulty: it is closed when the new one is open.
CloseBaseLate(t) ==
  /\ line[t].at = "area" /\ Msg(t).area \in DOMAIN Base
  /\ IF line[t].sys # NoBase /\ line[t].sys = Base[Msg(t).area]
     THEN Goes(t, "read") /\ UNCHANGED stored
     ELSE /\ line' = [line EXCEPT ![t].at = "wait", ![t].buf = <<>>]
          /\ stored' = Written(t, line[t].buf)
  /\ UNCHANGED <<inbound, dupes, env>>

\* The base of the area before is closed, unless the new one is a board of it.
CloseBase(t) ==
  /\ line[t].at = "area" /\ Msg(t).area \in DOMAIN Base
  /\ IF line[t].sys # NoBase /\ line[t].sys = Base[Msg(t).area]
     THEN Goes(t, "read") /\ UNCHANGED stored
     ELSE /\ line' = [line EXCEPT ![t].at = "wait", ![t].base = NoBase, ![t].buf = <<>>]
          /\ stored' = Written(t, line[t].buf)
  /\ UNCHANGED <<inbound, dupes, env>>

\* "message base is busy. Waiting"
OpenBase(t) ==
  /\ line[t].at = "wait" /\ Free(Base[Msg(t).area])
  /\ line' = [line EXCEPT ![t].at = "read", ![t].base = Base[Msg(t).area],
                          ![t].sys = Base[Msg(t).area]]
  /\ UNCHANGED <<inbound, stored, dupes, env>>

ReadDupes(t) ==
  /\ line[t].at = "read"
  /\ LET a == Msg(t).area
     IN line' = [line EXCEPT ![t].at = "toss", ![t].areatag = a, ![t].tag = a,
                             ![t].ring = dupes[a]]
  /\ UNCHANGED <<inbound, stored, dupes, env>>

\* A message of the area of the one before.  Its hash has sys.echotag in it, which
\* after a message of an unknown area is that one's.
FileMessage(t) ==
  /\ line[t].at = "toss" /\ InPacket(t) /\ ~NewArea(t)
  /\ LET l     == line[t]
         h     == <<Msg(t).id, l.tag>>
         entry == [id |-> Msg(t).id, area |-> l.areatag, tag |-> l.tag, n |-> Len(l.ring) + 1]
         kept  == [l EXCEPT !.pos = @ + 1, !.ring = Append(@, h)]
     IN \/ /\ h \in Recent(l.ring)
           /\ line' = [line EXCEPT ![t].pos = @ + 1] /\ UNCHANGED stored
        \/ /\ h \notin Recent(l.ring) /\ l.base \in Squish
           /\ line' = [line EXCEPT ![t] = kept]
           /\ stored' = [stored EXCEPT ![l.base] = Append(@, entry)]
        \/ /\ h \notin Recent(l.ring) /\ l.base = NoBase
           /\ line' = [line EXCEPT ![t] = kept] /\ UNCHANGED stored
        \/ /\ h \notin Recent(l.ring) /\ l.base \in Bases \ Squish
           /\ line' = [line EXCEPT ![t] = [kept EXCEPT !.buf = Append(@, entry)]]
           /\ UNCHANGED stored
  /\ UNCHANGED <<inbound, dupes, env>>

\* A message that cannot be saved: process_packet() returns 0 without writing the
\* record and without closing f1 to f5.
CannotSave(t) ==
  /\ line[t].at = "toss" /\ InPacket(t) /\ ~NewArea(t)
  /\ <<Msg(t).id, line[t].tag>> \notin Recent(line[t].ring)
  /\ env.failures > 0
  /\ env' = [env EXCEPT !.failures = @ - 1, !.cut = @ \cup Recorded(line[t].buf)]
  /\ LET l == line[t]
     IN line' = [line EXCEPT ![t] =
          IF l.base \in Squish \cup {NoBase} THEN [l EXCEPT !.at = "close", !.ok = FALSE]
          ELSE [l EXCEPT !.at = "close", !.ok = FALSE, !.base = NoBase, !.buf = <<>>,
                         !.lost = l.lost \cup {l.base}]]
  /\ UNCHANGED <<inbound, stored, dupes>>

\* The end of the packet: the record is written before the base is closed.
EndPacket(t) ==
  /\ line[t].at = "toss" /\ ~InPacket(t)
  /\ WriteDupes(t) /\ Goes(t, "flush")
  /\ UNCHANGED <<inbound, stored, env>>

Flush(t) ==
  /\ line[t].at = "flush"
  /\ LET l == line[t]
     IN line' = [line EXCEPT ![t] =
          [l EXCEPT !.at = "close", !.ok = TRUE, !.buf = <<>>,
                    !.base = IF l.base \in Squish THEN l.base ELSE NoBase]]
  /\ stored' = Written(t, line[t].buf)
  /\ UNCHANGED <<inbound, dupes, env>>

\* Faulty: a packet that could not be processed is deleted like the others.
ClosePacketDone(t) ==
  /\ line[t].at = "close" /\ Goes(t, "unlink")
  /\ UNCHANGED <<inbound, stored, dupes, env>>

\* fclose(fp).  After an error no other packet of the directory is looked at.  A packet
\* whose header has another version than PKTVER is left out: it is not read, and deleted
\* or kept by the "i" of the packet before it.
ClosePacket(t) ==
  /\ line[t].at = "close"
  /\ line' = IF line[t].ok THEN [line EXCEPT ![t].at = "unlink"]
             ELSE [line EXCEPT ![t] = [Start0 EXCEPT !.lost = line[t].lost]]
  /\ UNCHANGED <<inbound, stored, dupes, env>>

\* unlink(), by name; it fails if another line has the file open by now.
Unlink(t) ==
  /\ line[t].at = "unlink" /\ Goes(t, "scan")
  /\ badpkt' = IF Opened(line[t].num, t) THEN badpkt
               ELSE [n \in DOMAIN badpkt \ {line[t].num} |-> badpkt[n]]
  /\ UNCHANGED <<bundles, spoiled, waiting, stored, dupes, env>>

Tosses(t) ==
  \/ Pick(t) \/ Number(t) \/ Rename(t) \/ Open(t) \/ CannotOpen(t)
  \/ LeaveArea(t) \/ BadArea(t) \/ CloseBase(t) \/ OpenBase(t) \/ ReadDupes(t)
  \/ FileMessage(t) \/ EndPacket(t) \/ Flush(t) \/ ClosePacket(t) \/ Unlink(t)

\* A process dies; its files are closed, and what was in stdio buffers is written or not.
Crash(t) ==
  /\ line[t].at # "idle" /\ env.crashes > 0
  /\ LET buf == line[t].buf
     IN \E k \in 0 .. Len(buf) :
          /\ stored' = Written(t, SubSeq(buf, 1, k))
          /\ env' = [env EXCEPT !.crashes = @ - 1,
                                !.cut = @ \cup Recorded(SubSeq(buf, k + 1, Len(buf)))]
  /\ line' = [line EXCEPT ![t] = Start0]
  /\ UNCHANGED <<inbound, dupes>>

-----------------------------------------------------------------------------
Init ==
  /\ bundles = DOMAIN Bundle /\ spoiled = {} /\ waiting = Loose /\ badpkt = <<>>
  /\ stored = [b \in Bases |-> <<>>] /\ dupes = [a \in DOMAIN Base |-> <<>>]
  /\ line = [t \in Lines |-> Start0]
  /\ env = [failures |-> Failures, crashes |-> Crashes, reopened |-> FALSE,
            cut |-> {}]

Step(t) == Unpack(t) \/ Tosses(t)

Next == \E t \in Lines : Begin(t) \/ Step(t) \/ CannotSave(t) \/ Crash(t)

Spec     == Init /\ [][Next]_vars
\* No step waits but for a base; when the import begins is the schedule's affair.
FairSpec == Spec /\ \A t \in Lines : WF_vars(Step(t))

-----------------------------------------------------------------------------
(* Properties *)

Entry == [id : Ids, area : DOMAIN Base, tag : Tags, n : Nat \ {0}]

LineType ==
  [at : States, todo : SUBSET DOMAIN Bundle, pkt : Packets \cup DOMAIN Bundle \cup {None},
   num : 0 .. MaxNumber, pos : Nat \ {0}, ok : BOOLEAN, areatag : DOMAIN Base \cup {None},
   tag : Tags \cup {None}, ring : Seq(Hash), sys : Bases \cup {NoBase},
   base : Bases \cup {NoBase}, buf : Seq(Entry),
   lost : SUBSET Bases]

\* The type invariant: among the rest, that an area is only ever opened for a message
\* that is there and is of another area than the one before.
TypeOK ==
  /\ bundles \subseteq DOMAIN Bundle /\ spoiled \subseteq DOMAIN Bundle
  /\ waiting \subseteq Packets
  /\ DOMAIN badpkt \subseteq 0 .. MaxNumber /\ \A n \in DOMAIN badpkt : badpkt[n] \in Packets
  /\ stored \in [Bases -> Seq(Entry)] /\ dupes \in [DOMAIN Base -> Seq(Hash)]
  /\ env \in [failures : 0 .. Failures, crashes : 0 .. Crashes, reopened : BOOLEAN,
              cut : SUBSET [id : Ids, area : DOMAIN Base]]
  /\ line \in [Lines -> LineType]
  /\ \A t \in Lines :
       /\ line[t].at \in {"found", "spawn", "delete", "renaming"} => line[t].pkt \in DOMAIN Bundle
       /\ line[t].at \in {"number", "rename"} \cup Inside => line[t].pkt \in Packets
       /\ line[t].at \in {"area", "wait", "read"} => InPacket(t) /\ NewArea(t)

Calm == env.failures = Failures /\ env.crashes = Crashes

\* As long as no write has failed and no process has died, the base of an area gets a
\* message once, however often it comes, in however many packets and on whatever lines,
\* unless MAXDUPES others have come in between or it follows one of an unknown area.  After
\* a failure DUPES.DAT and the bases may differ by what was in stdio buffers.
TossedOnce == Calm =>
  \A b \in Bases : \A i, j \in DOMAIN stored[b] :
    LET e == stored[b][i]  f == stored[b][j]
    IN  /\ i < j /\ e.id = f.id /\ e.area = f.area
        /\ e.tag = e.area /\ f.tag = f.area
        => f.n - e.n > MaxDupes

OnDisk(m) ==
  \E p \in waiting \cup {badpkt[n] : n \in DOMAIN badpkt}
           \cup UNION {Bundle[b] : b \in bundles \cup spoiled} :
    \E i \in DOMAIN Content[p] : Content[p][i] = m
Filed(m) ==
  LET s == stored[Base[m.area]]
  IN  \E i \in DOMAIN s : s[i].id = m.id /\ s[i].area = m.area

\* Whatever fails or dies, no message of an area with a base vanishes: it has been
\* filed, or some packet or bundle that has it is still there.
NothingLost == ~env.reopened =>
  \A m \in Message \ env.cut :
    m.area \in DOMAIN Base /\ Base[m.area] # NoBase => Filed(m) \/ OnDisk(m)

\* What nothing ends: the rename loop for a bundle that another line has deleted, and
\* the wait for a base left open where process_packet() gave up.
Hung(t) ==
  \/ line[t].at = "renaming" /\ line[t].pkt \notin bundles
  \/ line[t].at = "wait" /\ \E u \in Lines : Base[Msg(t).area] \in line[u].lost

\* The lines do not wait for each other's bases for ever: every import ends, or hangs
\* in one of those two.
TossEnds == \A t \in Lines : line[t].at # "idle" ~> (line[t].at = "idle" \/ Hung(t))
=============================================================================
