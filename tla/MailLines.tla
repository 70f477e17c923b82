------------------------------- MODULE MailLines -------------------------------
(***************************************************************************)
(* The lines of a multiline system at work on one outbound: each dials the *)
(* systems it has mail for, answers calls, and packs mail, and asks        *)
(* flag_file() (AddressLocks) before it touches an address.  One process   *)
(* per line; a mail session ends with get_down(), which exits the process, *)
(* and a fresh one starts in its place.                                    *)
(*                                                                         *)
(* The transfer itself is Janus.tla; here a session is the addresses of    *)
(* the other system, in the order they are served.                         *)
(***************************************************************************)
EXTENDS AddressLocks, Sequences

CONSTANTS
  Kinds,     \* sessions the system knows: "janus" and "zed" (EMSI), "wazoo", "fts1"
  Calls,     \* addresses the call queue dials
  Reached,   \* Reached[a]: the address lists the system dialled as a may present
  Callers,   \* the address lists systems that call in may present
  Packed,    \* addresses with mail to be packed
  PackMax,   \* most addresses one packing run flags before it clears them
  FileReq,   \* file requests are made in Janus sessions
  DialLocks  \* bound of the model: slots a process may have used when it starts a
             \* call or answers one

ASSUME KindsAssumption == Kinds \subseteq {"janus", "zed", "wazoo", "fts1"}

\* The other system presents at least one address.
ASSUME LinesAssumption ==
  /\ Calls \subseteq Addresses
  /\ \A a \in Calls : [a EXCEPT !.point = 0] \in Addresses
  /\ Reached \in [Calls -> SUBSET (Seq(Addresses) \ {<<>>})]
  /\ Callers \subseteq Seq(Addresses) \ {<<>>}
  /\ Packed \subseteq Addresses

VARIABLE
  line  \* line[t]: what task t is doing, in a session of which kind and called
        \* by whom, the address it dialled, the other system's addresses, which
        \* of them it may send to (oksend), the one it has come to, and the one
        \* whose request list it looks for

vars == <<dirs, bsy, held, numlocks, pending, line>>

Idle == [pc |-> "idle", kind |-> "none", orig |-> FALSE, call |-> NoSlot,
         list |-> <<>>, ok |-> <<>>, k |-> 0, req |-> 0]

Init == LocksInit /\ line = [t \in Tasks |-> Idle]

Become(t, l) == line' = [line EXCEPT ![t] = l]
At(t, pc)    == line[t].pc = pc

\* flag_file(TEST_AND_SET, a) as its caller sees it, which goes on as l when it
\* returns FALSE and as m when it returns TRUE.
TestAndSet(t, a, l, m) ==
  \/ Own(t, a) /\ Become(t, l) /\ UNCHANGED lockVars
  \/ Open(t, a) /\ UNCHANGED line
  \/ CannotOpen(t, a) /\ Become(t, m) /\ UNCHANGED lockVars
  \/ Rename(t) /\ Become(t, l)
  \/ CannotRename(t) /\ Become(t, m)

-----------------------------------------------------------------------------
(* The outbound call *)

Dial(t) ==
  /\ At(t, "idle")
  /\ numlocks[t] <= DialLocks
  /\ \E a \in Calls : Become(t, [Idle EXCEPT !.pc = "dialing", !.call = a])
  /\ UNCHANGED lockVars

LockCall(t) ==
  /\ At(t, "dialing")
  /\ TestAndSet(t, line[t].call, [line[t] EXCEPT !.pc = "calling"], Idle)

\* Nobody answers; the flag is cleared.
NoAnswer(t) ==
  /\ At(t, "calling")
  /\ Clear(t, line[t].call)
  /\ Become(t, Idle)

-----------------------------------------------------------------------------
(* Sessions *)

Session(l, kind, list) == [l EXCEPT !.pc = "locking", !.kind = kind, !.list = list, !.k = 1]

\* A session of the first protocol asks for no flag.
Fts1Session(l, a) ==
  [l EXCEPT !.pc = "session", !.kind = "fts1", !.list = <<a>>, !.ok = <<TRUE>>]

\* poll() drops the point of the address; EMSI adds the node to those presented.
DialledNode(t) == [line[t].call EXCEPT !.point = 0]

Connect(t) ==
  LET l == [line[t] EXCEPT !.orig = TRUE] IN
  /\ At(t, "calling")
  /\ \/ \E kind \in Kinds \cap {"janus", "zed"}, akas \in Reached[line[t].call] :
          Become(t, Session(l, kind, Append(akas, DialledNode(t))))
     \/ "wazoo" \in Kinds /\ Become(t, Session(l, "wazoo", <<DialledNode(t)>>))
     \/ "fts1" \in Kinds /\ Become(t, Fts1Session(l, DialledNode(t)))
  /\ UNCHANGED lockVars

Answer(t) ==
  /\ At(t, "idle")
  /\ numlocks[t] <= DialLocks
  /\ \E akas \in Callers :
       \/ \E kind \in Kinds \cap {"janus", "zed"} : Become(t, Session(Idle, kind, akas))
       \/ akas[1].point = 0 /\ "wazoo" \in Kinds /\ Become(t, Session(Idle, "wazoo", <<akas[1]>>))
       \/ akas[1].point = 0 /\ "fts1" \in Kinds /\ Become(t, Fts1Session(Idle, akas[1]))
  /\ UNCHANGED lockVars

\* EMSI asks for the flag of every address and remembers which it got; WaZOO
\* asks for one and goes straight to the end of the session if it is not free.
LockNext(t) ==
  LET l == line[t]
      Next(oksend) == [l EXCEPT !.ok = Append(@, oksend),
                         !.pc = IF l.k < Len(l.list) THEN "locking" ELSE "session",
                         !.k  = IF l.k < Len(l.list) THEN @ + 1 ELSE 0]
  IN
  /\ At(t, "locking")
  /\ TestAndSet(t, l.list[l.k], Next(TRUE),
       IF l.kind = "wazoo" THEN [l EXCEPT !.pc = "clearing"] ELSE Next(FALSE))

\* Faulty: Janus does not look either.
MaySendAnyway(l, j) == j \in DOMAIN l.ok

\* Janus passes over an address whose flag it did not get (have_lock); the
\* ZModem sender of an EMSI session does not look.
MaySend(l, j) == l.kind = "zed" \/ l.ok[j]

\* The session turns to the mail of a later address; those in between are
\* passed over, for want of the flag or for a wrong password.
Serve(t) ==
  /\ At(t, "session")
  /\ line[t].req = 0
  /\ \E j \in line[t].k + 1 .. Len(line[t].list) :
       MaySend(line[t], j) /\ Become(t, [line[t] EXCEPT !.k = j])
  /\ UNCHANGED lockVars

\* Janus looks for a list of files to request: the first address it can flag
\* and that has one.
AskFiles(t) ==
  /\ FileReq
  /\ At(t, "session")
  /\ line[t].kind = "janus"
  /\ line[t].req = 0
  /\ Become(t, [line[t] EXCEPT !.req = 1])
  /\ UNCHANGED lockVars

LockRequest(t) ==
  LET l == line[t]
      Found   == [l EXCEPT !.req = 0]
      Further == [l EXCEPT !.req = IF @ < Len(l.list) THEN @ + 1 ELSE 0]
  IN
  /\ l.req # 0
  /\ \E n \in {Found, Further} : TestAndSet(t, l.list[l.req], n, Further)

\* The session ends, well or badly.
Hangup(t) ==
  /\ At(t, "session")
  /\ line[t].req = 0
  /\ Become(t, IF line[t].kind = "fts1" THEN [line[t] EXCEPT !.pc = "after"]
               ELSE [line[t] EXCEPT !.pc = "clearing", !.k = 1])
  /\ UNCHANGED lockVars

\* The carrier of an fts1 session is lost: poll() takes the call out of the
\* queue, and the flag cleared is that of the entry now in its place.
Fts1Lost(t) ==
  /\ At(t, "session")
  /\ line[t].kind = "fts1"
  /\ IF line[t].orig THEN \E a \in Calls : Clear(t, a) ELSE UNCHANGED lockVars
  /\ Become(t, Idle)

\* Faulty: the last one is left whoever called.
ToClearButLast(l) == IF Len(l.list) > 1 THEN Len(l.list) - 1 ELSE 1

\* The addresses whose flags the end of an EMSI session clears: all, but for the
\* caller's last, which is left to the code that dialled.
ToClear(l) == IF l.orig THEN Len(l.list) - 1 ELSE Len(l.list)

ClearNext(t) ==
  LET l == line[t] IN
  /\ At(t, "clearing")
  /\ IF l.kind = "wazoo" \/ l.ok[l.k] THEN Clear(t, l.list[l.k]) ELSE UNCHANGED lockVars
  /\ Become(t, IF l.kind = "wazoo" \/ l.k = ToClear(l) THEN [l EXCEPT !.pc = "after"]
               ELSE [l EXCEPT !.k = @ + 1])

\* get_down(): after a session, or from the keyboard or a LEXIT file.
GetDown(t) ==
  /\ At(t, "after") \/ At(t, "idle")
  /\ Exit(t)
  /\ Become(t, Idle)

-----------------------------------------------------------------------------
(* Packing *)

\* What atoi() makes of a number printed with w hexadecimal digits: it reads
\* the digits up to the first letter, as decimal ones.
AtoiOfHex(n, w) ==
  LET digit(i) == (n \div 16 ^ (w - i)) % 16
      read     == Cardinality({m \in 1 .. w : \A i \in 1 .. m : digit(i) <= 9})
      atoi[i \in 0 .. w] == IF i = 0 THEN 0 ELSE 10 * atoi[i - 1] + digit(i)
  IN  atoi[read]

\* The address the packer derives from the name of an outbound file: the zone
\* from an extension of three decimal digits, the point from the digits after
\* .PNT\ ; the names have both in hexadecimal.
FromName(a) ==
  LET z == HoldAreaNameMunge(a.zone) IN
  [zone  |-> IF z # Home /\ \A i \in 0 .. 2 : (z \div 16 ^ i) % 16 <= 9
             THEN AtoiOfHex(z, 3) ELSE Home,
   node  |-> a.node,
   point |-> AtoiOfHex(a.point, 8)]

ASSUME NamesAssumption == \A a \in Packed : FromName(a) \in Addresses

\* Mail is tossed and packed after a session that brought some, or on demand.
StartPack(t) ==
  /\ At(t, "after") \/ At(t, "idle")
  /\ Become(t, [Idle EXCEPT !.pc = "packing"])
  /\ UNCHANGED lockVars

PackFile(t) ==
  /\ At(t, "packing")
  /\ Len(line[t].list) < PackMax
  /\ \E a \in Packed : Become(t, [line[t] EXCEPT !.pc = "naming", !.call = a])
  /\ UNCHANGED lockVars

\* flagged_file(): a file whose flag is another's is set aside.
LockFile(t) ==
  LET l == [line[t] EXCEPT !.pc = "packing", !.call = NoSlot] IN
  /\ At(t, "naming")
  /\ TestAndSet(t, FromName(line[t].call), [l EXCEPT !.list = Append(@, line[t].call)], l)

PackDone(t) ==
  /\ At(t, "packing")
  /\ ClearSession(t)
  /\ Become(t, Idle)

-----------------------------------------------------------------------------
Step(t) ==
  \/ Dial(t) \/ LockCall(t) \/ NoAnswer(t)
  \/ Connect(t) \/ Answer(t) \/ LockNext(t) \/ Serve(t)
  \/ AskFiles(t) \/ LockRequest(t)
  \/ Hangup(t) \/ Fts1Lost(t) \/ ClearNext(t) \/ GetDown(t)
  \/ StartPack(t) \/ PackFile(t) \/ LockFile(t) \/ PackDone(t)

Next ==
  \/ \E t \in Tasks : Step(t)
  \/ MakeDir /\ UNCHANGED line

Spec == Init /\ [][Next]_vars

-----------------------------------------------------------------------------
(* Properties *)

\* The mailboxes a task is sending from or packing.
Working(t) ==
  LET l == line[t] IN
  CASE l.pc = "session" /\ l.k > 0    -> {Mailbox(l.list[l.k])}
    [] l.pc \in {"packing", "naming"} -> {Mailbox(l.list[i]) : i \in DOMAIN l.list}
    [] OTHER -> {}

\* No two lines handle the mail of one address at a time: neither two sessions
\* nor a session and the packer (wazoo.c:1645, janus.c:765, pack.c:111).
OneLine == \A t, u \in Tasks : t # u => Working(t) \cap Working(u) = {}

\* A flag is on the disk only while a line at work holds it: once the line is
\* idle or its process has exited, nothing keeps the address locked
\* (pack.c:75, wazoo.c:1840-1850, lora.c:1242).
NothingLeft ==
  \A f \in bsy : \E t \in Tasks : ~At(t, "idle") /\ \E s \in held[t] : BsyFile(s) = f

\* flag_file() is used as its own specification says.
UsesLocks == LocksSpec
=============================================================================
