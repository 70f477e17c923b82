------------------------------- MODULE Calls -------------------------------
(***************************************************************************)
(* Outbound calls: the call queue (maintask.c), the records of calls that  *)
(* failed (bad_call() in poller.c), and execute_events() (lora.c), which   *)
(* picks the node to dial and what becomes of its entry after the call.    *)
(*                                                                         *)
(* A node is a number, in the order of node_sort_func().  call_list is the *)
(* set "queue" with the types in "type"; the index next_call is the node   *)
(* of the entry it stands at: a number below every entry where the code    *)
(* has -1, one above every entry where it has reached max_call.  MAIL_     *)
(* DIRECT is MAIL_NORMAL here, for every test takes them alike, and        *)
(* MAIL_REQUEST is MAIL_HOLD, which by itself makes nobody dial.           *)
(*                                                                         *)
(* The program has one line, without config->multitask: flag_file()        *)
(* answers FALSE at once (door.c:1000), and none of the tests of a .BSY     *)
(* file in execute_events() skips an entry.                                *)
(***************************************************************************)
EXTENDS Integers, FiniteSets

CONSTANTS
  Last,       \* nodes are 1 .. Last
  Events,     \* behaviours of the events of the schedule
  MaxFailed,  \* with_connect, "Max failed"
  MaxTry,     \* no_connect, "Max try"
  Posts,      \* the flavours of mail each node may be sent
  None

Nodes    == 1 .. Last
Flavours == {"imm", "crash", "normal", "hold"}

EventType == [noout : BOOLEAN, cm : BOOLEAN, nocm : BOOLEAN,
              res : Nodes \cup {None}, force : BOOLEAN]

ASSUME CallsAssumption ==
  /\ Last \in Nat \ {0}
  /\ None \notin Nat
  /\ Events # {} /\ Events \subseteq EventType
  /\ MaxFailed \in 1 .. 9 /\ MaxTry \in Nat \ {0}
  /\ Posts \in [Nodes -> SUBSET Flavours]

VARIABLES
  mail,       \* the flavours of the .?LO and .?UT files of each node
  fresh,      \* nodes whose files are newer than QUEUE.DAT says
  bad,        \* NNNNnnnn.$$d: calls that failed with (wc) and without (nc) carrier
  saved,      \* QUEUE.DAT, {} for a node without a record
  queue, type, next_call,
  event,      \* e_ptrs[cur_event]
  sw,         \* sw_net, sw_node: the node dialled last, None since the program started
  wrong,      \* something_wrong
  steady      \* history: the last step was execute_events() with a call it counts

disk == <<mail, fresh, bad, saved>>
list == <<queue, type, next_call>>
vars == <<disk, list, event, sw, wrong, steady>>

----------------------------------------------------------------------------
\* Records of calls that failed

NoRecord == [wc |-> -1, nc |-> -1]

\* bad_call(net, node, 2, flags): the call was not answered.
Unanswered(b) == IF b = NoRecord THEN [wc |-> 0, nc |-> 1] ELSE [b EXCEPT !.nc = @ + 1]

\* Faulty: the digit of a record stays as it is
FailedCallSame(b) == IF b = NoRecord THEN [wc |-> 1, nc |-> 0] ELSE b

\* bad_call(net, node, 1, flags): it was, and failed; the name has one digit.
FailedCall(b) ==
  IF b = NoRecord THEN [wc |-> 1, nc |-> 0]
  ELSE [b EXCEPT !.wc = IF @ = 9 THEN 9 ELSE @ + 1]

\* Faulty: one call more
OverLimitLate(b) == b # NoRecord /\ (b.wc > MaxFailed \/ b.nc > MaxTry)

\* bad_call(net, node, 0, 0)
OverLimit(b) == b # NoRecord /\ (b.wc >= MaxFailed \/ b.nc >= MaxTry)

----------------------------------------------------------------------------
\* Whom an event lets the program dial

Smallest(S) == CHOOSE n \in S : \A m \in S : n <= m

\* The tests on an entry that is not immediate
Passes(e, n, t) ==
  /\ ~e.noout
  /\ "crash" \in t => ~e.nocm
  /\ "crash" \notin t => ~e.cm
  /\ t \cap {"crash", "normal"} # {}
  /\ e.res \in {None, n}

OnDisk(n)   == mail[n] \ {"hold"} # {}
\* Faulty: an entry over its limits is removed too
StaleOrBad(n) ==
  /\ "imm" \notin type[n] /\ Passes(event, n, type[n])
  /\ ~OnDisk(n) \/ OverLimit(bad[n])

Stale(n)    == "imm" \notin type[n] /\ Passes(event, n, type[n]) /\ ~OnDisk(n)
Callable(n) == "imm" \in type[n] \/ (Passes(event, n, type[n]) /\ OnDisk(n))
Ready(n)    == Callable(n) /\ ~OverLimit(bad[n])

----------------------------------------------------------------------------
\* The queue

\* build_call_queue(0): flavours recorded in QUEUE.DAT stay while the node has
\* files at all, except MAIL_WILLGO.
FromSaved(s, n, m) == IF m = {} THEN {} ELSE (s[n] \ {"imm"}) \cup m

\* get_call_list() looks again at the nodes with newer files (build_node_queue()).
Inspected(s, n, m) == IF n \in fresh THEN m ELSE FromSaved(s, n, m)

\* Faulty: -1 is not made 0
ChosenNone(e, q, t) == IF q = {} THEN -1 ELSE Smallest(q)

\* Where build_call_queue() leaves next_call
Chosen(e, q, t) ==
  LET imm   == {n \in q : "imm" \in t[n]}
      others == {n \in q : Passes(e, n, t[n])}
  IN  IF imm # {} THEN Smallest(imm)
      ELSE IF others # {} THEN Smallest(others)
      ELSE IF q # {} THEN Smallest(q) ELSE 0

\* The queue is built for event e from files m; newest is the queue before
\* get_call_list() looks again, which is when next_call is chosen.
Built(e, t, newest) ==
  LET q == {n \in Nodes : t[n] # {}}
  IN  /\ queue' = q
      /\ type' = t
      /\ next_call' = Chosen(e, q, newest)
      /\ saved' = t
      /\ fresh' = {}

\* rebuild_call_queue(), with files m
Rebuild(e, m) == mail' = m /\ Built(e, m, m)

\* get_call_list(), with files m
GetCallList(m) ==
  /\ mail' = m
  /\ Built(event, [n \in Nodes |-> Inspected(saved, n, m[n])],
                  [n \in Nodes |-> FromSaved(saved, n, m[n])])

----------------------------------------------------------------------------
Init ==
  /\ mail = [n \in Nodes |-> {}]
  /\ fresh = {}
  /\ bad = [n \in Nodes |-> NoRecord]
  /\ saved = [n \in Nodes |-> {}]
  /\ queue = {}
  /\ type = [n \in Nodes |-> {}]
  /\ next_call = 0
  /\ event \in Events
  /\ sw = None
  /\ wrong = FALSE
  /\ steady = TRUE

\* Another program leaves mail for node n.
Arrives(n) ==
  /\ \E f \in Posts[n] \ mail[n] : mail' = [mail EXCEPT ![n] = @ \cup {f}]
  /\ fresh' = fresh \cup {n}
  /\ UNCHANGED <<bad, saved, list, event, sw, wrong>>

\* ECHOMAIL.RSN, NETMAIL.RSN, RESCAN.NOW or ALT-Q
Rescan == Rebuild(event, mail) /\ UNCHANGED <<bad, event, sw, wrong>>

\* find_event() starts an event. One reserved for a node forgets its failed calls
\* and may force a call to it.
StartEvent ==
  \E e \in Events :
    LET ours   == ~e.noout /\ e.res # None
        forced == IF e.cm THEN "crash" ELSE "normal"
        m      == IF ours /\ e.force THEN [mail EXCEPT ![e.res] = @ \cup {forced}] ELSE mail
    IN  /\ e # event
        /\ event' = e
        /\ bad' = IF ours THEN [bad EXCEPT ![e.res] = NoRecord] ELSE bad
        /\ Rebuild(e, m)
        /\ UNCHANGED <<sw, wrong>>

\* get_down() and the program started again: after a call that came in, by the
\* operator, or by a flag file.  What goes wrong in a call that came in is counted
\* against the node dialled last.
Restart ==
  /\ \E w \in {wrong, TRUE} :
       bad' = IF w /\ sw # None THEN [bad EXCEPT ![sw] = FailedCall(@)] ELSE bad
  /\ sw' = None /\ wrong' = FALSE
  /\ GetCallList(mail)
  /\ UNCHANGED event

\* The machine goes down and comes up again.
PowerFails ==
  /\ sw' = None /\ wrong' = FALSE
  /\ GetCallList(mail)
  /\ UNCHANGED <<bad, event>>

----------------------------------------------------------------------------
\* execute_events()

\* The timer runs when the event allows calls or next_call stands at an immediate
\* one; what call_list holds outside the queue is whatever was there.
TimerRuns == ~event.noout \/ next_call \notin {n \in queue : "imm" \notin type[n]}

\* The search starts at next_call, at the first entry when that is past the last,
\* and once more when it has removed the last entry.
AtEnd     == \A n \in queue : n < next_call
From      == IF AtEnd THEN 0 ELSE next_call
ReadyFrom(p) == {n \in queue : n >= p /\ Ready(n)}
LastGone  == \E n \in queue : Stale(n) /\ \A m \in queue : m <= n
Found     == IF ReadyFrom(From) # {} THEN ReadyFrom(From)
             ELSE IF LastGone THEN ReadyFrom(0) ELSE {}
Dialled   == Smallest(Found)

\* Entries the search comes by on its way to Dialled
Passed(n) ==
  IF ReadyFrom(From) # {} THEN From <= n /\ n < Dialled
  ELSE From <= n \/ (LastGone /\ (Found # {} => n < Dialled))
Removed == {n \in queue : Stale(n) /\ Passed(n)}

\* Nobody to dial
NobodyToDial ==
  /\ TimerRuns
  /\ Found = {}
  /\ queue' = queue \ Removed
  /\ next_call' = Last + 1
  /\ UNCHANGED <<disk, type, event, sw, wrong>>

\* The next of S after n in the queue q, round its end; 0 stands for -1
After(n, q) == IF \A m \in q : m <= n THEN 0 ELSE n + 1
NextOf(S, p) ==
  LET ahead == {n \in S : n >= p}
  IN  IF ahead # {} THEN Smallest(ahead) ELSE IF S # {} THEN Smallest(S) ELSE 0

\* next_call after a call, from where it stands in queue q with types t and the
\* records b.  After an immediate call an immediate one is preferred, and those
\* over their limits that the search comes by are immediate no more.
Moved(q, t, at, b) ==
  LET p      == After(at, q)
      imm    == {n \in q : "imm" \in t[n]}
      under  == {n \in imm : ~OverLimit(b[n])}
      ahead  == {n \in under : n >= p}
      tried  == {n \in imm \ under :
                   IF ahead # {} THEN p <= n /\ n < Smallest(ahead)
                   ELSE p <= n \/ under = {} \/ n < Smallest(under)}
      t2     == [n \in Nodes |-> IF n \in tried THEN t[n] \ {"imm"} ELSE t[n]]
      others == {n \in q : Passes(event, n, t2[n]) /\ ~OverLimit(b[n])}
  IN  IF at \in q /\ "imm" \in t[at]
      THEN /\ type' = t2
           /\ next_call' = IF under # {} THEN NextOf(under, p) ELSE NextOf(others, 0)
      ELSE /\ type' = t
           /\ next_call' = NextOf(under \cup others, p)

\* What every call begins with
Dial(n) == TimerRuns /\ Found # {} /\ n = Dialled

\* poll() gives up: the node is not listed, nobody answers, or the modems connect
\* and the mailers do not (nobody home, or a line below the minimum speed).
GivesUp(n, b) ==
  /\ Dial(n)
  /\ bad' = [bad EXCEPT ![n] = b]
  /\ sw' = n /\ wrong' = FALSE
  /\ queue' = queue \ Removed
  /\ Moved(queue', type, n, bad')
  /\ UNCHANGED <<mail, fresh, saved, event>>

NotListed(n)  == GivesUp(n, bad[n])
NoAnswer(n)   == GivesUp(n, Unanswered(bad[n]))
NobodyHome(n) == GivesUp(n, FailedCall(bad[n]))

\* A session that ends in WaZOO(), session_emsi() or at get_out of FTSC_sender()
\* forgets the failed calls and leaves the program, which starts again; get_down()
\* then counts a session in which something went wrong.
Session(n, left, b) ==
  /\ Dial(n)
  /\ left \subseteq mail[n]
  /\ bad' = [bad EXCEPT ![n] = b]
  /\ sw' = None /\ wrong' = FALSE
  /\ GetCallList([mail EXCEPT ![n] = left])
  /\ UNCHANGED event

Completed(n)    == Session(n, {}, NoRecord)
Broken(n, left) == Session(n, left, FailedCall(NoRecord))
CutOff(n, left) == Session(n, left, bad[n])     \* the machine goes down

\* poll() returns 1 at end_mail: the carrier was lost in an FTS-1 session, or the
\* operator pressed Escape.  The entry is taken out of call_list, so that
\* execute_events() forgets the failed calls of the one that follows it; then
\* get_call_list() reads the queue again.
Returned(n, left, w) ==
  LET rest  == (queue \ Removed) \ {n}
      later == {m \in rest : m > n}
      at    == IF later = {} THEN n ELSE Smallest(later)
      m     == [mail EXCEPT ![n] = left]
      insp  == [k \in Nodes |-> Inspected(saved, k, m[k])]
      read  == [k \in Nodes |-> FromSaved(saved, k, m[k])]
      q     == {k \in Nodes : insp[k] # {}}
  IN  /\ Dial(n)
      /\ left \subseteq mail[n]
      /\ bad' = [bad EXCEPT ![at] = NoRecord]
      /\ sw' = n /\ wrong' = w
      /\ mail' = m
      /\ saved' = insp
      /\ fresh' = {}
      /\ queue' = q
      /\ Moved(q, insp, Chosen(event, q, read), bad')
      /\ UNCHANGED event

LostCarrier(n, left) == Returned(n, left, TRUE)
Escape(n)            == Returned(n, mail[n], FALSE)

CountedCall(n) == NoAnswer(n) \/ NobodyHome(n) \/ Completed(n)
OddCall(n) ==
  \/ NotListed(n)
  \/ Escape(n)
  \/ \E left \in SUBSET mail[n] : Broken(n, left) \/ CutOff(n, left) \/ LostCarrier(n, left)

\* A turn of execute_events() that dials nobody, or places a call that is counted
Turn == steady' = TRUE /\ (NobodyToDial \/ \E n \in Nodes : CountedCall(n))

Next ==
  \/ Turn
  \/ /\ steady' = FALSE
     /\ \/ \E n \in Nodes : OddCall(n) \/ Arrives(n)
        \/ Rescan \/ StartEvent \/ Restart \/ PowerFails

Spec     == Init /\ [][Next]_vars
\* remote_task() comes back to execute_events() for ever.  Odd calls are no part of
\* this: CallsProgress is about behaviours that have finitely many.
FairSpec == Spec /\ WF_vars(Turn)

----------------------------------------------------------------------------
TypeOK ==
  /\ mail \in [Nodes -> SUBSET Flavours]
  /\ fresh \subseteq Nodes
  /\ bad \in [Nodes -> {NoRecord} \cup [wc : 0 .. 9, nc : Nat]]
  /\ saved \in [Nodes -> SUBSET Flavours]
  /\ queue \subseteq Nodes
  /\ type \in [Nodes -> SUBSET Flavours]
  /\ next_call \in 0 .. Last + 1
  /\ event \in Events
  /\ sw \in Nodes \cup {None}
  /\ wrong \in BOOLEAN /\ (wrong => sw # None)
  /\ steady \in BOOLEAN

\* The queue has an entry for every node the program has seen mail to dial for, and
\* the entry knows every flavour of it, whatever poll() and execute_events() have
\* taken out: MAIL_WILLGO alone may have been dropped.
QueueComplete ==
  \A n \in Nodes \ fresh : OnDisk(n) => n \in queue /\ mail[n] \ {"imm"} \subseteq type[n]

\* No node is dialled past "Max try" or "Max failed", whatever restarts and events
\* come in between: no record counts more, but for the one failure of a call that
\* came in which may be blamed on a node that was at its limit.
LimitsKept == \A n \in Nodes : bad[n].nc <= MaxTry /\ bad[n].wc <= MaxFailed + 1

\* A node of the queue the event lets the program dial
Waiting(n) == n \in queue /\ Ready(n)

\* While the event lasts, nobody else touches the queue and every call is counted, a
\* node that waits is called until it has its mail or is over its limits: no entry is
\* passed over for ever, although each session that ends sets next_call back to the
\* first node, and immediate calls go before all others.
CallsProgress == <>[]steady => \A n \in Nodes : Waiting(n) ~> ~Waiting(n)
=============================================================================
