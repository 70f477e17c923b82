----------------------------- MODULE CallsProofs -----------------------------
(***************************************************************************)
(* Proofs about Calls, for any number of nodes, any schedule, any limits   *)
(* and any mail.                                                           *)
(***************************************************************************)
EXTENDS Calls, TLAPS, WellFoundedInduction

Records == {NoRecord} \cup [wc : 0 .. 9, nc : Nat]
Places  == 0 .. Last + 1
Types   == [Nodes -> SUBSET Flavours]

----------------------------------------------------------------------------
\* Helpers of the model

\* A node, and 0, is a place of next_call; None is no node.
LEMMA NodesInRange ==
  /\ Nodes \subseteq Nat /\ Nodes \subseteq Places
  /\ 0 \in Places /\ Last + 1 \in Places /\ None \notin Nodes
<1>1. Last \in Nat \ {0} /\ None \notin Nat
  BY CallsAssumption
<1> QED  BY <1>1 DEF Nodes, Places

\* The smallest of a set of numbers is one of them.
LEMMA SmallestIs ==
  ASSUME NEW S \in SUBSET Nat, S # {}
  PROVE  Smallest(S) \in S /\ \A m \in S : Smallest(S) <= m
<1>1. PICK n \in S : \A m \in S : ~ (m < n)
  <2>1. PICK n \in S : \A m \in S : <<m, n>> \notin OpToRel(<, Nat)
    BY WFMin, NatLessThanWellFounded, Zenon
  <2> QED  BY <2>1, Zenon DEF OpToRel
<1>2. \A m \in S : n <= m
  BY <1>1
<1> QED  BY <1>2 DEF Smallest

\* The smallest of a set of nodes is a place of next_call.
LEMMA SmallestNode ==
  ASSUME NEW S \in SUBSET Nodes, S # {}
  PROVE  Smallest(S) \in S /\ Smallest(S) \in Places
<1>1. S \in SUBSET Nat
  BY NodesInRange
<1>2. Smallest(S) \in S
  BY <1>1, SmallestIs
<1> QED  BY <1>2, NodesInRange

\* Records stay records, with one call more at most.
LEMMA RecordAfter ==
  ASSUME NEW b \in Records
  PROVE  /\ Unanswered(b) \in Records /\ FailedCall(b) \in Records
         /\ b # NoRecord => /\ FailedCall(b).nc = b.nc /\ FailedCall(b).wc <= b.wc + 1
                            /\ Unanswered(b).wc = b.wc /\ Unanswered(b).nc = b.nc + 1
BY DEF Records, Unanswered, FailedCall, NoRecord

\* build_call_queue() leaves next_call at an entry, or at 0.
LEMMA ChosenPlace ==
  ASSUME NEW e, NEW q \in SUBSET Nodes, NEW t
  PROVE  Chosen(e, q, t) \in Places
<1> DEFINE imm    == {n \in q : "imm" \in t[n]}
           others == {n \in q : Passes(e, n, t[n])}
<1>1. imm \in SUBSET Nodes /\ others \in SUBSET Nodes
  OBVIOUS
<1>2. \/ Chosen(e, q, t) = Smallest(imm) /\ imm # {}
      \/ Chosen(e, q, t) = Smallest(others) /\ others # {}
      \/ Chosen(e, q, t) = Smallest(q) /\ q # {}
      \/ Chosen(e, q, t) = 0
  BY DEF Chosen
<1> HIDE DEF imm, others
<1> QED  BY <1>1, <1>2, NodesInRange, SmallestNode

\* So does the search after a call.
LEMMA NextOfPlace ==
  ASSUME NEW S \in SUBSET Nodes, NEW p
  PROVE  NextOf(S, p) \in Places
<1> DEFINE ahead == {n \in S : n >= p}
<1>1. ahead \in SUBSET Nodes
  OBVIOUS
<1>2. \/ NextOf(S, p) = Smallest(ahead) /\ ahead # {}
      \/ NextOf(S, p) = Smallest(S) /\ S # {}
      \/ NextOf(S, p) = 0
  BY DEF NextOf
<1> HIDE DEF ahead
<1> QED  BY <1>1, <1>2, NodesInRange, SmallestNode

\* The node dialled is an entry of the queue within its limits.
LEMMA DialReady ==
  ASSUME TypeOK, NEW n \in Nodes, Dial(n)
  PROVE  n \in queue /\ ~OverLimit(bad[n])
<1>1. Found \in SUBSET Nodes /\ Found # {} /\ n = Smallest(Found)
  BY DEF Dial, Dialled, Found, ReadyFrom, TypeOK
<1>2. n \in Found
  BY <1>1, SmallestNode
<1>3. n \in queue /\ Ready(n)
  BY <1>2 DEF Found, ReadyFrom
<1> QED  BY <1>3 DEF Ready

----------------------------------------------------------------------------
\* The queue: its types, and QueueComplete

ListType ==
  /\ mail \in Types /\ fresh \subseteq Nodes /\ saved \in Types
  /\ queue \subseteq Nodes /\ type \in Types /\ next_call \in Places

ListInv == ListType /\ QueueComplete

LEMMA ListTyped == TypeOK => ListType
BY DEF TypeOK, ListType, Types, Places

\* A queue built from types that know all the mail is complete.
LEMMA BuiltComplete ==
  ASSUME NEW e \in Events, NEW m \in Types, NEW t \in Types, NEW newest,
         \A n \in Nodes : m[n] \ {"imm"} \subseteq t[n] /\ (m[n] # {} => t[n] # {}),
         mail' = m, Built(e, t, newest)
  PROVE  ListInv'
<1>1. queue' = {n \in Nodes : t[n] # {}} /\ type' = t /\ saved' = t /\ fresh' = {}
  BY DEF Built
<1>2. next_call' \in Places
  BY ChosenPlace DEF Built
<1>3. QueueComplete'
  BY <1>1 DEF QueueComplete, OnDisk
<1> QED  BY <1>1, <1>2, <1>3 DEF ListInv, ListType

LEMMA RebuildComplete ==
  ASSUME NEW e \in Events, NEW m \in Types, Rebuild(e, m)
  PROVE  ListInv'
BY BuiltComplete DEF Rebuild

\* What get_call_list() reads knows all the mail.
LEMMA InspectedTypes ==
  ASSUME ListType, NEW m \in Types
  PROVE  /\ [n \in Nodes |-> Inspected(saved, n, m[n])] \in Types
         /\ \A n \in Nodes : /\ m[n] \subseteq Inspected(saved, n, m[n])
                             /\ Inspected(saved, n, m[n]) \subseteq Flavours
BY DEF ListType, Types, Inspected, FromSaved

LEMMA GetComplete ==
  ASSUME ListType, event \in Events, NEW m \in Types, GetCallList(m)
  PROVE  ListInv'
<1> DEFINE t == [n \in Nodes |-> Inspected(saved, n, m[n])]
<1>1. t \in Types /\ \A n \in Nodes : m[n] \subseteq t[n]
  BY InspectedTypes
<1>2. mail' = m /\ Built(event, t, [n \in Nodes |-> FromSaved(saved, n, m[n])])
  BY DEF GetCallList
<1> HIDE DEF t
<1> QED  BY <1>1, <1>2, BuiltComplete

\* After a call the queue is left alone, and nothing but MAIL_WILLGO is dropped.
LEMMA MovedList ==
  ASSUME NEW q \in SUBSET Nodes, NEW t \in Types, NEW at, NEW b, Moved(q, t, at, b)
  PROVE  /\ type' \in Types /\ next_call' \in Places
         /\ \A n \in Nodes : t[n] \ {"imm"} \subseteq type'[n]
<1> DEFINE p      == After(at, q)
           imm    == {n \in q : "imm" \in t[n]}
           under  == {n \in imm : ~OverLimit(b[n])}
           ahead  == {n \in under : n >= p}
           tried  == {n \in imm \ under :
                        IF ahead # {} THEN p <= n /\ n < Smallest(ahead)
                        ELSE p <= n \/ under = {} \/ n < Smallest(under)}
           t2     == [n \in Nodes |-> IF n \in tried THEN t[n] \ {"imm"} ELSE t[n]]
           others == {n \in q : Passes(event, n, t2[n]) /\ ~OverLimit(b[n])}
<1>1. /\ type' \in {t, t2}
      /\ next_call' \in {NextOf(under, p), NextOf(others, 0), NextOf(under \cup others, p)}
  BY DEF Moved
<1>2. under \in SUBSET Nodes /\ others \in SUBSET Nodes /\ under \cup others \in SUBSET Nodes
  OBVIOUS
<1>3. t2 \in Types /\ \A n \in Nodes : t[n] \ {"imm"} \subseteq t2[n]
  <2> HIDE DEF tried
  <2> QED  BY DEF Types
<1> HIDE DEF under, others, t2, p
<1>4. next_call' \in Places
  BY <1>1, <1>2, NextOfPlace
<1> QED  BY <1>1, <1>3, <1>4

LEMMA GivesUpComplete ==
  ASSUME ListInv, NEW n \in Nodes, NEW b, GivesUp(n, b)
  PROVE  ListInv'
<1>1. /\ queue' = queue \ Removed
      /\ Moved(queue', type, n, bad')
      /\ mail' = mail /\ fresh' = fresh /\ saved' = saved
  BY DEF GivesUp
<1>2. queue' \in SUBSET Nodes
  BY <1>1 DEF ListInv, ListType
<1>3. /\ type' \in Types /\ next_call' \in Places
      /\ \A k \in Nodes : type[k] \ {"imm"} \subseteq type'[k]
  BY <1>1, <1>2, MovedList DEF ListInv, ListType
<1>4. \A k \in Removed : ~OnDisk(k)
  BY DEF Removed, Stale
<1>5. QueueComplete'
  <2> SUFFICES ASSUME NEW k \in Nodes, k \notin fresh, OnDisk(k)
               PROVE  k \in queue' /\ mail[k] \ {"imm"} \subseteq type'[k]
    BY <1>1 DEF QueueComplete, OnDisk
  <2>1. k \in queue /\ mail[k] \ {"imm"} \subseteq type[k]
    BY DEF ListInv, QueueComplete
  <2> QED  BY <1>1, <1>3, <1>4, <2>1
<1> QED  BY <1>1, <1>2, <1>3, <1>5 DEF ListInv, ListType

LEMMA NobodyComplete == ListInv /\ NobodyToDial => ListInv'
<1> SUFFICES ASSUME ListInv, NobodyToDial PROVE ListInv'
  OBVIOUS
<1>1. /\ queue' = queue \ Removed /\ next_call' = Last + 1
      /\ mail' = mail /\ fresh' = fresh /\ saved' = saved /\ type' = type
  BY DEF NobodyToDial, disk
<1>2. \A k \in Removed : ~OnDisk(k)
  BY DEF Removed, Stale
<1>3. ListType'
  BY <1>1, NodesInRange DEF ListInv, ListType
<1>4. QueueComplete'
  BY <1>1, <1>2 DEF ListInv, QueueComplete, OnDisk
<1> QED  BY <1>3, <1>4 DEF ListInv

LEMMA SessionComplete ==
  ASSUME ListType, event \in Events, NEW n \in Nodes, NEW left, NEW b, Session(n, left, b)
  PROVE  ListInv'
<1> DEFINE m == [mail EXCEPT ![n] = left]
<1>1. m \in Types
  BY DEF Session, ListType, Types
<1>2. GetCallList(m)
  BY DEF Session
<1> HIDE DEF m
<1> QED  BY <1>1, <1>2, GetComplete

LEMMA ReturnedComplete ==
  ASSUME ListType, NEW n \in Nodes, NEW left, NEW w, Returned(n, left, w)
  PROVE  ListInv'
<1> DEFINE m    == [mail EXCEPT ![n] = left]
           insp == [k \in Nodes |-> Inspected(saved, k, m[k])]
           read == [k \in Nodes |-> FromSaved(saved, k, m[k])]
           q    == {k \in Nodes : insp[k] # {}}
<1>1. m \in Types
  BY DEF Returned, ListType, Types
<1>2. insp \in Types /\ \A k \in Nodes : m[k] \subseteq insp[k]
  <2> HIDE DEF m
  <2> QED  BY <1>1, InspectedTypes
<1>3. /\ mail' = m /\ saved' = insp /\ fresh' = {} /\ queue' = q
      /\ Moved(q, insp, Chosen(event, q, read), bad')
  BY DEF Returned
<1>4. /\ type' \in Types /\ next_call' \in Places
      /\ \A k \in Nodes : insp[k] \ {"imm"} \subseteq type'[k]
  <2> HIDE DEF insp, read
  <2> QED  BY <1>2, <1>3, MovedList
<1> HIDE DEF m, insp
<1>5. QueueComplete'
  BY <1>2, <1>3, <1>4 DEF QueueComplete, OnDisk
<1> QED  BY <1>1, <1>2, <1>3, <1>4, <1>5 DEF ListInv, ListType

\* Mail that arrives or is forced, and what the program makes of it
LEMMA ForcedMail ==
  ASSUME mail \in Types, NEW e \in Events, e.res # None
  PROVE  [mail EXCEPT ![e.res] = @ \cup {IF e.cm THEN "crash" ELSE "normal"}] \in Types
<1>1. e.res \in Nodes
  BY CallsAssumption DEF EventType
<1> QED  BY <1>1 DEF Types, Flavours

LEMMA OthersComplete ==
  ASSUME ListInv, event \in Events,
         \/ \E n \in Nodes : Arrives(n)
         \/ Rescan \/ StartEvent \/ Restart \/ PowerFails
  PROVE  ListInv'
<1> USE DEF ListInv
<1>1. ASSUME NEW n \in Nodes, Arrives(n) PROVE ListInv'
  <2>1. PICK f \in Posts[n] : mail' = [mail EXCEPT ![n] = @ \cup {f}]
    BY <1>1 DEF Arrives
  <2>2. f \in Flavours
    BY CallsAssumption
  <2>3. fresh' = fresh \cup {n} /\ UNCHANGED <<saved, queue, type, next_call>>
    BY <1>1 DEF Arrives, list
  <2>4. ListType'
    BY <2>1, <2>2, <2>3 DEF ListType, Types
  <2>5. QueueComplete'
    BY <2>1, <2>3 DEF QueueComplete, OnDisk, ListType, Types
  <2> QED  BY <2>4, <2>5
<1>2. CASE Rescan
  BY <1>2, RebuildComplete DEF Rescan, ListType
<1>3. CASE StartEvent
  <2>1. PICK e \in Events, m \in Types : Rebuild(e, m)
    BY <1>3, ForcedMail DEF StartEvent, ListType
  <2> QED  BY <2>1, RebuildComplete
<1>4. CASE Restart
  BY <1>4, GetComplete DEF Restart, ListType
<1>5. CASE PowerFails
  BY <1>5, GetComplete DEF PowerFails, ListType
<1> QED  BY <1>1, <1>2, <1>3, <1>4, <1>5

LEMMA CallsComplete ==
  ASSUME ListInv, event \in Events, NEW n \in Nodes, CountedCall(n) \/ OddCall(n)
  PROVE  ListInv'
<1>1. ASSUME NEW b, GivesUp(n, b) PROVE ListInv'
  BY <1>1, GivesUpComplete
<1>2. ASSUME NEW left, NEW b, Session(n, left, b) PROVE ListInv'
  BY <1>2, SessionComplete DEF ListInv
<1>3. ASSUME NEW left, NEW w, Returned(n, left, w) PROVE ListInv'
  BY <1>3, ReturnedComplete DEF ListInv
<1>4. CASE CountedCall(n)
  BY <1>4, <1>1, <1>2 DEF CountedCall, NoAnswer, NobodyHome, Completed
<1>5. CASE OddCall(n)
  <2>1. CASE NotListed(n)
    BY <2>1, <1>1 DEF NotListed
  <2>2. CASE Escape(n)
    BY <2>2, <1>3 DEF Escape
  <2>3. ASSUME NEW left, Broken(n, left) \/ CutOff(n, left) \/ LostCarrier(n, left)
        PROVE  ListInv'
    BY <2>3, <1>2, <1>3 DEF Broken, CutOff, LostCarrier
  <2> QED  BY <1>5, <2>1, <2>2, <2>3 DEF OddCall
<1> QED  BY <1>4, <1>5

\* Every step keeps the queue complete.
LEMMA ListNext == ListInv /\ event \in Events /\ [Next]_vars => ListInv'
<1> SUFFICES ASSUME ListInv, event \in Events, [Next]_vars PROVE ListInv'
  OBVIOUS
<1>1. CASE Turn
  BY <1>1, NobodyComplete, CallsComplete DEF Turn
<1>2. CASE \E n \in Nodes : OddCall(n)
  BY <1>2, CallsComplete
<1>3. CASE \/ \E n \in Nodes : Arrives(n)
           \/ Rescan \/ StartEvent \/ Restart \/ PowerFails
  BY <1>3, OthersComplete
<1>4. CASE UNCHANGED vars
  BY <1>4 DEF ListInv, ListType, QueueComplete, OnDisk, vars, disk, list
<1> QED  BY <1>1, <1>2, <1>3, <1>4 DEF Next

----------------------------------------------------------------------------
\* The records of failed calls and the line

LineType ==
  /\ bad \in [Nodes -> Records]
  /\ event \in Events
  /\ sw \in Nodes \cup {None}
  /\ wrong \in BOOLEAN /\ (wrong => sw # None)
  /\ steady \in BOOLEAN

\* A record counts no more than the limits; one more when a call that came in has
\* failed since the node was dialled, and then the node is not the one dialled last.
Within(b)  == b.nc <= MaxTry /\ b.wc <= MaxFailed
Blamed(b)  == b.nc <= MaxTry /\ b.wc <= MaxFailed + 1
LimitsInv  == \A n \in Nodes : Blamed(bad[n]) /\ (sw = n => Within(bad[n]))

LineInv == LineType /\ LimitsInv

LEMMA LimitsAre == MaxFailed \in 1 .. 9 /\ MaxTry \in Nat \ {0}
BY CallsAssumption

LEMMA NoRecordWithin == NoRecord \in Records /\ Within(NoRecord) /\ Blamed(NoRecord)
BY LimitsAre DEF Records, NoRecord, Within, Blamed

\* A node that may be dialled is within its limits after one more failure.
LEMMA OneMoreWithin ==
  ASSUME NEW b \in Records, ~OverLimit(b)
  PROVE  Within(b) /\ Within(FailedCall(b)) /\ Within(Unanswered(b))
BY LimitsAre DEF Records, OverLimit, NoRecord, Within, FailedCall, Unanswered

\* One that was within them is beyond by one at most when it is blamed.
LEMMA BlamedOnce ==
  ASSUME NEW b \in Records, Within(b)
  PROVE  Blamed(FailedCall(b)) /\ Blamed(b)
BY LimitsAre DEF Records, NoRecord, Within, Blamed, FailedCall

\* A call that ends one way or the other: the record of the node dialled becomes b.
LEMMA RecordOf ==
  ASSUME LineInv, NEW n \in Nodes, NEW b \in Records, Blamed(b),
         bad' = [bad EXCEPT ![n] = b],
         sw' = None \/ (sw' = n /\ Within(b))
  PROVE  bad' \in [Nodes -> Records] /\ LimitsInv'
<1>1. /\ bad' \in [Nodes -> Records]
      /\ \A k \in Nodes : bad'[k] = IF k = n THEN b ELSE bad[k]
  BY DEF LineInv, LineType
<1>2. ASSUME NEW k \in Nodes PROVE Blamed(bad'[k]) /\ (sw' = k => Within(bad'[k]))
  BY <1>1, NodesInRange DEF LineInv, LimitsInv
<1> QED  BY <1>1, <1>2 DEF LimitsInv

LEMMA GivesUpLine ==
  ASSUME LineInv, steady' \in BOOLEAN, NEW n \in Nodes, NEW b \in Records, Within(b),
         GivesUp(n, b)
  PROVE  LineInv'
<1>1. bad' = [bad EXCEPT ![n] = b] /\ sw' = n /\ wrong' = FALSE /\ event' = event
  BY DEF GivesUp
<1>2. Blamed(b)
  BY LimitsAre DEF Records, NoRecord, Within, Blamed
<1>3. bad' \in [Nodes -> Records] /\ LimitsInv'
  BY <1>1, <1>2, RecordOf
<1> QED  BY <1>1, <1>3 DEF LineInv, LineType

LEMMA SessionLine ==
  ASSUME LineInv, steady' \in BOOLEAN, NEW n \in Nodes, NEW left, NEW b \in Records, Blamed(b),
         Session(n, left, b)
  PROVE  LineInv'
<1>1. bad' = [bad EXCEPT ![n] = b] /\ sw' = None /\ wrong' = FALSE /\ event' = event
  BY DEF Session
<1>2. bad' \in [Nodes -> Records] /\ LimitsInv'
  BY <1>1, RecordOf
<1> QED  BY <1>1, <1>2 DEF LineInv, LineType

\* The node dialled is within its limits, and the record forgotten is anybody's.
LEMMA ReturnedLine ==
  ASSUME LineInv, TypeOK, steady' \in BOOLEAN, NEW n \in Nodes, NEW left,
         NEW w \in BOOLEAN, Returned(n, left, w)
  PROVE  LineInv'
<1>1. PICK at : bad' = [bad EXCEPT ![at] = NoRecord]
  BY DEF Returned
<1>2. sw' = n /\ wrong' = w /\ event' = event /\ Dial(n)
  BY DEF Returned
<1>3. Within(bad[n])
  BY <1>2, DialReady, OneMoreWithin DEF LineInv, LineType
<1>4. /\ bad' \in [Nodes -> Records]
      /\ \A k \in Nodes : bad'[k] \in {bad[k], NoRecord}
  BY <1>1, NoRecordWithin DEF LineInv, LineType
<1>5. ASSUME NEW k \in Nodes PROVE Blamed(bad'[k]) /\ (sw' = k => Within(bad'[k]))
  BY <1>2, <1>3, <1>4, NoRecordWithin DEF LineInv, LimitsInv
<1> QED  BY <1>2, <1>4, <1>5, NodesInRange DEF LineInv, LineType, LimitsInv

LEMMA CallsLine ==
  ASSUME LineInv, TypeOK, steady' \in BOOLEAN, NEW n \in Nodes, CountedCall(n) \/ OddCall(n)
  PROVE  LineInv'
<1> DEFINE b == bad[n]
<1>1. b \in Records /\ Blamed(b)
  BY DEF LineInv, LineType, LimitsInv
<1>2. ASSUME Dial(n)
      PROVE  /\ Unanswered(b) \in Records /\ FailedCall(b) \in Records
             /\ Within(b) /\ Within(FailedCall(b)) /\ Within(Unanswered(b))
  <2> HIDE DEF b
  <2>1. b = bad[n]
    BY DEF b
  <2> QED  BY <1>1, <1>2, <2>1, DialReady, OneMoreWithin, RecordAfter
<1>3. FailedCall(NoRecord) \in Records /\ Blamed(FailedCall(NoRecord))
  BY NoRecordWithin, BlamedOnce, RecordAfter
<1>4. CASE NotListed(n) \/ NoAnswer(n) \/ NobodyHome(n)
  <2>1. Dial(n)
    BY <1>4 DEF NotListed, NoAnswer, NobodyHome, GivesUp
  <2> QED  BY <1>1, <1>2, <1>4, <2>1, GivesUpLine DEF NotListed, NoAnswer, NobodyHome
<1>5. CASE Completed(n)
  BY <1>5, NoRecordWithin, SessionLine DEF Completed
<1>6. CASE Escape(n)
  BY <1>6, ReturnedLine DEF Escape
<1>7. ASSUME NEW left, Broken(n, left) \/ CutOff(n, left) \/ LostCarrier(n, left)
      PROVE  LineInv'
  <2>1. CASE Broken(n, left)
    BY <2>1, <1>3, SessionLine DEF Broken
  <2>2. CASE CutOff(n, left)
    BY <2>2, <1>1, SessionLine DEF CutOff
  <2>3. CASE LostCarrier(n, left)
    BY <2>3, ReturnedLine DEF LostCarrier
  <2> QED  BY <1>7, <2>1, <2>2, <2>3
<1> QED  BY <1>4, <1>5, <1>6, <1>7 DEF CountedCall, OddCall

\* get_down() blames the node dialled last, once.
LEMMA RestartLine == LineInv /\ steady' \in BOOLEAN /\ Restart => LineInv'
<1> SUFFICES ASSUME LineInv, steady' \in BOOLEAN, Restart PROVE LineInv'
  OBVIOUS
<1>1. sw' = None /\ wrong' = FALSE /\ event' = event
  BY DEF Restart
<1>2. CASE bad' = bad
  BY <1>1, <1>2, NodesInRange DEF LineInv, LineType, LimitsInv
<1>3. CASE sw # None /\ bad' = [bad EXCEPT ![sw] = FailedCall(@)]
  <2>1. sw \in Nodes /\ bad[sw] \in Records /\ Within(bad[sw])
    BY <1>3 DEF LineInv, LineType, LimitsInv
  <2>2. FailedCall(bad[sw]) \in Records /\ Blamed(FailedCall(bad[sw]))
    BY <2>1, RecordAfter, BlamedOnce
  <2>3. bad' = [bad EXCEPT ![sw] = FailedCall(bad[sw])]
    BY <1>3
  <2>4. bad' \in [Nodes -> Records] /\ LimitsInv'
    BY <1>1, <2>1, <2>2, <2>3, RecordOf
  <2> QED  BY <1>1, <2>4 DEF LineInv, LineType
<1> QED  BY <1>2, <1>3 DEF Restart

\* An event reserved for a node forgets its record.
LEMMA StartLine == LineInv /\ steady' \in BOOLEAN /\ StartEvent => LineInv'
<1> SUFFICES ASSUME LineInv, steady' \in BOOLEAN, StartEvent PROVE LineInv'
  OBVIOUS
<1>1. PICK e \in Events :
        /\ event' = e /\ sw' = sw /\ wrong' = wrong
        /\ bad' \in {bad, [bad EXCEPT ![e.res] = NoRecord]}
  BY DEF StartEvent
<1>2. /\ bad' \in [Nodes -> Records]
      /\ \A k \in Nodes : bad'[k] \in {bad[k], NoRecord}
  BY <1>1, NoRecordWithin DEF LineInv, LineType
<1>3. LimitsInv'
  BY <1>1, <1>2, NoRecordWithin DEF LineInv, LimitsInv
<1> QED  BY <1>1, <1>2, <1>3 DEF LineInv, LineType

\* Every step keeps the records within the limits.
LEMMA LineNext == LineInv /\ TypeOK /\ [Next]_vars => LineInv'
<1> SUFFICES ASSUME LineInv, TypeOK, [Next]_vars PROVE LineInv'
  OBVIOUS
<1>1. steady' \in BOOLEAN
  BY DEF Next, Turn, vars, LineInv, LineType
<1>2. CASE NobodyToDial \/ Rescan \/ (\E n \in Nodes : Arrives(n)) \/ UNCHANGED vars
  <2>1. UNCHANGED <<bad, event, sw, wrong>>
    BY <1>2 DEF NobodyToDial, Rescan, Arrives, vars, disk
  <2> QED  BY <1>1, <2>1 DEF LineInv, LineType, LimitsInv
<1>3. CASE \E n \in Nodes : CountedCall(n) \/ OddCall(n)
  BY <1>1, <1>3, CallsLine
<1>4. CASE StartEvent
  BY <1>1, <1>4, StartLine
<1>5. CASE Restart
  BY <1>1, <1>5, RestartLine
<1>6. CASE PowerFails
  BY <1>1, <1>6, NodesInRange DEF PowerFails, LineInv, LineType, LimitsInv
<1> QED  BY <1>2, <1>3, <1>4, <1>5, <1>6 DEF Next, Turn

----------------------------------------------------------------------------
\* The invariant

CallsInv == TypeOK /\ ListInv /\ LineInv

LEMMA TypesTogether == ListType /\ LineType => TypeOK
BY DEF ListType, LineType, TypeOK, Types, Places, Records

LEMMA CallsInit == Init => CallsInv
<1> SUFFICES ASSUME Init PROVE CallsInv
  OBVIOUS
<1>1. ListInv
  BY NodesInRange DEF Init, ListInv, ListType, QueueComplete, OnDisk, Types
<1>2. LineInv
  BY NodesInRange, NoRecordWithin DEF Init, LineInv, LineType, LimitsInv
<1> QED  BY <1>1, <1>2, TypesTogether DEF CallsInv, ListInv, LineInv

LEMMA CallsNext == CallsInv /\ [Next]_vars => CallsInv'
<1> SUFFICES ASSUME CallsInv, [Next]_vars PROVE CallsInv'
  OBVIOUS
<1>1. ListInv'
  BY ListNext DEF CallsInv, LineInv, LineType
<1>2. LineInv'
  BY LineNext DEF CallsInv
<1>3. ListType' /\ LineType' => TypeOK'
  BY DEF ListType, LineType, TypeOK, Types, Places, Records
<1> QED  BY <1>1, <1>2, <1>3 DEF CallsInv, ListInv, LineInv

LEMMA CallsHold == Spec => []CallsInv
BY CallsInit, CallsNext, PTL DEF Spec

----------------------------------------------------------------------------
\* Type correctness of the call queue and its records: next_call stands at an entry,
\* before the first or after the last one whatever execute_events() has removed.
THEOREM CallsTypeCorrect == Spec => []TypeOK
BY CallsHold, PTL DEF CallsInv

\* No mail the program has looked at is missing from the queue: an entry is removed
\* only when it has no files, and a call that was lost brings its node back.
THEOREM QueueCompleteHolds == Spec => []QueueComplete
BY CallsHold, PTL DEF CallsInv, ListInv

\* bad_call() never counts past the limits but for one call that came in: a node is
\* dialled only below them, and get_down() forgets whom to blame.
THEOREM LimitsKeptHolds == Spec => []LimitsKept
<1>1. CallsInv => LimitsKept
  BY DEF CallsInv, LineInv, LimitsInv, Blamed, LimitsKept
<1> QED  BY <1>1, CallsHold, PTL
=============================================================================
