------------------------------- MODULE UartProofs -------------------------------
(***************************************************************************)
(* Proofs about UartQueue, for queues of any size and any thresholds:      *)
(* head, tail and avail agree whenever the other side may look, neither    *)
(* queue fills up unnoticed, and both implement ByteQueue.                 *)
(***************************************************************************)
EXTENDS UartQueue, SequenceTheorems, TLAPS

-----------------------------------------------------------------------------
(* One ring *)

Rings(size) == [buf : [0 .. size - 1 -> Nat], head : 0 .. size - 1,
                tail : 0 .. size - 1, avail : 0 .. size]

\* The slot behind the last byte
Behind(q, size)     == Wrap(q.tail + size - q.avail, size)
Consistent(q, size) == q.head = Behind(q, size)

LEMMA RingFields ==
  ASSUME NEW size, NEW q \in Rings(size)
  PROVE  /\ q.buf \in [0 .. size - 1 -> Nat] /\ q.head \in 0 .. size - 1
         /\ q.tail \in 0 .. size - 1 /\ q.avail \in 0 .. size
BY DEF Rings

LEMMA WrapInRange ==
  ASSUME NEW size \in Nat \ {0}, NEW i \in 0 .. 2 * size - 1
  PROVE  Wrap(i, size) \in 0 .. size - 1
BY DEF Wrap

LEMMA WrapTwice ==
  ASSUME NEW size \in Nat \ {0}, NEW t \in 0 .. size - 1, NEW a \in 0 .. size - 1
  PROVE  Wrap(Wrap(t + 1, size) + size - (a + 1), size) = Wrap(t + size - a, size)
<1>1. CASE t + 1 = size
  <2>1. Wrap(t + 1, size) = 0 BY <1>1 DEF Wrap
  <2>2. Wrap(0 + size - (a + 1), size) = size - (a + 1) BY DEF Wrap
  <2>3. Wrap(t + size - a, size) = t - a BY <1>1 DEF Wrap
  <2> QED BY <1>1, <2>1, <2>2, <2>3
<1>2. CASE t + 1 # size
  <2>1. Wrap(t + 1, size) = t + 1 BY <1>2 DEF Wrap
  <2>2. t + 1 + size - (a + 1) = t + size - a OBVIOUS
  <2> QED BY <2>1, <2>2
<1> QED BY <1>1, <1>2

LEMMA ContentsIsSeq ==
  ASSUME NEW size \in Nat \ {0}, NEW q \in Rings(size)
  PROVE  /\ Contents(q, size) \in Seq(Nat)
         /\ Len(Contents(q, size)) = size - q.avail
         /\ \A i \in 1 .. size - q.avail :
              Contents(q, size)[i] = q.buf[Wrap(q.tail + i - 1, size)]
<1>1. size - q.avail \in Nat BY RingFields
<1>2. \A i \in 1 .. size - q.avail : q.buf[Wrap(q.tail + i - 1, size)] \in Nat
  <2> TAKE i \in 1 .. size - q.avail
  <2>1. Wrap(q.tail + i - 1, size) \in 0 .. size - 1 BY RingFields DEF Wrap
  <2> QED BY <2>1, RingFields
<1> QED BY <1>1, <1>2, IsASeq DEF Contents

\* What is outside the queue does not matter.
LEMMA ContentsSame ==
  ASSUME NEW size \in Nat \ {0}, NEW q \in Rings(size), NEW r \in Rings(size),
         r.tail = q.tail, r.avail = q.avail,
         \A k \in 0 .. size - 1 : k # Behind(q, size) => r.buf[k] = q.buf[k],
         q.avail > 0
  PROVE  Contents(r, size) = Contents(q, size)
<1>1. ASSUME NEW i \in 1 .. size - q.avail
      PROVE  r.buf[Wrap(r.tail + i - 1, size)] = q.buf[Wrap(q.tail + i - 1, size)]
  <2>1. Wrap(q.tail + i - 1, size) \in 0 .. size - 1 BY RingFields DEF Wrap
  <2>2. Wrap(q.tail + i - 1, size) # Behind(q, size) BY RingFields DEF Wrap, Behind
  <2> QED BY <2>1, <2>2
<1> QED BY <1>1 DEF Contents

\* The byte behind the queue becomes its last one.
LEMMA ContentsAppend ==
  ASSUME NEW size \in Nat \ {0}, NEW q \in Rings(size), NEW r \in Rings(size),
         q.avail > 0, r.tail = q.tail, r.avail = q.avail - 1, r.buf = q.buf
  PROVE  Contents(r, size) = Append(Contents(q, size), q.buf[Behind(q, size)])
<1> DEFINE b == q.buf[Behind(q, size)]
           s == Append(Contents(q, size), b)
<1>1. Behind(q, size) \in 0 .. size - 1 BY RingFields DEF Wrap, Behind
<1>2. b \in Nat BY <1>1, RingFields
<1>3. /\ s \in Seq(Nat) /\ Len(s) = Len(Contents(q, size)) + 1
      /\ \A i \in 1 .. Len(Contents(q, size)) : s[i] = Contents(q, size)[i]
      /\ s[Len(Contents(q, size)) + 1] = b
  BY <1>2, ContentsIsSeq, AppendProperties
<1>4. Len(Contents(r, size)) = Len(s) BY <1>3, ContentsIsSeq, RingFields
<1>5. ASSUME NEW i \in 1 .. Len(s) PROVE Contents(r, size)[i] = s[i]
  <2>0. Len(s) = size - q.avail + 1 /\ q.avail \in 0 .. size BY <1>3, ContentsIsSeq, RingFields
  <2>1. i \in 1 .. size - r.avail BY <2>0
  <2>2. Contents(r, size)[i] = q.buf[Wrap(q.tail + i - 1, size)]
    BY <2>1, ContentsIsSeq
  <2>3. CASE i = Len(s)
    <3>1. i - 1 = size - q.avail BY <2>0, <2>3
    <3>2. Wrap(q.tail + i - 1, size) = Behind(q, size) BY <3>1, <2>0, RingFields DEF Behind
    <3> QED BY <2>2, <3>2, <2>3, <1>3
  <2>4. CASE i # Len(s)
    <3>1. i \in 1 .. size - q.avail BY <2>0, <2>4
    <3> QED BY <2>2, <3>1, <1>3, ContentsIsSeq
  <2> QED BY <2>3, <2>4
<1> QED BY <1>3, <1>4, <1>5, ContentsIsSeq, SeqEqual

LEMMA EnQueueRing ==
  ASSUME NEW size \in Nat \ {0}, NEW q \in Rings(size), NEW b \in Nat,
         Consistent(q, size), q.avail > 0
  PROVE  /\ EnQueue(q, size, b) \in Rings(size)
         /\ Consistent(EnQueue(q, size, b), size)
         /\ Contents(EnQueue(q, size, b), size) = Append(Contents(q, size), b)
<1> DEFINE p == [q EXCEPT !.buf[q.head] = b]
           r == EnQueue(q, size, b)
<1>1. r \in Rings(size) BY SMTT(30) DEF EnQueue, Rings, Wrap
<1>2. Consistent(r, size) BY RingFields DEF EnQueue, Wrap, Consistent, Behind
<1>3. p \in Rings(size) /\ p.tail = q.tail /\ p.avail = q.avail BY DEF Rings
<1>4. p.buf = [q.buf EXCEPT ![q.head] = b] /\ q.head \in 0 .. size - 1 /\ q.buf \in [0 .. size - 1 -> Nat]
  BY RingFields
<1>5. Contents(p, size) = Contents(q, size)
  <2>1. \A k \in 0 .. size - 1 : k # Behind(q, size) => p.buf[k] = q.buf[k]
    BY <1>4 DEF Consistent
  <2> QED BY <2>1, <1>3, ContentsSame
<1>6. r.tail = p.tail /\ r.avail = p.avail - 1 /\ r.buf = p.buf BY <1>3, <1>4 DEF EnQueue
<1>7. p.buf[Behind(p, size)] = b
  <2>1. Behind(p, size) = q.head BY <1>3 DEF Behind, Consistent
  <2> QED BY <2>1, <1>4
<1> QED BY <1>1, <1>2, <1>3, <1>5, <1>6, <1>7, ContentsAppend

\* The next byte of a queue is a byte of it, wherever the queue starts.
LEMMA NextPlace ==
  ASSUME NEW size \in Nat \ {0}, NEW a \in 0 .. size - 1, NEW i \in 1 .. size - a - 1
  PROVE  i \in 1 .. size - (a + 1) /\ i + 1 \in 1 .. size - a
OBVIOUS

LEMMA DeQueueRing ==
  ASSUME NEW size \in Nat \ {0}, NEW q \in Rings(size), q.avail # size
  PROVE  /\ DeQueue(q, size) \in Rings(size)
         /\ Behind(DeQueue(q, size), size) = Behind(q, size)
         /\ Contents(q, size) # << >>
         /\ First(q) = Head(Contents(q, size))
         /\ Contents(DeQueue(q, size), size) = Tail(Contents(q, size))
<1> DEFINE r == DeQueue(q, size)
           s == Contents(q, size)
<1>0. /\ q.tail \in 0 .. size - 1 /\ q.avail \in 0 .. size - 1 /\ q.head \in 0 .. size - 1
      /\ q.buf \in [0 .. size - 1 -> Nat]
  BY RingFields
<1>1. r \in Rings(size) /\ r.tail = Wrap(q.tail + 1, size) /\ r.avail = q.avail + 1 /\ r.buf = q.buf
  <2>1. q.tail + 1 \in 0 .. 2 * size - 1 /\ q.avail + 1 \in 0 .. size BY <1>0
  <2>2. Wrap(q.tail + 1, size) \in 0 .. size - 1 BY <2>1, WrapInRange
  <2> QED BY <2>1, <2>2, <1>0 DEF DeQueue, Rings
<1>2. Behind(r, size) = Behind(q, size)
  <2>1. r.tail + size - r.avail = Wrap(q.tail + 1, size) + size - (q.avail + 1) BY <1>1
  <2>2. Behind(r, size) = Wrap(Wrap(q.tail + 1, size) + size - (q.avail + 1), size)
    BY <2>1 DEF Behind
  <2>3. Behind(q, size) = Wrap(q.tail + size - q.avail, size) BY DEF Behind
  <2>4. Wrap(Wrap(q.tail + 1, size) + size - (q.avail + 1), size)
          = Wrap(q.tail + size - q.avail, size)
    BY <1>0, WrapTwice
  <2> QED BY <2>2, <2>3, <2>4
<1>3. s \in Seq(Nat) /\ Len(s) = size - q.avail /\ Len(s) > 0 BY ContentsIsSeq, RingFields
<1>4. s # << >> BY <1>3
<1>5. First(q) = Head(s)
  <2>1. 1 \in 1 .. size - q.avail BY <1>3
  <2>2. s[1] = q.buf[Wrap(q.tail + 1 - 1, size)] BY <2>1, ContentsIsSeq
  <2>3. Wrap(q.tail + 1 - 1, size) = q.tail BY RingFields DEF Wrap
  <2> QED BY <2>2, <2>3, <1>3, <1>4, HeadTailProperties DEF First
<1>6. Contents(r, size) = Tail(s)
  <2>1. /\ Tail(s) \in Seq(Nat) /\ Len(Tail(s)) = Len(s) - 1
        /\ \A i \in 1 .. Len(Tail(s)) : Tail(s)[i] = s[i + 1]
    BY <1>3, <1>4, HeadTailProperties
  <2>2. Contents(r, size) \in Seq(Nat) /\ Len(Contents(r, size)) = Len(Tail(s))
    <3>1. Contents(r, size) \in Seq(Nat) /\ Len(Contents(r, size)) = size - r.avail
      BY <1>1, ContentsIsSeq
    <3>2. size - r.avail = (size - q.avail) - 1 BY <1>0, <1>1
    <3> QED BY <1>3, <2>1, <3>1, <3>2
  <2>3. ASSUME NEW i \in 1 .. Len(Tail(s)) PROVE Contents(r, size)[i] = Tail(s)[i]
    <3>0. Len(Tail(s)) = size - q.avail - 1 /\ r.avail = q.avail + 1 BY <2>1, <1>3, <1>1
    <3>1. i \in 1 .. size - r.avail /\ i + 1 \in 1 .. size - q.avail
      <4>1. i \in 1 .. size - q.avail - 1 BY <3>0
      <4>2. q.avail \in 0 .. size - 1 BY <1>0
      <4>3. i \in 1 .. size - (q.avail + 1) /\ i + 1 \in 1 .. size - q.avail
        BY <4>1, <4>2, NextPlace
      <4> QED BY <4>3, <3>0
    <3>2. Contents(r, size)[i] = q.buf[Wrap(r.tail + i - 1, size)]
      BY <3>1, <1>1, ContentsIsSeq
    <3>3. s[i + 1] = q.buf[Wrap(q.tail + (i + 1) - 1, size)] BY <3>1, ContentsIsSeq
    <3>4. Wrap(r.tail + i - 1, size) = Wrap(q.tail + (i + 1) - 1, size)
      BY <1>1, <3>1, RingFields, SMTT(30) DEF Wrap
    <3> QED BY <2>1, <3>2, <3>3, <3>4
  <2> QED BY <2>1, <2>2, <2>3, SeqEqual
<1> QED BY <1>1, <1>2, <1>4, <1>5, <1>6

LEMMA EmptiedRing ==
  ASSUME NEW size \in Nat \ {0}, NEW q \in Rings(size)
  PROVE  /\ Emptied(q, size) \in Rings(size)
         /\ Behind(Emptied(q, size), size) = Behind(q, size)
         /\ Emptied(q, size).avail = size
         /\ Emptied(q, size).head = q.head
         /\ Contents(Emptied(q, size), size) = << >>
<1> DEFINE r == Emptied(q, size)
<1>0. Behind(q, size) \in 0 .. size - 1 BY RingFields DEF Wrap, Behind
<1>1. /\ r \in Rings(size) /\ r.avail = size /\ r.head = q.head
      /\ r.tail = Behind(q, size)
  <2>1. r = [q EXCEPT !.tail = Behind(q, size), !.avail = size] BY DEF Emptied, Behind
  <2>2. size \in 0 .. size OBVIOUS
  <2> HIDE DEF r
  <2> QED BY <1>0, <2>1, <2>2 DEF Rings
<1>2. Behind(r, size) = r.tail BY <1>1, RingFields DEF Behind, Wrap
<1>3. Contents(r, size) \in Seq(Nat) /\ Len(Contents(r, size)) = 0
  BY <1>1, ContentsIsSeq
<1> QED BY <1>1, <1>2, <1>3, EmptySeq

-----------------------------------------------------------------------------
(* The invariants *)

OutType ==
  /\ outq \in Rings(OutSize)
  /\ fg \in [at : {"idle", "put", "head", "avail", "check", "flush", "rts"},
            head : 0 .. OutSize - 1, sending : BOOLEAN]
  /\ given \in Nat
  /\ env \in [late : Int, troubles : Int, stalled : BOOLEAN, gaveUp : BOOLEAN]
  /\ xmit \in BOOLEAN

\* While a byte is put in, avail still says the slot behind the queue is free; the
\* program's copy of the head stays true, for the interrupt routine moves only tail.
OutRing ==
  /\ fg.at \in {"put", "head", "avail"} =>
       fg.head = Behind(outq, OutSize) /\ outq.avail > 0
  /\ fg.at \in {"head", "avail"} => outq.buf[fg.head] = given + 1
  /\ outq.head = IF fg.at = "avail" THEN Wrap(fg.head + 1, OutSize)
                                    ELSE Behind(outq, OutSize)

\* Between two calls there is room for another byte.
OutRoom ==
  /\ fg.at = "flush" /\ ~xmit => outq.avail = OutSize
  /\ ~env.gaveUp /\ fg.at \notin {"check", "flush"} =>
       outq.avail >= IF fg.at \in {"put", "head", "avail"} THEN 1 ELSE Low

InRing ==
  /\ inq \in Rings(InSize) /\ Consistent(inq, InSize)
  /\ rbr \in Nat /\ arrived \in Nat
  /\ rbr # 0 => rbr = arrived + 1

InRoom ==
  /\ inq.avail >= 1
  /\ ~rcvDisabled => inq.avail >= Low
  /\ fg.at # "rts" /\ rcvDisabled => inq.avail <= High \/ inq.avail = InSize

OutInv == OutType /\ OutRing /\ OutRoom
InInv  == InRing /\ InRoom

-----------------------------------------------------------------------------
(* The queue to the modem *)

LEMMA RingSame ==
  ASSUME NEW size, NEW q, NEW r, r.tail = q.tail, r.avail = q.avail
  PROVE  Behind(r, size) = Behind(q, size)
BY DEF Behind

LEMMA RingInit ==
  ASSUME NEW size \in Nat \ {0}
  PROVE  /\ Ring(size) \in Rings(size) /\ Consistent(Ring(size), size)
         /\ Ring(size).avail = size /\ Contents(Ring(size), size) = << >>
<1>1. Ring(size) \in Rings(size) /\ Ring(size).avail = size BY DEF Ring, Rings
<1>2. Consistent(Ring(size), size) BY DEF Consistent, Behind, Wrap, Ring
<1>3. Contents(Ring(size), size) \in Seq(Nat) /\ Len(Contents(Ring(size), size)) = 0
  BY <1>1, ContentsIsSeq
<1> QED BY <1>1, <1>2, <1>3, EmptySeq

LEMMA EnableXmitFacts == EnableXmit => xmit' = TRUE
BY DEF EnableXmit

LEMMA OutInit == Init => OutInv
<1> SUFFICES ASSUME Init PROVE OutInv OBVIOUS
<1> USE UartAssumption
<1>1. outq \in Rings(OutSize) /\ outq.head = Behind(outq, OutSize) /\ outq.avail = OutSize
  BY RingInit DEF Init, Consistent
<1>2. fg = [at |-> "idle", head |-> 0, sending |-> FALSE] BY DEF Init, Idle
<1>3. 0 \in 0 .. OutSize - 1 OBVIOUS
<1>4. OutType
  <2>1. env = [late |-> Late, troubles |-> Troubles, stalled |-> FALSE, gaveUp |-> FALSE]
        /\ given = 0 /\ xmit = TRUE
    BY DEF Init
  <2> QED BY <2>1, <1>1, <1>2, <1>3 DEF OutType
<1> QED BY <1>1, <1>2, <1>4 DEF OutInv, OutRing, OutRoom

\* The ring is as it was, and the program is not putting a byte in.
LEMMA OutQuiet ==
  ASSUME OutInv, outq' = outq, given' = given, fg'.at \notin {"put", "head", "avail"},
         fg.at # "avail", OutType',
         fg'.at = "flush" /\ ~xmit' => outq.avail = OutSize,
         ~env'.gaveUp /\ fg'.at \notin {"check", "flush"} => outq.avail >= Low
  PROVE  OutInv'
<1>1. outq.head = Behind(outq, OutSize) BY DEF OutInv, OutRing
<1>2. OutRing' BY <1>1 DEF OutRing
<1>3. OutRoom' BY DEF OutRoom
<1> QED BY <1>2, <1>3 DEF OutInv

\* The interrupt routine moves tail and avail and leaves the slot behind the queue.
LEMMA OutTaken ==
  ASSUME OutInv, UartAssumption, outq.avail # OutSize, outq' = DeQueue(outq, OutSize),
         UNCHANGED <<fg, given, xmit, env>>
  PROVE  OutInv'
<1>1. OutSize \in Nat \ {0} /\ outq \in Rings(OutSize) BY DEF OutInv, OutType, UartAssumption
<1>2. outq' \in Rings(OutSize) /\ Behind(outq', OutSize) = Behind(outq, OutSize)
  BY <1>1, DeQueueRing
<1>3. outq'.avail = outq.avail + 1 /\ outq'.head = outq.head /\ outq'.buf = outq.buf
      /\ outq.avail \in 0 .. OutSize
  BY <1>1, RingFields DEF DeQueue, Rings
<1>4. OutType' BY <1>2 DEF OutInv, OutType
<1>5. OutRing' BY <1>2, <1>3 DEF OutInv, OutRing
<1>6. OutRoom' BY <1>3, <1>1 DEF OutInv, OutRoom, UartAssumption
<1> QED BY <1>4, <1>5, <1>6 DEF OutInv

LEMMA OutProgram == OutInv /\ Program => OutInv'
<1> SUFFICES ASSUME OutInv, Program PROVE OutInv' OBVIOUS
<1>0. /\ OutType /\ OutSize \in Nat \ {0} /\ outq \in Rings(OutSize)
      /\ outq.avail \in 0 .. OutSize /\ outq.head \in 0 .. OutSize - 1
      /\ outq.buf \in [0 .. OutSize - 1 -> Nat] /\ outq.tail \in 0 .. OutSize - 1
      /\ Low \in Nat /\ 2 <= Low /\ Low <= OutSize /\ 0 \in 0 .. OutSize - 1
  BY RingFields, UartAssumption DEF OutInv, OutType, UartAssumption
<1>1. ASSUME NEW sending \in BOOLEAN, BufferByte(sending) PROVE OutInv'
  <2>1. CASE outq.avail = 0
    <3>1. /\ fg' = [at |-> "flush", head |-> 0, sending |-> sending] /\ given' = given + 1
          /\ outq' = outq /\ env' = env /\ xmit' = TRUE
      BY <1>1, <2>1, EnableXmitFacts DEF BufferByte, Idle
    <3>2. OutType' BY <3>1, <1>0 DEF OutType
    <3>3. OutRing' BY <3>1, <1>1 DEF OutInv, OutRing, BufferByte
    <3>4. OutRoom' BY <3>1 DEF OutRoom
    <3> QED BY <3>2, <3>3, <3>4 DEF OutInv
  <2>2. CASE outq.avail # 0
    <3>1. /\ fg' = [at |-> "put", head |-> outq.head, sending |-> sending]
          /\ UNCHANGED <<outq, env, given, xmit>> /\ fg.at = "idle"
      BY <1>1, <2>2 DEF BufferByte
    <3>2. OutType' BY <3>1, <1>0 DEF OutType
    <3>3. OutRing' BY <3>1, <2>2, <1>0 DEF OutInv, OutRing
    <3>4. OutRoom' BY <3>1, <2>2, <1>0 DEF OutRoom
    <3> QED BY <3>2, <3>3, <3>4 DEF OutInv
  <2> QED BY <2>1, <2>2
<1>2. CASE PutByte
  <2>1. /\ fg.at = "put" /\ fg' = [fg EXCEPT !.at = "head"]
        /\ outq' = [outq EXCEPT !.buf[fg.head] = given + 1]
        /\ UNCHANGED <<env, given, xmit>>
    BY <1>2 DEF PutByte
  <2>2. fg.head \in 0 .. OutSize - 1 /\ given \in Nat BY <1>0 DEF OutType
  <2>3. outq' \in Rings(OutSize)
    <3>1. [outq.buf EXCEPT ![fg.head] = given + 1] \in [0 .. OutSize - 1 -> Nat]
      BY <1>0, <2>2
    <3>2. outq' = [outq EXCEPT !.buf = [outq.buf EXCEPT ![fg.head] = given + 1]] BY <2>1
    <3> QED BY <1>0, <3>1, <3>2 DEF Rings
  <2>4. /\ outq'.tail = outq.tail /\ outq'.avail = outq.avail /\ outq'.head = outq.head
        /\ outq'.buf[fg.head] = given + 1
    BY <1>0, <2>1, <2>2 DEF Rings
  <2>5. Behind(outq', OutSize) = Behind(outq, OutSize) BY <2>4, RingSame
  <2>6. fg'.at = "head" /\ fg'.head = fg.head /\ fg'.sending = fg.sending BY <2>1, <1>0 DEF OutType
  <2>7. OutType' BY <2>3, <2>1, <1>0 DEF OutType
  <2>8. OutRing' BY <2>1, <2>4, <2>5, <2>6 DEF OutInv, OutRing
  <2>9. OutRoom' BY <2>1, <2>4, <2>6 DEF OutInv, OutRoom
  <2> QED BY <2>7, <2>8, <2>9 DEF OutInv
<1>3. CASE PutHead
  <2>1. /\ fg.at = "head" /\ fg' = [fg EXCEPT !.at = "avail"]
        /\ outq' = [outq EXCEPT !.head = Wrap(fg.head + 1, OutSize)]
        /\ UNCHANGED <<env, given, xmit>>
    BY <1>3 DEF PutHead
  <2>2. fg.head \in 0 .. OutSize - 1 /\ given \in Nat BY <1>0 DEF OutType
  <2>3. outq' \in Rings(OutSize)
    <3>1. Wrap(fg.head + 1, OutSize) \in 0 .. OutSize - 1 BY <1>0, <2>2 DEF Wrap
    <3> QED BY <1>0, <2>1, <3>1 DEF Rings
  <2>4. /\ outq'.tail = outq.tail /\ outq'.avail = outq.avail
        /\ outq'.head = Wrap(fg.head + 1, OutSize) /\ outq'.buf = outq.buf
    BY <1>0, <2>1 DEF Rings
  <2>5. Behind(outq', OutSize) = Behind(outq, OutSize) BY <2>4, RingSame
  <2>6. fg'.at = "avail" /\ fg'.head = fg.head /\ fg'.sending = fg.sending BY <2>1, <1>0 DEF OutType
  <2>7. OutType' BY <2>3, <2>1, <1>0 DEF OutType
  <2>8. OutRing' BY <2>1, <2>4, <2>5, <2>6 DEF OutInv, OutRing
  <2>9. OutRoom' BY <2>1, <2>4, <2>6 DEF OutInv, OutRoom
  <2> QED BY <2>7, <2>8, <2>9 DEF OutInv
<1>4. CASE PutAvail
  <2>1. /\ fg.at = "avail" /\ fg' = [fg EXCEPT !.at = "check"]
        /\ outq' = [outq EXCEPT !.avail = @ - 1] /\ given' = given + 1
        /\ UNCHANGED <<env, xmit>>
    BY <1>4 DEF PutAvail
  <2>2. fg.head \in 0 .. OutSize - 1 /\ given \in Nat BY <1>0 DEF OutType
  <2>3. outq.avail > 0 /\ fg.head = Behind(outq, OutSize) BY <2>1 DEF OutInv, OutRing
  <2>4. outq' \in Rings(OutSize)
    <3>1. outq.avail - 1 \in 0 .. OutSize BY <2>3, <1>0
    <3> QED BY <1>0, <2>1, <3>1 DEF Rings
  <2>5. /\ outq'.tail = outq.tail /\ outq'.avail = outq.avail - 1
        /\ outq'.head = outq.head
    BY <1>0, <2>1 DEF Rings
  <2>6. fg'.at = "check" BY <2>1, <1>0 DEF OutType
  <2>7. outq'.head = Behind(outq', OutSize)
    <3>1. outq'.head = Wrap(Wrap(outq.tail + OutSize - outq.avail, OutSize) + 1, OutSize)
      BY <2>1, <2>3, <2>5 DEF OutInv, OutRing, Behind
    <3>2. Behind(outq', OutSize) = Wrap(outq.tail + OutSize - (outq.avail - 1), OutSize)
      BY <2>5 DEF Behind
    <3>3. Wrap(Wrap(outq.tail + OutSize - outq.avail, OutSize) + 1, OutSize)
            = Wrap(outq.tail + OutSize - (outq.avail - 1), OutSize)
      BY <1>0, <2>3 DEF Wrap
    <3> QED BY <3>1, <3>2, <3>3
  <2>8. OutType'
    <3>1. fg' \in [at : {"idle", "put", "head", "avail", "check", "flush", "rts"},
                   head : 0 .. OutSize - 1, sending : BOOLEAN]
      BY <1>0, <2>1 DEF OutType
    <3>2. given' \in Nat /\ env' = env /\ xmit' = xmit BY <2>1, <2>2
    <3> QED BY <1>0, <2>4, <3>1, <3>2 DEF OutType
  <2>9. OutRing' BY <2>6, <2>7 DEF OutRing
  <2>10. OutRoom' BY <2>6 DEF OutRoom
  <2> QED BY <2>8, <2>9, <2>10 DEF OutInv
<1>5. CASE Buffered
  <2>1. fg.at = "check" /\ UNCHANGED <<outq, given, env>> BY <1>5 DEF Buffered
  <2>2. CASE outq.avail < Low
    <3>1. fg' = [fg EXCEPT !.at = "flush"] /\ xmit' = TRUE
      BY <1>5, <2>2, EnableXmitFacts DEF Buffered, NeedsDrain
    <3>2. fg'.at = "flush" /\ OutType' BY <3>1, <2>1, <1>0 DEF OutType
    <3> QED BY <2>1, <3>1, <3>2, OutQuiet
  <2>3. CASE ~(outq.avail < Low)
    <3>1. fg' = [at |-> "idle", head |-> 0, sending |-> FALSE] /\ xmit' \in BOOLEAN
      BY <1>5, <2>3, <1>0, EnableXmitFacts DEF Buffered, NeedsDrain, Idle, OutType
    <3>2. fg'.at = "idle" /\ OutType' BY <3>1, <2>1, <1>0 DEF OutType
    <3> QED BY <1>0, <2>1, <2>3, <3>2, OutQuiet
  <2> QED BY <2>2, <2>3
<1>6. CASE Unbuffer
  <2>1. /\ fg.at = "idle" /\ fg' = [at |-> "flush", head |-> 0, sending |-> FALSE]
        /\ xmit' = TRUE /\ UNCHANGED <<outq, given, env>>
    BY <1>6, EnableXmitFacts DEF Unbuffer, Idle
  <2>2. OutType' BY <2>1, <1>0 DEF OutType
  <2> QED BY <2>1, <2>2, OutQuiet
<1>7. CASE Unbuffered
  <2>1. /\ fg.at = "flush" /\ fg' = [at |-> "idle", head |-> 0, sending |-> FALSE]
        /\ UNCHANGED <<outq, given>> /\ xmit' \in BOOLEAN
    BY <1>7, <1>0, EnableXmitFacts DEF Unbuffered, Idle, OutType
  <2>2. \/ env' = [env EXCEPT !.troubles = @ - 0, !.gaveUp = @ \/ xmit]
        \/ env' = [env EXCEPT !.troubles = @ - 1, !.gaveUp = @ \/ xmit]
    BY <1>7, Zenon DEF Unbuffered
  <2>3. env'.gaveUp = (env.gaveUp \/ xmit)
        /\ env' \in [late : Int, troubles : Int, stalled : BOOLEAN, gaveUp : BOOLEAN]
    <3>1. (env.gaveUp \/ xmit) \in BOOLEAN OBVIOUS
    <3>2. \E t \in Int, g \in BOOLEAN :
            g = (env.gaveUp \/ xmit) /\ env' = [env EXCEPT !.troubles = t, !.gaveUp = g]
      <4>1. env.troubles - 0 \in Int /\ env.troubles - 1 \in Int BY <1>0 DEF OutType
      <4> QED BY <2>2, <3>1, <4>1, Zenon
    <3>3. PICK t \in Int, g \in BOOLEAN :
            g = (env.gaveUp \/ xmit) /\ env' = [env EXCEPT !.troubles = t, !.gaveUp = g]
      BY <3>2
    <3>4. env'.gaveUp = g
          /\ env' \in [late : Int, troubles : Int, stalled : BOOLEAN, gaveUp : BOOLEAN]
      BY <3>3, <1>0 DEF OutType
    <3> QED BY <3>3, <3>4, Zenon
  <2>4. OutType' BY <2>1, <2>3, <1>0 DEF OutType
  <2>5. ~env'.gaveUp => outq.avail >= Low BY <1>0, <2>1, <2>3 DEF OutInv, OutRoom, OutType
  <2> QED BY <2>1, <2>4, <2>5, OutQuiet
<1>8. CASE ClearOutbound
  <2>1. /\ fg.at = "idle" /\ outq' = Emptied(outq, OutSize)
        /\ UNCHANGED <<fg, given, env, xmit>>
    BY <1>8 DEF ClearOutbound
  <2>2. /\ outq' \in Rings(OutSize) /\ outq'.avail = OutSize /\ outq'.head = outq.head
        /\ Behind(outq', OutSize) = Behind(outq, OutSize)
    BY <1>0, <2>1, EmptiedRing
  <2>3. OutType' BY <2>1, <2>2, <1>0 DEF OutType
  <2>4. OutRing' BY <2>1, <2>2 DEF OutInv, OutRing
  <2>5. OutRoom' BY <2>1, <2>2, <1>0 DEF OutRoom
  <2> QED BY <2>3, <2>4, <2>5 DEF OutInv
<1>9. CASE ModemIn
  <2>1. /\ fg.at = "idle" /\ fg' = [at |-> "rts", head |-> 0, sending |-> FALSE]
        /\ UNCHANGED <<outq, given, env, xmit>>
    BY <1>9 DEF ModemIn, Idle, tx
  <2>2. OutType' BY <2>1, <1>0 DEF OutType
  <2> QED BY <1>0, <2>1, <2>2, OutQuiet DEF OutInv, OutRoom
<1>10. CASE ModemInRts
  <2>1. /\ fg.at = "rts" /\ fg' = [at |-> "idle", head |-> 0, sending |-> FALSE]
        /\ UNCHANGED <<outq, given, env, xmit>>
    BY <1>10 DEF ModemInRts, Idle, tx
  <2>2. OutType' BY <2>1, <1>0 DEF OutType
  <2> QED BY <1>0, <2>1, <2>2, OutQuiet DEF OutInv, OutRoom
<1>11. CASE ClearInbound
  <2>1. fg.at = "idle" /\ UNCHANGED <<fg, outq, given, env, xmit>>
    BY <1>11 DEF ClearInbound, tx
  <2>2. OutType' BY <2>1, <1>0 DEF OutType
  <2> QED BY <1>0, <2>1, <2>2, OutQuiet DEF OutInv, OutRoom
<1> QED
  BY <1>1, <1>2, <1>3, <1>4, <1>5, <1>6, <1>7, <1>8, <1>9, <1>10, <1>11 DEF Program

\* A step that touches neither the ring nor the program.
LEMMA OutSame ==
  ASSUME OutInv, UNCHANGED <<outq, fg, given, xmit>>, env'.gaveUp = env.gaveUp,
         env' \in [late : Int, troubles : Int, stalled : BOOLEAN, gaveUp : BOOLEAN]
  PROVE  OutInv'
BY DEF OutInv, OutType, OutRing, OutRoom

LEMMA OutDevice == OutInv /\ (Interrupt \/ Uart) => OutInv'
<1> SUFFICES ASSUME OutInv, Interrupt \/ Uart PROVE OutInv' OBVIOUS
<1>0. env \in [late : Int, troubles : Int, stalled : BOOLEAN, gaveUp : BOOLEAN]
  BY DEF OutInv, OutType
<1>1. CASE IsrTransmit
  <2>1. UNCHANGED <<fg, given>> BY <1>1 DEF IsrTransmit
  <2>2. CASE ~cts
    <3>1. env' = [env EXCEPT !.stalled = TRUE] /\ UNCHANGED <<outq, xmit>>
      BY <1>1, <2>2 DEF IsrTransmit
    <3> QED BY <1>0, <2>1, <3>1, OutSame
  <2>3. CASE cts /\ outq.avail = OutSize
    <3>1. xmit' = FALSE /\ UNCHANGED <<outq, env>> BY <1>1, <2>3 DEF IsrTransmit
    <3>2. xmit' \in BOOLEAN BY <3>1
    <3>3. OutType' BY <2>1, <3>1, <3>2 DEF OutInv, OutType
    <3>4. OutRing' BY <2>1, <3>1 DEF OutInv, OutRing
    <3>5. OutRoom' BY <2>1, <2>3, <3>1 DEF OutInv, OutRoom
    <3> QED BY <3>3, <3>4, <3>5 DEF OutInv
  <2>4. CASE cts /\ outq.avail # OutSize
    <3>1. outq' = DeQueue(outq, OutSize) /\ UNCHANGED <<xmit, env>>
      BY <1>1, <2>4 DEF IsrTransmit
    <3> QED BY <2>1, <2>4, <3>1, OutTaken, UartAssumption
  <2> QED BY <2>2, <2>3, <2>4
<1>2. CASE IsrReceive
  BY <1>0, <1>2, OutSame DEF IsrReceive, tx
<1>3. CASE IsrMstatus
  <2>1. UNCHANGED <<outq, fg, given, xmit>> BY <1>3 DEF IsrMstatus, tx
  <2>2. env' = env \/ env' = [env EXCEPT !.troubles = @ - 1]
    BY <1>3 DEF IsrMstatus, Trouble
  <2> QED BY <1>0, <2>1, <2>2, OutSame
<1>4. CASE Transmitted
  BY <1>0, <1>4, OutSame DEF Transmitted
<1>5. CASE Arrives
  <2>1. UNCHANGED <<outq, fg, given, xmit>> BY <1>5 DEF Arrives, tx
  <2>2. env' = env \/ env' = [env EXCEPT !.late = @ - 1] BY <1>5 DEF Arrives
  <2> QED BY <1>0, <2>1, <2>2, OutSame
<1> QED BY <1>1, <1>2, <1>3, <1>4, <1>5 DEF Interrupt, Uart

LEMMA OutNext == OutInv /\ [Next]_vars => OutInv'
<1>1. OutInv /\ UNCHANGED vars => OutInv'
  BY DEF OutInv, OutType, OutRing, OutRoom, vars
<1> QED BY <1>1, OutProgram, OutDevice DEF Next

LEMMA OutHolds == Spec => []OutInv
BY OutInit, OutNext, PTL DEF Spec

-----------------------------------------------------------------------------
(* The queue from the modem *)

LEMMA InInit == Init => InInv
<1> SUFFICES ASSUME Init PROVE InInv OBVIOUS
<1>1. inq \in Rings(InSize) /\ Consistent(inq, InSize) /\ inq.avail = InSize
  BY RingInit, UartAssumption DEF Init, UartAssumption
<1>2. rbr = 0 /\ arrived = 0 /\ rcvDisabled = FALSE BY DEF Init
<1> QED BY <1>1, <1>2, UartAssumption DEF InInv, InRing, InRoom, UartAssumption

\* A step that leaves the queue and its flow control alone and is not in MODEM_IN().
LEMMA InSame ==
  ASSUME InInv, UNCHANGED <<inq, rcvDisabled, rbr, arrived>>,
         fg'.at # "rts" => fg.at # "rts"
  PROVE  InInv'
BY DEF InInv, InRing, InRoom, Consistent, Behind

LEMMA InNext == OutType /\ InInv /\ [Next]_vars => InInv'
<1> SUFFICES ASSUME OutType, InInv, [Next]_vars PROVE InInv' OBVIOUS
<1>0. /\ InSize \in Nat \ {0} /\ inq \in Rings(InSize) /\ Consistent(inq, InSize)
      /\ inq.avail \in 0 .. InSize /\ Low \in Nat /\ High \in Nat
      /\ 2 <= Low /\ Low <= High /\ High < InSize /\ rbr \in Nat /\ arrived \in Nat
      /\ inq.avail >= 1
      /\ (rbr # 0 => rbr = arrived + 1)
  BY RingFields, UartAssumption DEF InInv, InRing, InRoom, UartAssumption
<1>1. CASE IsrReceive
  <2> DEFINE stores == IF rcvDisabled THEN RoomAgain(inq) ELSE inq.avail # 0
             r      == EnQueue(inq, InSize, rbr)
  <2>1. /\ rbr' = 0 /\ arrived' = rbr /\ fg' = fg
        /\ inq' = IF stores THEN r ELSE inq
        /\ rcvDisabled' = ((~rcvDisabled /\ (~stores \/ r.avail < Low)) \/ (rcvDisabled /\ ~stores))
    BY <1>1 DEF IsrReceive
  <2>2. r.avail = inq.avail - 1 BY DEF EnQueue
  <2>3. r \in Rings(InSize) /\ Consistent(r, InSize) BY <1>0, EnQueueRing
  <2>4. InRing'
    <3>1. inq' \in Rings(InSize) /\ Consistent(inq', InSize) BY <1>0, <2>1, <2>3
    <3> QED BY <1>0, <2>1, <3>1 DEF InRing, Consistent, Behind
  <2>5. CASE rcvDisabled
    <3>1. CASE inq.avail > High
      <4>1. inq' = r /\ rcvDisabled' = FALSE BY <2>1, <2>5, <3>1 DEF RoomAgain
      <4> QED BY <1>0, <2>2, <2>4, <3>1, <4>1 DEF InInv, InRoom
    <3>2. CASE ~(inq.avail > High)
      <4>1. inq' = inq /\ rcvDisabled' = TRUE BY <2>1, <2>5, <3>2 DEF RoomAgain
      <4> QED BY <2>1, <2>4, <4>1, <1>0, <3>2 DEF InInv, InRoom
    <3> QED BY <3>1, <3>2
  <2>6. CASE ~rcvDisabled
    <3>1. inq' = r /\ rcvDisabled' = (r.avail < Low) BY <1>0, <2>1, <2>6
    <3>2. inq.avail >= Low BY <2>6 DEF InInv, InRoom
    <3>3. inq'.avail >= 1 /\ (~rcvDisabled' => inq'.avail >= Low)
          /\ (rcvDisabled' => inq'.avail <= High)
      <4>1. CASE r.avail < Low
        <5>1. rcvDisabled' BY <3>1, <4>1, Zenon
        <5>2. inq'.avail < Low BY <3>1, <4>1, Zenon
        <5>3. inq' = r BY <3>1, Zenon
        <5> QED BY <1>0, <2>2, <3>2, <5>1, <5>2, <5>3
      <4>2. CASE ~(r.avail < Low)
        <5>1. ~rcvDisabled' BY <3>1, <4>2, Zenon
        <5>2. ~(inq'.avail < Low) BY <3>1, <4>2, Zenon
        <5>3. inq' = r BY <3>1, Zenon
        <5> QED BY <1>0, <2>2, <3>2, <5>1, <5>2, <5>3
      <4> QED BY <4>1, <4>2
    <3> QED BY <2>4, <3>3 DEF InInv, InRoom
  <2> QED BY <1>0, <2>5, <2>6
<1>2. CASE ModemIn
  <2>1. /\ fg'.at = "rts" /\ inq' = DeQueue(inq, InSize) /\ inq.head # inq.tail
        /\ UNCHANGED <<rbr, rcvDisabled, arrived>>
    BY <1>2 DEF ModemIn, Idle, queue_empty
  <2>2. inq.avail # InSize
    BY <1>0, <2>1, RingFields DEF Consistent, Behind, Wrap
  <2>3. inq' \in Rings(InSize) /\ Behind(inq', InSize) = Behind(inq, InSize)
    BY <1>0, <2>1, <2>2, DeQueueRing
  <2>4. inq'.avail = inq.avail + 1 /\ inq'.head = inq.head
    BY <1>0, <2>1 DEF DeQueue, Rings
  <2>5. InRing' BY <1>0, <2>1, <2>3, <2>4 DEF InRing, Consistent
  <2>6. InRoom' BY <1>0, <2>1, <2>4 DEF InInv, InRoom
  <2> QED BY <2>5, <2>6 DEF InInv
<1>3. CASE ModemInRts
  <2>1. /\ fg'.at = "idle" /\ RaiseRts /\ UNCHANGED <<inq, rbr, arrived>>
    BY <1>3 DEF ModemInRts, Idle
  <2>2. InRing' BY <1>0, <2>1 DEF InRing, Consistent, Behind
  <2>3. InRoom' BY <1>0, <2>1 DEF InInv, InRoom, RaiseRts, RoomAgain
  <2> QED BY <2>2, <2>3 DEF InInv
<1>4. CASE ClearInbound
  <2>1. /\ fg' = fg /\ fg.at = "idle" /\ inq' = Emptied(inq, InSize)
        /\ UNCHANGED <<rbr, rcvDisabled, arrived>>
    BY <1>4 DEF ClearInbound
  <2>2. /\ inq' \in Rings(InSize) /\ inq'.avail = InSize /\ inq'.head = inq.head
        /\ Behind(inq', InSize) = Behind(inq, InSize)
    BY <1>0, <2>1, EmptiedRing
  <2>3. InRing' BY <1>0, <2>1, <2>2 DEF InRing, Consistent
  <2>4. InRoom' BY <1>0, <2>1, <2>2 DEF InRoom
  <2> QED BY <2>3, <2>4 DEF InInv
<1>5. CASE IsrMstatus
  <2>1. RaiseRts /\ UNCHANGED <<fg, inq, rbr, arrived>> BY <1>5 DEF IsrMstatus
  <2>2. InRing' BY <1>0, <2>1 DEF InRing, Consistent, Behind
  <2>3. InRoom' BY <1>0, <2>1 DEF InInv, InRoom, RaiseRts, RoomAgain
  <2> QED BY <2>2, <2>3 DEF InInv
<1>6. CASE Arrives
  <2>1. rbr' = arrived + 1 /\ UNCHANGED <<fg, inq, rcvDisabled, arrived>>
    BY <1>6 DEF Arrives
  <2> QED BY <1>0, <2>1 DEF InInv, InRing, InRoom, Consistent, Behind
<1>7. CASE IsrTransmit
  BY <1>7, InSame DEF IsrTransmit, rx
<1>8. CASE Transmitted
  BY <1>8, InSame DEF Transmitted, rx
<1>9. CASE PutByte \/ PutHead \/ PutAvail \/ ClearOutbound
  <2>1. UNCHANGED <<inq, rcvDisabled, rbr, arrived>> /\ fg.at # "rts"
    BY <1>9 DEF PutByte, PutHead, PutAvail, ClearOutbound, rx
  <2> QED BY <2>1, InSame
<1>10. CASE Buffered \/ Unbuffer \/ Unbuffered
  <2>1. UNCHANGED <<inq, rcvDisabled, rbr, arrived>> /\ fg.at # "rts"
    BY <1>10 DEF Buffered, Unbuffer, Unbuffered, rx
  <2> QED BY <2>1, InSame
<1>11. ASSUME NEW sending \in BOOLEAN, BufferByte(sending) PROVE InInv'
  <2>1. UNCHANGED <<inq, rcvDisabled, rbr, arrived>> /\ fg.at # "rts"
    BY <1>11 DEF BufferByte, rx
  <2> QED BY <2>1, InSame
<1>12. CASE UNCHANGED vars
  BY <1>12, InSame DEF vars
<1> QED
  BY <1>1, <1>2, <1>3, <1>4, <1>5, <1>6, <1>7, <1>8, <1>9, <1>10, <1>11, <1>12
  DEF Next, Program, Interrupt, Uart

LEMMA InHolds == Spec => []InInv
<1>1. OutInv => OutType BY DEF OutInv
<1> QED BY <1>1, OutHolds, InInit, InNext, PTL DEF Spec

-----------------------------------------------------------------------------
(* The properties *)

\* head = tail means empty: neither queue is ever full where it is asked.
THEOREM EmptyIsEmptyHolds == Spec => []EmptyIsEmpty
<1>1. OutInv /\ InInv => EmptyIsEmpty
  <2> SUFFICES ASSUME OutInv, InInv PROVE EmptyIsEmpty OBVIOUS
  <2>1. queue_empty(inq) => inq.avail = InSize
    BY UartAssumption, RingFields
    DEF UartAssumption, InInv, InRing, InRoom, Consistent, Behind, Wrap, queue_empty
  <2>2. fg.at = "idle" /\ ~env.gaveUp /\ queue_empty(outq) => outq.avail = OutSize
    BY UartAssumption, RingFields
    DEF UartAssumption, OutInv, OutType, OutRing, OutRoom, Behind, Wrap, queue_empty
  <2> QED BY <2>1, <2>2 DEF EmptyIsEmpty
<1> QED BY <1>1, OutHolds, InHolds, PTL

\* RTS stays off only while the queue is above the threshold, or was emptied by
\* CLEAR_INBOUND().
THEOREM StoppedForAReasonHolds == Spec => []StoppedForAReason
<1>1. InInv => StoppedForAReason BY DEF InInv, InRoom, StoppedForAReason
<1> QED BY <1>1, InHolds, PTL

\* en_queue() interrupted anywhere by dtr8250_isr(): the queue to the modem is a
\* queue that refuses a byte only when it is full.
THEOREM SendsInOrderHolds == Spec => SendsInOrder
<1>1. Init => OutLine!Init
  BY RingInit, UartAssumption DEF Init, OutLine!Init, UartAssumption
<1>2. OutInv /\ [Next]_vars => [OutLine!Next]_<<Contents(outq, OutSize), given, sent>>
  <2> SUFFICES ASSUME OutInv, [Next]_vars
               PROVE  OutLine!Next \/ UNCHANGED <<Contents(outq, OutSize), given, sent>>
    OBVIOUS
  <2>0. /\ OutSize \in Nat \ {0} /\ outq \in Rings(OutSize) /\ OutInv'
        /\ outq' \in Rings(OutSize)
    BY OutNext, UartAssumption DEF OutInv, OutType, UartAssumption
  <2>1. ASSUME NEW sending \in BOOLEAN, BufferByte(sending)
        PROVE  OutLine!Next \/ UNCHANGED <<Contents(outq, OutSize), given, sent>>
    <3>1. UNCHANGED <<outq, sent>> BY <2>1 DEF BufferByte
    <3>2. CASE outq.avail = 0
      <4>1. given' = given + 1 BY <2>1, <3>2 DEF BufferByte
      <4>2. Len(Contents(outq, OutSize)) >= OutSize BY <2>0, <3>2, ContentsIsSeq
      <4> QED BY <3>1, <4>1, <4>2 DEF OutLine!Next, OutLine!Refuse
    <3>3. CASE outq.avail # 0
      BY <2>1, <3>1, <3>3 DEF BufferByte
    <3> QED BY <3>2, <3>3
  <2>2. CASE PutByte
    <3>1. /\ fg.at = "put" /\ outq' = [outq EXCEPT !.buf[fg.head] = given + 1]
          /\ UNCHANGED <<given, sent>>
      BY <2>2 DEF PutByte
    <3>2. fg.head = Behind(outq, OutSize) /\ outq.avail > 0 BY <3>1 DEF OutInv, OutRing
    <3>3. /\ outq'.tail = outq.tail /\ outq'.avail = outq.avail
          /\ \A k \in 0 .. OutSize - 1 :
               k # Behind(outq, OutSize) => outq'.buf[k] = outq.buf[k]
      BY <2>0, <3>1, <3>2 DEF Rings
    <3>4. Contents(outq', OutSize) = Contents(outq, OutSize)
      BY <2>0, <3>2, <3>3, ContentsSame
    <3> QED BY <3>1, <3>4 DEF Contents
  <2>3. CASE PutHead
    <3>1. outq' = [outq EXCEPT !.head = Wrap(fg.head + 1, OutSize)] /\ UNCHANGED <<given, sent>>
      BY <2>3 DEF PutHead
    <3>2. outq'.tail = outq.tail /\ outq'.avail = outq.avail /\ outq'.buf = outq.buf
      BY <2>0, <3>1 DEF Rings
    <3> QED BY <3>1, <3>2 DEF Contents
  <2>4. CASE PutAvail
    <3>1. /\ fg.at = "avail" /\ outq' = [outq EXCEPT !.avail = @ - 1]
          /\ given' = given + 1 /\ sent' = sent
      BY <2>4 DEF PutAvail
    <3>2. outq.avail > 0 /\ outq.buf[Behind(outq, OutSize)] = given + 1
      BY <3>1 DEF OutInv, OutRing
    <3>3. outq'.tail = outq.tail /\ outq'.avail = outq.avail - 1 /\ outq'.buf = outq.buf
      BY <2>0, <3>1 DEF Rings
    <3>4. Contents(outq', OutSize) = Append(Contents(outq, OutSize), given + 1)
      BY <2>0, <3>2, <3>3, ContentsAppend
    <3> QED BY <3>1, <3>4 DEF OutLine!Next, OutLine!Put, Contents
  <2>5. CASE ClearOutbound
    <3>1. outq' = Emptied(outq, OutSize) /\ UNCHANGED <<given, sent>>
      BY <2>5 DEF ClearOutbound
    <3>2. Contents(outq', OutSize) = << >> BY <2>0, <3>1, EmptiedRing
    <3> QED BY <3>1, <3>2 DEF OutLine!Next, OutLine!Clear, Contents
  <2>6. CASE IsrTransmit
    <3>1. given' = given BY <2>6 DEF IsrTransmit
    <3>2. CASE cts /\ outq.avail # OutSize
      <4>1. outq' = DeQueue(outq, OutSize) /\ sent' = First(outq)
        BY <2>6, <3>2 DEF IsrTransmit
      <4>2. /\ Contents(outq, OutSize) # << >>
            /\ First(outq) = Head(Contents(outq, OutSize))
            /\ Contents(outq', OutSize) = Tail(Contents(outq, OutSize))
        BY <2>0, <3>2, <4>1, DeQueueRing
      <4> QED BY <3>1, <4>1, <4>2 DEF OutLine!Next, OutLine!Get, Contents
    <3>3. CASE ~(cts /\ outq.avail # OutSize)
      BY <2>6, <3>1, <3>3 DEF IsrTransmit
    <3> QED BY <3>2, <3>3
  <2>7. CASE Buffered \/ Unbuffer \/ Unbuffered
    BY <2>7 DEF Buffered, Unbuffer, Unbuffered
  <2>8. CASE ModemIn \/ ModemInRts \/ ClearInbound
    BY <2>8 DEF ModemIn, ModemInRts, ClearInbound, tx
  <2>9. CASE IsrReceive \/ IsrMstatus \/ Transmitted \/ Arrives
    BY <2>9 DEF IsrReceive, IsrMstatus, Transmitted, Arrives, tx
  <2>10. CASE UNCHANGED vars
    BY <2>10 DEF vars
  <2> QED
    BY <2>1, <2>2, <2>3, <2>4, <2>5, <2>6, <2>7, <2>8, <2>9, <2>10
    DEF Next, Program, Interrupt, Uart
<1> QED BY <1>1, <1>2, OutHolds, PTL DEF Spec, SendsInOrder, OutLine!Spec

\* Bytes from the modem reach MODEM_IN() in order, and are thrown away only while
\* no more than the upper threshold of the queue is free.
THEOREM ReadsInOrderHolds == Spec => ReadsInOrder
<1>1. Init => InLine!Init
  BY RingInit, UartAssumption DEF Init, InLine!Init, UartAssumption
<1>2. OutInv /\ InInv /\ [Next]_vars => [InLine!Next]_<<Contents(inq, InSize), arrived, got>>
  <2> SUFFICES ASSUME OutInv, InInv, [Next]_vars
               PROVE  InLine!Next \/ UNCHANGED <<Contents(inq, InSize), arrived, got>>
    OBVIOUS
  <2>0. /\ InSize \in Nat \ {0} /\ inq \in Rings(InSize) /\ Consistent(inq, InSize)
        /\ inq.avail \in 0 .. InSize /\ inq.avail >= 1
        /\ High \in Nat /\ Low \in Nat /\ 2 <= Low
    BY UartAssumption, RingFields DEF InInv, InRing, InRoom, UartAssumption
  <2>1. CASE IsrReceive
    <3> DEFINE stores == IF rcvDisabled THEN RoomAgain(inq) ELSE inq.avail # 0
    <3>1. /\ rbr = arrived + 1 /\ rbr \in Nat /\ arrived' = rbr /\ got' = got
          /\ inq' = IF stores THEN EnQueue(inq, InSize, rbr) ELSE inq
      BY <2>1 DEF IsrReceive, InInv, InRing
    <3>2. CASE stores
      <4>1. Contents(inq', InSize) = Append(Contents(inq, InSize), arrived + 1)
        BY <2>0, <3>1, <3>2, EnQueueRing
      <4> QED BY <3>1, <4>1 DEF InLine!Next, InLine!Put, Contents
    <3>3. CASE ~stores
      <4>1. inq.avail <= High BY <2>0, <3>3 DEF RoomAgain
      <4>2. Len(Contents(inq, InSize)) >= InSize - High BY <2>0, <4>1, ContentsIsSeq
      <4> QED BY <3>1, <3>3, <4>2 DEF InLine!Next, InLine!Refuse
    <3> QED BY <3>2, <3>3
  <2>2. CASE ModemIn
    <3>1. /\ inq' = DeQueue(inq, InSize) /\ got' = First(inq) /\ arrived' = arrived
          /\ inq.head # inq.tail
      BY <2>2 DEF ModemIn, queue_empty
    <3>2. inq.avail # InSize BY <2>0, <3>1, RingFields DEF Consistent, Behind, Wrap
    <3>3. /\ Contents(inq, InSize) # << >>
          /\ First(inq) = Head(Contents(inq, InSize))
          /\ Contents(inq', InSize) = Tail(Contents(inq, InSize))
      BY <2>0, <3>1, <3>2, DeQueueRing
    <3> QED BY <3>1, <3>3 DEF InLine!Next, InLine!Get, Contents
  <2>3. CASE ClearInbound
    <3>1. inq' = Emptied(inq, InSize) /\ UNCHANGED <<arrived, got>>
      BY <2>3 DEF ClearInbound
    <3>2. Contents(inq', InSize) = << >> BY <2>0, <3>1, EmptiedRing
    <3> QED BY <3>1, <3>2 DEF InLine!Next, InLine!Clear, Contents
  <2>4. CASE ModemInRts \/ IsrMstatus \/ Arrives
    BY <2>4 DEF ModemInRts, IsrMstatus, Arrives
  <2>5. CASE IsrTransmit \/ Transmitted
    BY <2>5 DEF IsrTransmit, Transmitted, rx
  <2>6. CASE PutByte \/ PutHead \/ PutAvail \/ ClearOutbound
    BY <2>6 DEF PutByte, PutHead, PutAvail, ClearOutbound, rx
  <2>7. CASE Buffered \/ Unbuffer \/ Unbuffered
    BY <2>7 DEF Buffered, Unbuffer, Unbuffered, rx
  <2>8. ASSUME NEW sending \in BOOLEAN, BufferByte(sending)
        PROVE  InLine!Next \/ UNCHANGED <<Contents(inq, InSize), arrived, got>>
    BY <2>8 DEF BufferByte, rx
  <2>9. CASE UNCHANGED vars
    BY <2>9 DEF vars
  <2> QED
    BY <2>1, <2>2, <2>3, <2>4, <2>5, <2>6, <2>7, <2>8, <2>9
    DEF Next, Program, Interrupt, Uart
<1> QED BY <1>1, <1>2, OutHolds, InHolds, PTL DEF Spec, ReadsInOrder, InLine!Spec
=============================================================================
