------------------------------- MODULE UartQueue -------------------------------
(***************************************************************************)
(* The serial buffers of the DOS build without a FOSSIL driver (modem.c,   *)
(* __NOFOSSIL__): two ring buffers between the program and the interrupt   *)
(* routine of the 8250, and its two flow controls, CTS out and RTS in.     *)
(*                                                                         *)
(* The interrupt routine runs to its end before the program goes on, so    *)
(* one cause of an interrupt is one step.  The program is interrupted      *)
(* anywhere except between disable() and enable(): en_queue() in           *)
(* BUFFER_BYTE() is several steps, everything under disable() is one.      *)
(* Bytes are numbered in the order in which they are buffered or arrive.   *)
(***************************************************************************)
EXTENDS Integers, Sequences

CONSTANTS
  OutSize, InSize,  \* alloc_queue(1024), alloc_queue(4096)
  Low,              \* room below which a queue is drained or RTS dropped (10)
  High,             \* room above which RTS is raised again (20)
  MaxBytes,         \* bytes sent and received in all
  Late,             \* bytes the modem still sends after RTS has been dropped
  Troubles          \* times Escape is pressed, CTS goes off, the carrier goes

ASSUME UartAssumption ==
  /\ OutSize \in Nat \ {0} /\ InSize \in Nat \ {0}
  /\ Low \in Nat /\ High \in Nat /\ 2 <= Low /\ Low <= High /\ High < InSize
  /\ Low <= OutSize
  /\ MaxBytes \in Nat /\ Late \in Nat /\ Troubles \in Nat

VARIABLES
  outq, inq,     \* the rings: buf, head, tail, avail
  fg,            \* the program: where it is, head (its copy of qp->head), sending
  xmit,          \* set by UNBUFFER_BYTES(), cleared when the queue is found empty
  ier,           \* the transmit interrupt is enabled
  thre,          \* a transmit interrupt is pending
  shifting,      \* the 8250 has a byte to transmit
  rbr,           \* the byte the 8250 has received, or 0
  rcvDisabled,   \* RCV_disabled
  rts, cts,      \* the flow control lines
  carrier,
  given, sent,   \* number of the last byte put into outq; last byte output
  arrived, got,  \* number of the last byte taken from the 8250; last byte read
  env            \* late, troubles: what is left of the bounds; and
                 \* stalled: CTS was off at a transmit interrupt, gaveUp:
                 \* UNBUFFER_BYTES() ended with bytes in the queue

tx == <<outq, xmit, ier, thre, shifting, given, sent>>
rx == <<inq, rbr, rcvDisabled, rts, arrived, got>>
line == <<cts, carrier>>
vars == <<outq, inq, fg, xmit, ier, thre, shifting, rbr, rcvDisabled, rts, cts,
          carrier, given, sent, arrived, got, env>>

-----------------------------------------------------------------------------
(* The rings *)

Wrap(i, size) == IF i >= size THEN i - size ELSE i

Ring(size) == [buf |-> [i \in 0 .. size - 1 |-> 0], head |-> 0, tail |-> 0, avail |-> size]

\* en_queue(), where nothing can come in between
EnQueue(q, size, b) ==
  [buf   |-> [q.buf EXCEPT ![q.head] = b],
   head  |-> Wrap(q.head + 1, size),
   tail  |-> q.tail,
   avail |-> q.avail - 1]

\* de_queue(), and what it returns
First(q)         == q.buf[q.tail]
DeQueue(q, size) == [q EXCEPT !.tail = Wrap(q.tail + 1, size), !.avail = @ + 1]

\* de_queue() until it returns -1
Emptied(q, size) == [q EXCEPT !.tail = Wrap(q.tail + size - q.avail, size), !.avail = size]

\* queue_empty(): also true of a queue that is full
queue_empty(q) == q.head = q.tail

-----------------------------------------------------------------------------
(* The program *)

Idle == [at |-> "idle", head |-> 0, sending |-> FALSE]

\* Faulty: without disable(), the interrupt that finds nothing to transmit comes
\* between ENABLE_xmit and the assignment
EnableXmitOpen ==
  /\ xmit' = TRUE
  /\ ier' = (thre => outq.avail # OutSize)
  /\ thre' = (thre \/ (~shifting /\ ~ier)) /\ UNCHANGED shifting

\* ENABLE_xmit and xmit = 1 between disable() and enable().  The 8250 raises a
\* transmit interrupt if it has nothing to transmit and the interrupt was not
\* enabled before; if it was, some do and some do not.
EnableXmit ==
  /\ xmit' = TRUE /\ ier' = TRUE
  /\ \E again \in BOOLEAN : thre' = (thre \/ (~shifting /\ (again \/ ~ier)))
  /\ UNCHANGED shifting

\* BUFFER_BYTE() and SENDBYTE() as far as the test of qp->avail in en_queue().
\* With no room the byte is dropped, and what is there is drained.
BufferByte(sending) ==
  /\ fg.at = "idle" /\ given + arrived < MaxBytes
  /\ IF outq.avail = 0
     THEN /\ given' = given + 1
          /\ fg' = [Idle EXCEPT !.at = "flush", !.sending = sending]
          /\ EnableXmit
     ELSE /\ fg' = [at |-> "put", head |-> outq.head, sending |-> sending]
          /\ UNCHANGED <<given, xmit, ier, thre, shifting>>
  /\ UNCHANGED <<outq, sent, rx, line, env>>

PutByte ==
  /\ fg.at = "put"
  /\ outq' = [outq EXCEPT !.buf[fg.head] = given + 1]
  /\ fg' = [fg EXCEPT !.at = "head"]
  /\ UNCHANGED <<xmit, ier, thre, shifting, given, sent, rx, line, env>>

PutHead ==
  /\ fg.at = "head"
  /\ outq' = [outq EXCEPT !.head = Wrap(fg.head + 1, OutSize)]
  /\ fg' = [fg EXCEPT !.at = "avail"]
  /\ UNCHANGED <<xmit, ier, thre, shifting, given, sent, rx, line, env>>

\* Faulty: a transmit interrupt between the load and the store of qp->avail
PutAvailTorn ==
  /\ fg.at = "avail"
  /\ given' = given + 1 /\ fg' = [fg EXCEPT !.at = "check"]
  /\ \/ outq' = [outq EXCEPT !.avail = @ - 1] /\ UNCHANGED <<sent, shifting, thre>>
     \/ /\ ier /\ thre /\ cts /\ outq.avail # OutSize
        /\ outq' = [DeQueue(outq, OutSize) EXCEPT !.avail = outq.avail - 1]
        /\ sent' = First(outq) /\ shifting' = TRUE /\ thre' = FALSE
  /\ UNCHANGED <<xmit, ier, rx, line, env>>

\* --(qp->avail), one instruction
PutAvail ==
  /\ fg.at = "avail"
  /\ outq' = [outq EXCEPT !.avail = @ - 1]
  /\ given' = given + 1
  /\ fg' = [fg EXCEPT !.at = "check"]
  /\ UNCHANGED <<xmit, ier, thre, shifting, sent, rx, line, env>>

\* Faulty: the queue is drained when it is full
NeedsDrainLate(avail) == avail < 0

\* BUFFER_BYTE(): en_queue() < 10
NeedsDrain(avail) == avail < Low

\* What en_queue() returns; SENDBYTE() starts the transmitter.
Buffered ==
  /\ fg.at = "check"
  /\ IF NeedsDrain(outq.avail) THEN fg' = [fg EXCEPT !.at = "flush"] ELSE fg' = Idle
  /\ IF NeedsDrain(outq.avail) \/ fg.sending THEN EnableXmit
     ELSE UNCHANGED <<xmit, ier, thre, shifting>>
  /\ UNCHANGED <<outq, given, sent, rx, line, env>>

\* UNBUFFER_BYTES() as far as its loop
Unbuffer ==
  /\ fg.at = "idle" /\ fg' = [Idle EXCEPT !.at = "flush"]
  /\ EnableXmit
  /\ UNCHANGED <<outq, given, sent, rx, line, env>>

\* The end of its loop: the queue was found empty, the carrier is gone, or Escape
\* is pressed.  SENDBYTE() then starts the transmitter once more.
Unbuffered ==
  /\ fg.at = "flush" /\ fg' = Idle
  /\ LET Ends(escape) == env' = [env EXCEPT !.troubles = @ - escape,
                                            !.gaveUp = @ \/ xmit]
     IN \/ (~xmit \/ ~carrier) /\ Ends(0)
        \/ xmit /\ carrier /\ env.troubles > 0 /\ Ends(1)
  /\ IF fg.sending THEN EnableXmit ELSE UNCHANGED <<xmit, ier, thre, shifting>>
  /\ UNCHANGED <<outq, given, sent, rx, line>>

ClearOutbound ==
  /\ fg.at = "idle" /\ outq' = Emptied(outq, OutSize)
  /\ UNCHANGED <<fg, xmit, ier, thre, shifting, given, sent, rx, line, env>>

\* MODEM_IN() waits for a byte and takes it.
ModemIn ==
  /\ fg.at = "idle" /\ ~queue_empty(inq)
  /\ inq' = DeQueue(inq, InSize) /\ got' = First(inq)
  /\ fg' = [Idle EXCEPT !.at = "rts"]
  /\ UNCHANGED <<tx, rbr, rcvDisabled, rts, arrived, line, env>>

\* Faulty: RTS is raised only when there is nothing left to read
RoomAgainLate(q) == q.avail = InSize

\* queue_avail() > 20
RoomAgain(q) == q.avail > High

\* RCV_disabled is cleared and RTS raised; an interrupt in between finds the same.
RaiseRts ==
  IF rcvDisabled /\ RoomAgain(inq) THEN rcvDisabled' = FALSE /\ rts' = TRUE
                                   ELSE UNCHANGED <<rcvDisabled, rts>>

\* MODEM_IN() after de_queue().
ModemInRts ==
  /\ fg.at = "rts" /\ fg' = Idle /\ RaiseRts
  /\ UNCHANGED <<tx, inq, rbr, arrived, got, line, env>>

\* CLEAR_INBOUND() leaves RTS as it is.
ClearInbound ==
  /\ fg.at = "idle" /\ inq' = Emptied(inq, InSize)
  /\ UNCHANGED <<tx, fg, rbr, rcvDisabled, rts, arrived, got, line, env>>

Program ==
  \/ \E sending \in BOOLEAN : BufferByte(sending)
  \/ PutByte \/ PutHead \/ PutAvail \/ Buffered
  \/ Unbuffer \/ Unbuffered \/ ClearOutbound
  \/ ModemIn \/ ModemInRts \/ ClearInbound

-----------------------------------------------------------------------------
(* dtr8250_isr() *)

\* IIR_transmit.  Reading IIR resets the interrupt, also when CTS is off and
\* nothing is done about it.
IsrTransmit ==
  /\ ier /\ thre /\ thre' = FALSE
  /\ CASE ~cts -> env' = [env EXCEPT !.stalled = TRUE] /\ UNCHANGED <<outq, sent, shifting, ier, xmit>>
       [] cts /\ outq.avail = OutSize ->
            ier' = FALSE /\ xmit' = FALSE /\ UNCHANGED <<outq, sent, shifting, env>>
       [] OTHER -> /\ sent' = First(outq) /\ outq' = DeQueue(outq, OutSize)
                   /\ shifting' = TRUE /\ UNCHANGED <<ier, xmit, env>>
  /\ UNCHANGED <<fg, given, rx, line>>

\* IIR_receive.  With RTS off a byte that still comes is thrown away until there
\* is room again, though there is room for it.
IsrReceive ==
  /\ rbr # 0 /\ rbr' = 0 /\ arrived' = rbr
  /\ LET stores == IF rcvDisabled THEN RoomAgain(inq) ELSE inq.avail # 0
         q      == EnQueue(inq, InSize, rbr)
         brim   == ~rcvDisabled /\ (~stores \/ q.avail < Low)
     IN  /\ inq' = IF stores THEN q ELSE inq
         /\ rcvDisabled' = (brim \/ (rcvDisabled /\ ~stores))
         /\ rts' = ~rcvDisabled'
  /\ UNCHANGED <<tx, fg, got, line, env>>

Trouble == env.troubles > 0 /\ env' = [env EXCEPT !.troubles = @ - 1]

\* IIR_mstatus: CTS changes, or the carrier goes.
IsrMstatus ==
  /\ \/ cts /\ cts' = FALSE /\ UNCHANGED carrier /\ Trouble
     \/ ~cts /\ cts' = TRUE /\ UNCHANGED <<carrier, env>>
     \/ carrier /\ carrier' = FALSE /\ UNCHANGED cts /\ Trouble
  /\ RaiseRts
  /\ UNCHANGED <<tx, fg, inq, rbr, arrived, got>>

-----------------------------------------------------------------------------
(* The 8250 and the modem *)

Transmitted ==
  /\ shifting /\ shifting' = FALSE /\ thre' = TRUE
  /\ UNCHANGED <<outq, xmit, ier, given, sent, fg, rx, line, env>>

Arrives ==
  /\ carrier /\ rbr = 0 /\ given + arrived < MaxBytes
  /\ rts \/ env.late > 0
  /\ env' = IF rts THEN env ELSE [env EXCEPT !.late = @ - 1]
  /\ rbr' = arrived + 1
  /\ UNCHANGED <<tx, fg, inq, rcvDisabled, rts, arrived, got, line>>

-----------------------------------------------------------------------------

Init ==
  /\ outq = Ring(OutSize) /\ inq = Ring(InSize) /\ fg = Idle
  /\ xmit = TRUE /\ ier = FALSE /\ thre = FALSE /\ shifting = FALSE
  /\ rbr = 0 /\ rcvDisabled = FALSE /\ rts = TRUE /\ cts = TRUE /\ carrier = TRUE
  /\ given = 0 /\ sent = 0 /\ arrived = 0 /\ got = 0
  /\ env = [late |-> Late, troubles |-> Troubles,
            stalled |-> FALSE, gaveUp |-> FALSE]

Interrupt == IsrTransmit \/ IsrReceive \/ IsrMstatus
Uart      == Transmitted \/ Arrives

Next == Program \/ Interrupt \/ Uart

Spec == Init /\ [][Next]_vars

\* Interrupts are served, the 8250 transmits what it has, and the program goes on
\* when it can; when it begins something new is its own affair.
FairSpec == /\ Spec
            /\ WF_vars(IsrTransmit) /\ WF_vars(Transmitted)
            /\ WF_vars(PutByte \/ PutHead \/ PutAvail \/ Buffered \/ Unbuffered)

-----------------------------------------------------------------------------
(* Properties *)

Contents(q, size) == [i \in 1 .. size - q.avail |-> q.buf[Wrap(q.tail + i - 1, size)]]

\* What BUFFER_BYTE() and SENDBYTE() are given is transmitted in that order, though
\* the interrupt routine takes bytes while one is being put in; nothing is refused
\* before the queue is full.
OutLine == INSTANCE ByteQueue WITH
             Brim <- OutSize, q <- Contents(outq, OutSize), n <- given, out <- sent
SendsInOrder == OutLine!Spec

\* MODEM_IN() returns what arrived in that order; a byte is thrown away only while
\* no more than the upper threshold is free.
InLine == INSTANCE ByteQueue WITH
            Brim <- InSize - High, q <- Contents(inq, InSize), n <- arrived, out <- got
ReadsInOrder == InLine!Spec

\* queue_empty() compares head and tail, which are equal in a full queue too.
\* Neither queue gets that full while nobody gives up on draining it.
EmptyIsEmpty ==
  /\ queue_empty(inq) => inq.avail = InSize
  /\ fg.at = "idle" /\ ~env.gaveUp /\ queue_empty(outq) => outq.avail = OutSize

\* The program does not wait to read with RTS off and room in the queue, unless it
\* has emptied the queue itself with CLEAR_INBOUND().
StoppedForAReason ==
  fg.at = "idle" /\ rcvDisabled => inq.avail <= High \/ inq.avail = InSize

\* UNBUFFER_BYTES() comes to an end: no interrupt that would report the queue empty
\* is lost, as long as CTS is not off at one.
Drains == fg.at = "flush" ~> (fg.at # "flush" \/ env.stalled)
===============================================================================
