------------------------------- MODULE ByteQueue -------------------------------
(***************************************************************************)
(* What a serial buffer promises: the bytes put into it, numbered in order,*)
(* come out in that order, and none is refused before the queue is that    *)
(* full.                                                                   *)
(***************************************************************************)
EXTENDS Integers, Sequences

CONSTANT Brim      \* length from which a byte may be refused

VARIABLES q,       \* bytes in the queue
          n,       \* the number of the last byte put or refused
          out      \* the last byte taken

Init == q = <<>> /\ n = 0 /\ out = 0

Put    == n' = n + 1 /\ q' = Append(q, n + 1) /\ UNCHANGED out
Refuse == Len(q) >= Brim /\ n' = n + 1 /\ UNCHANGED <<q, out>>
Get    == q # <<>> /\ out' = Head(q) /\ q' = Tail(q) /\ UNCHANGED n
Clear  == q' = <<>> /\ UNCHANGED <<n, out>>

Next == Put \/ Refuse \/ Get \/ Clear

Spec == Init /\ [][Next]_<<q, n, out>>
===============================================================================
