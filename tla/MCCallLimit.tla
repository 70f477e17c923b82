---------------------------- MODULE MCCallLimit ----------------------------
(***************************************************************************)
(* MCCalls with the calls that reached a node and failed counted apart     *)
(* from the record bad_call() keeps of them.                               *)
(***************************************************************************)
EXTENDS MCCalls

VARIABLE answered  \* calls with carrier that failed since the last session that did not

OneMore(n) == IF answered[n] > MaxFailed THEN answered[n] ELSE answered[n] + 1

FailsWithCarrier(n) ==
  \/ NobodyHome(n) /\ steady' = TRUE
  \/ steady' = FALSE /\ \E left \in SUBSET mail[n] : Broken(n, left) \/ LostCarrier(n, left)

Others(n) ==
  \/ NoAnswer(n) /\ steady' = TRUE
  \/ /\ steady' = FALSE
     /\ \/ NotListed(n) \/ Escape(n) \/ Arrives(n)
        \/ \E left \in SUBSET mail[n] : CutOff(n, left)

CountedNext ==
  \/ \E n \in Nodes :
       \/ FailsWithCarrier(n) /\ answered' = [answered EXCEPT ![n] = OneMore(n)]
       \/ Completed(n) /\ steady' = TRUE /\ answered' = [answered EXCEPT ![n] = 0]
       \/ Others(n) /\ UNCHANGED answered
  \/ NobodyToDial /\ steady' = TRUE /\ UNCHANGED answered
  \/ steady' = FALSE /\ (Rescan \/ Restart \/ PowerFails) /\ UNCHANGED answered
  \/ /\ steady' = FALSE /\ StartEvent
     /\ answered' = [n \in Nodes |-> IF event'.res = n THEN 0 ELSE answered[n]]

CountedSpec == Init /\ answered = [n \in Nodes |-> 0] /\ [][CountedNext]_<<vars, answered>>

\* "Number of calls to make with carrier" (sched.h:86): no more calls than that reach
\* a node and fail.
CallsWithCarrierBounded == \A n \in Nodes : answered[n] <= MaxFailed
=============================================================================
