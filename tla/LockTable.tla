------------------------------ MODULE LockTable ------------------------------
(***************************************************************************)
(* What the .BSY files of several lines are for: every flag is held by at  *)
(* most one line.  A flag nobody holds may be taken and its holder may     *)
(* release it.  What a line still holds when it goes away is lost: nobody  *)
(* holds it and nobody can take it.                                        *)
(***************************************************************************)
CONSTANTS Tasks, Files

VARIABLES
  holds,  \* holds[t]: the flags task t holds
  lost    \* flags of tasks that are gone

vars == <<holds, lost>>

Init == holds = [t \in Tasks |-> {}] /\ lost = {}

Take(t, f) ==
  /\ f \notin lost
  /\ \A u \in Tasks : f \notin holds[u]
  /\ holds' = [holds EXCEPT ![t] = @ \cup {f}]
  /\ UNCHANGED lost

Release(t, F) ==
  /\ holds' = [holds EXCEPT ![t] = @ \ F]
  /\ UNCHANGED lost

Leave(t) ==
  /\ lost' = lost \cup holds[t]
  /\ holds' = [holds EXCEPT ![t] = {}]

Next ==
  \E t \in Tasks :
    \/ \E f \in Files : Take(t, f)
    \/ \E F \in SUBSET holds[t] : Release(t, F)
    \/ Leave(t)

Spec == Init /\ [][Next]_vars
=============================================================================
