----------------------------- MODULE MailTransfer -----------------------------
(***************************************************************************)
(* What a mail session promises for each item of outbound mail: it may     *)
(* arrive, in full, and it is struck off the sender's outbound once, after *)
(* it has arrived.  Nothing is said of how, or of how many calls it takes. *)
(***************************************************************************)
CONSTANTS Mail,    \* every item of mail, of either side
          Before   \* the items the addressee has to begin with

VARIABLES there,   \* items the addressee has in full
          struck   \* items the sender will not offer again

Init == there = Before /\ struck = {}

Deliver(m) == /\ m \notin there
              /\ there' = there \cup {m}
              /\ UNCHANGED struck

Strike(m) == /\ m \in there /\ m \notin struck
             /\ struck' = struck \cup {m}
             /\ UNCHANGED there

Next == \E m \in Mail : Deliver(m) \/ Strike(m)

Spec == Init /\ [][Next]_<<there, struck>>
===============================================================================
