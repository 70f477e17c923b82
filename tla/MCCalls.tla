------------------------------ MODULE MCCalls ------------------------------
(***************************************************************************)
(* A small instance of Calls for TLC.                                      *)
(***************************************************************************)
EXTENDS Calls, TLC

\* Calls to anyone; receive only; crash mail only, reserved for node 2 and forced
Anyone   == [noout |-> FALSE, cm |-> FALSE, nocm |-> FALSE, res |-> None, force |-> FALSE]
MCEvents == {Anyone, [Anyone EXCEPT !.noout = TRUE],
             [Anyone EXCEPT !.cm = TRUE, !.res = 2, !.force = TRUE]}
MCPosts  == <<{"imm", "normal"}, {"crash", "hold"}>>
=============================================================================
