------------------------------ MODULE MCOutbound ------------------------------
(***************************************************************************)
(* A small instance of Outbound for TLC: a hub and a leaf behind it, one   *)
(* line that packs and one with sessions, two events with different routes.*)
(***************************************************************************)
EXTENDS Outbound, TLC

CONSTANTS hub, leaf, l1, l2, m1, m2, m3

MCLines   == {l1, l2}
OnePacker == {l1}
OneCaller == {l2}
MCNodes   == {hub, leaf}
MCMail    == {m1, m2, m3}
MCWaiting == {m1, m2}
MCDest    == (m1 :> hub) @@ (m2 :> leaf) @@ (m3 :> leaf)

\* Send-To Hold leaf* and Send-To Normal hub, or Route-To Normal hub leaf
Cmd(c, f, h, ns) == [cmd |-> c, flag |-> f, hub |-> h, nodes |-> ns]
MCRoutes == {<<Cmd("sendall", "H", hub, {leaf}), Cmd("send", "F", hub, {hub})>>,
             <<Cmd("route", "F", hub, {leaf})>>}

\* The hub presents the address of the leaf as well.
MCSessions == {<<hub, leaf>>}
MCFlags    == <<"F", "H">>
=============================================================================
