------------------------------- MODULE MCToss -------------------------------
(***************************************************************************)
(* A small instance of Toss for TLC.                                       *)
(***************************************************************************)
EXTENDS Toss, TLC

CONSTANTS t1, t2, hudson, squish, news, chat, tech, gone, arc

M(i, a) == [id |-> i, area |-> a]

MCLines   == {t1, t2}
\* Two boards of one base, and a base of its own
MCBase    == (news :> hudson) @@ (chat :> hudson) @@ (tech :> squish)
MCSquish  == {squish}
MCContent == << <<M(2, tech), M(1, news)>>,
                <<M(5, chat), M(5, news), M(1, news), M(2, tech), M(3, gone), M(2, tech)>> >>
MCLoose   == {1}
MCBundle  == arc :> {2}
=============================================================================
