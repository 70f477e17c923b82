------------------------------ MODULE MCZmodem ------------------------------
(***************************************************************************)
(* A small instance of Zmodem for TLC.                                     *)
(***************************************************************************)
EXTENDS Zmodem, TLC

CONSTANTS pkt, letter, one, none

MCFiles    == {pkt, letter, one}
MCSize     == (pkt :> 1) @@ (letter :> 2) @@ (one :> 1)
MCOutbound == <<pkt, letter>>
MCPackets  == {pkt}
MCKillSent == {letter}

\* A call that may be cut off, then one on a noisy line
F(n, q) == [noise |-> n, quits |-> q]
MCFaults == <<F(0, 1), F(1, 0)>>
=============================================================================
