------------------------------- MODULE MCJanus -------------------------------
(***************************************************************************)
(* Small instances of Janus for TLC: two mailers, a handful of files.      *)
(***************************************************************************)
EXTENDS Janus, TLC

CONSTANTS caller, answerer, pkt, big, one, letter, none, pub, pub2, r1, r2

MCFiles     == {pkt, big, one, letter, pub, pub2}
MCPackets   == {pkt}
MCKillSent  == {one}
MCSize      == (big :> 2) @@ (letter :> 2) @@ [f \in MCFiles |-> 1]
Nothing     == [s \in {caller, answerer} |-> <<>>]
NothingHeld == [s \in {caller, answerer} |-> {}]
RoomForAll  == [s \in {caller, answerer} |-> 9]

\* A packet and an attached file one way, a longer one the other
MailAndBack == (caller :> <<pkt, one>>) @@ (answerer :> <<letter>>)

\* The file that is cut off
BigOnly  == (caller :> <<big>>) @@ (answerer :> <<>>)

\* Three attached files, the second of which the peer already has
Attached == (caller :> <<one, big, letter>>) @@ (answerer :> <<>>)
BigHeld  == (caller :> {}) @@ (answerer :> {big})

\* Two request lines, the first for two files, the second for none
TwoRequests == (caller :> <<r1, r2>>) @@ (answerer :> <<>>)
OneRequest  == (caller :> <<r1>>) @@ (answerer :> <<>>)
MCAnswer    == (r1 :> <<pub, pub2>>) @@ (r2 :> <<>>)
PubAnswer   == (r1 :> <<pub>>)
NoAnswer    == <<>>
PktBack     == (caller :> <<>>) @@ (answerer :> <<pkt>>)
=============================================================================
