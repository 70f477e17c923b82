------------------------------ MODULE MCMailLines ------------------------------
(***************************************************************************)
(* Small instances of MailLines for TLC: lines of a system in zone 2.      *)
(***************************************************************************)
EXTENDS MailLines, TLC

CONSTANTS hub, leaf, none, t1, t2

At2(n, p) == [zone |-> 2, node |-> n, point |-> p]

Hub   == At2(hub, 0)
Hub0  == [Hub EXCEPT !.zone = 0]
Leaf  == At2(leaf, 0)
Point == At2(hub, 5)

TwoLines == {t1, t2}

MCAddresses == {Hub, Hub0, Leaf, Point}
MCNodes     == {hub, leaf}
Outbound    == {HoldDir(Hub)}
PntDir      == {HoldDir(Point)}
NoDirs      == {}

MCCalls   == {Hub}
MCReached == Hub :> {<<Hub>>, <<Point, Hub>>, <<Hub, Leaf>>}
MCCallers == {<<Leaf>>, <<Hub, Point>>, <<Hub0>>}
MCPacked  == {Hub, Point}

\* Any use of the flags: also by the packer for a point whose number it misreads,
\* and by a call to a point.
AnyAddresses == {Hub, Hub0, Point, At2(hub, 16), At2(hub, 10)}
AnyCalls   == {Point}
AnyReached == Point :> {<<Hub0, Point>>}
AnyCallers == {<<Point>>}
AnyPacked  == {At2(hub, 16)}
=============================================================================
