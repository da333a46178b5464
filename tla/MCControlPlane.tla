--------------------------- MODULE MCControlPlane ---------------------------
(* Small instances of ControlPlane for TLC. *)
EXTENDS ControlPlane

CONSTANTS d1, d2, room

OneDraft  == {d1}
TwoDrafts == {d1, d2}
OneLane   == {room}
SameLane  == [d \in Requests |-> room]
NoDraft   == {}
D2        == {d2}
\* A client may name any room; this one passes the draft protocol and no more.
Nowhere   == {}
=============================================================================
