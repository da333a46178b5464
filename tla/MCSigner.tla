------------------------------ MODULE MCSigner ------------------------------
(* Small instances of Signer for TLC. *)
EXTENDS Signer

CONSTANTS r1, r2, room

TwoRequests == {r1, r2}
OneLane   == {room}
SameLane  == [r \in Requests |-> room]
=============================================================================
