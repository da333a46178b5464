------------------------------ MODULE RoomWrite ------------------------------
(***************************************************************************)
(* What the signed-write path promises for each approved request, without  *)
(* threads, stores, crashes or replies: it is given one nonce of its room, *)
(* it leaves at most once, and its verdict is final and true.              *)
(***************************************************************************)
EXTENDS Integers

CONSTANTS Requests, LaneOf, Nonces, Mode

VARIABLES
    nonce,      \* the nonce of each request, 0 until it has one
    sent,       \* how often each request has left, or was recorded offline
    published,  \* requests the room holds
    verdict     \* "open", "unknown", "accepted" or "failed"

wvars == <<nonce, sent, published, verdict>>

WInit ==
    /\ nonce     = [r \in Requests |-> 0]
    /\ sent      = [r \in Requests |-> 0]
    /\ published = {}
    /\ verdict   = [r \in Requests |-> "open"]

\* A request gets a nonce no other request of its room has.
Assign(r) ==
    /\ nonce[r] = 0
    /\ \E n \in Nonces :
         /\ \A q \in Requests : LaneOf[q] = LaneOf[r] => nonce[q] # n
         /\ nonce' = [nonce EXCEPT ![r] = n]
    /\ UNCHANGED <<sent, published, verdict>>

\* It leaves, once, with its nonce, before any verdict but an unsent failure.
Send(r) ==
    /\ nonce[r] # 0
    /\ sent[r] = 0
    /\ verdict[r] = "open"
    /\ sent' = [sent EXCEPT ![r] = 1]
    /\ UNCHANGED <<nonce, published, verdict>>

\* The room takes it, at any time after that unless it has refused it.
Publish(r) ==
    /\ sent[r] = 1
    /\ verdict[r] # "failed"
    /\ published' = published \cup {r}
    /\ UNCHANGED <<nonce, sent, verdict>>

\* Only the wait for an answer may end without one.
LoseTrack(r) ==
    /\ sent[r] = 1
    /\ verdict[r] = "open"
    /\ verdict' = [verdict EXCEPT ![r] = "unknown"]
    /\ UNCHANGED <<nonce, sent, published>>

Accept(r) ==
    /\ sent[r] = 1
    /\ verdict[r] \in {"open", "unknown"}
    /\ Mode = "live" => r \in published
    /\ verdict' = [verdict EXCEPT ![r] = "accepted"]
    /\ UNCHANGED <<nonce, sent, published>>

\* A failure is claimed only of a request the room does not hold; live, it
\* is never claimed once track has been lost.
Fail(r) ==
    /\ nonce[r] # 0
    /\ verdict[r] \in IF Mode = "live" THEN {"open"} ELSE {"open", "unknown"}
    /\ r \notin published
    /\ verdict' = [verdict EXCEPT ![r] = "failed"]
    /\ UNCHANGED <<nonce, sent, published>>

WNext == \E r \in Requests :
    Assign(r) \/ Send(r) \/ Publish(r) \/ LoseTrack(r) \/ Accept(r) \/ Fail(r)

WSpec == WInit /\ [][WNext]_wvars
=============================================================================
