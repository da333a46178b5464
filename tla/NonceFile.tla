------------------------------ MODULE NonceFile ------------------------------
(***************************************************************************)
(* NonceStore: nonces.json and what reserve does to it, on StoreFile's     *)
(* protocol.  The document holds the last nonce of each lane and the nonce *)
(* reserved for each request id; a file of an earlier release holds the    *)
(* counters alone and is taken over with the next reservation.             *)
(***************************************************************************)
EXTENDS Naturals, FiniteSets

CONSTANTS
    Lanes, Ids, MaxNonce,
    NoId,        \* reserve is called without a request id, as sign_room does
    NoLane,
    Reserves,    \* the calls of reserve: their lane and request id
    Threads, Processes, ProcOf, Paired,
    NoThread, NoOperation, Torn

ASSUME NonceFileAssumption ==
    /\ MaxNonce \in Nat
    /\ NoId \notin Ids /\ NoLane \notin Lanes
    /\ Reserves \subseteq [lane : Lanes, id : Ids \cup {NoId}]
    /\ ProcOf \in [Threads -> Processes] /\ Paired \in BOOLEAN
    /\ NoThread \notin Threads

VARIABLES file, lock, mutex, step, op, copy, temp, answer

Forms        == {"absent", "legacy", "unified", "corrupt"}
NoRes        == [lane |-> NoLane, nonce |-> 0]
Reservations == [lane : Lanes, nonce : 1..MaxNonce] \cup {NoRes}
NonceDocs    == [form : Forms, counters : [Lanes -> 0..MaxNonce], requests : [Ids -> Reservations]]

\* Part of a document does not parse as one.
ASSUME TornIsNoDocument == Torn \notin NonceDocs

\* Found at the first start: no file, the counters of an earlier release, or a
\* file that the validation in _read_reservation_state refuses.
FirstDocs ==
    {d \in NonceDocs :
        /\ d.requests = [i \in Ids |-> NoRes]
        /\ d.form # "unified"
        /\ d.form # "legacy" => d.counters = [l \in Lanes |-> 0]}

Known(d, o) == o.id # NoId /\ d.requests[o.id] # NoRes
NextIn(d, o) == d.counters[o.lane] + 1

\* A corrupt file, a request id bound to another lane, or an exhausted lane.
RefusesReserve(d, o) ==
    \/ d.form = "corrupt"
    \/ Known(d, o) /\ d.requests[o.id].lane # o.lane
    \/ ~Known(d, o) /\ NextIn(d, o) > MaxNonce

\* Mutants: the other lanes' counters of an earlier release are not taken
\* over; the advanced counter is not written.
ReserveInAfresh(d, o) ==
    IF Known(d, o) THEN d
    ELSE [form |-> "unified",
          counters |-> [l \in Lanes |-> IF l = o.lane THEN NextIn(d, o)
                                        ELSE IF d.form = "legacy" THEN 0 ELSE d.counters[l]],
          requests |-> [d.requests EXCEPT ![o.id] = [lane |-> o.lane, nonce |-> NextIn(d, o)]]]
ReserveInForgetful(d, o) ==
    IF Known(d, o) THEN d
    ELSE [d EXCEPT !.form = "unified",
                   !.requests[o.id] = [lane |-> o.lane, nonce |-> NextIn(d, o)]]

\* A known request id keeps its reservation; any other call advances the lane
\* and, with an id, records the reservation in the same document.
ReserveIn(d, o) ==
    IF Known(d, o) THEN d
    ELSE [form |-> "unified",
          counters |-> [d.counters EXCEPT ![o.lane] = @ + 1],
          requests |-> [d.requests EXCEPT ![o.id] = [lane |-> o.lane, nonce |-> NextIn(d, o)]]]

ReservedNonce(d, o) == IF Known(d, o) THEN d.requests[o.id].nonce ELSE NextIn(d, o)

INSTANCE StoreFile WITH
    Documents <- NonceDocs, Initial <- FirstDocs, Operations <- Reserves,
    Refuses <- RefusesReserve, Apply <- ReserveIn, Answer <- ReservedNonce,
    Answers <- 1..MaxNonce, NoAnswer <- 0

-----------------------------------------------------------------------------
\* No nonce of a lane is reserved for two request ids, and none is ahead of
\* the counter that gives out the next one.
ReservationsDistinct ==
    /\ \A i, j \in Ids :
         i # j /\ file.requests[i] # NoRes => file.requests[i] # file.requests[j]
    /\ \A i \in Ids : file.requests[i] # NoRes =>
         file.requests[i].nonce <= file.counters[file.requests[i].lane]

\* Across crashes, failures and the take-over from an earlier release, no
\* counter falls and no reservation moves; the nonce a call is given is its
\* reservation or, new, above everything its lane gave out before.
NoncesOnlyRise ==
    [][ /\ \A l \in Lanes : file'.counters[l] >= file.counters[l]
        /\ \A i \in Ids : file.requests[i] # NoRes => file'.requests[i] = file.requests[i]
        /\ \A t \in Threads : LET o == op[t] IN
             answer'[t] # answer[t] /\ answer'[t] # 0 =>
                 IF Known(file, o) THEN answer'[t] = file.requests[o.id].nonce
                 ELSE answer'[t] > file.counters[o.lane] ]_svars
=============================================================================
