------------------------------- MODULE Indexer -------------------------------
(***************************************************************************)
(* The observation indexer: one worker that in cycles lists the public     *)
(* rooms, reads each from its cursor on and stores what it sees with a     *)
(* coverage row that says where the history has gaps.  Rooms are bounded   *)
(* rings that can disappear and start again; upstream and its messages     *)
(* are hostile.  A SQLite transaction is one step: a crash inside it       *)
(* leaves nothing.                                                         *)
(***************************************************************************)
EXTENDS Integers, FiniteSets, FiniteSetsExt

CONSTANTS
    Rooms,
    Kinds,    \* of messages posted: "good", "dropped" (normalize_payload skips
              \* it), "poison" (SQLite cannot encode its text)
    MaxSeq,   \* bound on the sequence numbers of a room
    MaxGen,   \* bound on how often a room starts again
    Ring,     \* messages a room retains
    Limit,    \* messages of one response; 200 in the code
    Evasive   \* may upstream leave out first_seq and gap, and skip old messages

ASSUME IndexerAssumption ==
    /\ Kinds \subseteq {"good", "dropped", "poison"}
    /\ {MaxSeq, MaxGen, Ring, Limit} \subseteq Nat
    /\ Evasive \in BOOLEAN

VARIABLES
    \* upstream (external)
    ring,     \* the messages each room retains
    top,      \* the room's last sequence number
    gen,      \* which start of the room this is
    \* SQLite
    messages, \* rows of the messages table
    cover,    \* row of the coverage table for each room
    state,    \* worker_state: "none" so far, or how the last cycle was recorded
    \* the worker
    pc, todo, room, previous, payload,
    \* history
    detected, \* the gap reasons found for each room
    listed,   \* the rooms of this cycle
    seen,     \* those whose coverage row the cycle has written
    missed    \* those it had not, when the last cycle was recorded as a success

upstream == <<ring, top, gen>>
database == <<messages, cover, detected>>
recorded == <<state, missed>>
worker   == <<pc, todo, room, previous, payload, listed, seen>>
ivars    == <<upstream, database, recorded, worker>>

NoSeq  == -1
NoRoom == "none"
Reasons == {"none", "upstream_reported", "cursor_discontinuity",
            "history_before_initial_window_unknown", "internal_sequence_discontinuity",
            "observation_failure_unknown_coverage"}
Posted   == [seq : 1..MaxSeq, gen : 0..MaxGen, kind : Kinds]
Rows     == [room : Rooms, seq : 1..MaxSeq, gen : 0..MaxGen]
Payloads == [messages : SUBSET Posted, first : {NoSeq} \cup 1..MaxSeq, gap : BOOLEAN]
Coverage == [first : {NoSeq} \cup 1..MaxSeq, last : 0..MaxSeq,
             gap : BOOLEAN, reason : Reasons, error : BOOLEAN]  \* error: last_error is set

NoPayload  == [messages |-> {}, first |-> NoSeq, gap |-> FALSE]
NoCoverage == [first |-> NoSeq, last |-> 0, gap |-> FALSE, reason |-> "none", error |-> FALSE]

Seqs(ms) == {m.seq : m \in ms}

IInit ==
    /\ ring = [r \in Rooms |-> {}]
    /\ top  = [r \in Rooms |-> 0]
    /\ gen  = [r \in Rooms |-> 0]
    /\ messages = {}
    /\ cover    = [r \in Rooms |-> NoCoverage]
    /\ detected = [r \in Rooms |-> {}]
    /\ pc = "idle" /\ todo = {} /\ room = NoRoom /\ previous = 0 /\ payload = NoPayload
    /\ state = "none" /\ listed = {} /\ seen = {} /\ missed = {}

-----------------------------------------------------------------------------
\* A message arrives; the ring forgets its oldest one.
Post(r, k) ==
    /\ top[r] < MaxSeq
    /\ top' = [top EXCEPT ![r] = @ + 1]
    /\ ring' = [ring EXCEPT ![r] =
                  {m \in @ : m.seq > top[r] + 1 - Ring}
                    \cup {[seq |-> top[r] + 1, gen |-> gen[r], kind |-> k]}]
    /\ UNCHANGED <<gen, database, recorded, worker>>

\* An inactive room disappears, to start again from its first sequence number.
Restart(r) ==
    /\ top[r] > 0
    /\ gen[r] < MaxGen
    /\ ring' = [ring EXCEPT ![r] = {}]
    /\ top'  = [top EXCEPT ![r] = 0]
    /\ gen'  = [gen EXCEPT ![r] = @ + 1]
    /\ UNCHANGED <<database, recorded, worker>>

\* The responses for the messages of r after sequence number since.
Responses(r, since) ==
    LET after  == {m \in ring[r] : m.seq > since}
        oldest == {m \in after : Cardinality({n \in after : n.seq < m.seq}) < Limit}
        newest == {m \in after : Cardinality({n \in after : n.seq > m.seq}) < Limit}
        first  == IF ring[r] = {} THEN NoSeq ELSE Min(Seqs(ring[r]))
        honest == [messages |-> oldest, first |-> first, gap |-> first > since + 1]
    IN  {honest} \cup
        IF Evasive
          THEN [messages : {oldest, newest}, first : {first, NoSeq}, gap : {first > since + 1, FALSE}]
          ELSE {}

-----------------------------------------------------------------------------
\* observe_once lists the rooms.
ListRooms(rs) ==
    /\ pc = "idle"
    /\ pc' = "next"
    /\ todo' = rs /\ listed' = rs /\ seen' = {}
    /\ UNCHANGED <<upstream, database, recorded, room, previous, payload>>

\* The next room's cursor is read.
SelectRoom(r) ==
    /\ pc = "next"
    /\ r \in todo
    /\ todo' = todo \ {r}
    /\ room' = r
    /\ previous' = cover[r].last
    /\ pc' = "fetch"
    /\ UNCHANGED <<upstream, database, recorded, payload, listed, seen>>

FetchRoom ==
    /\ pc = "fetch"
    /\ \E p \in Responses(room, previous) : payload' = p
    /\ pc' = "ingest"
    /\ UNCHANGED <<upstream, database, recorded, todo, room, previous, listed, seen>>

EndRoom ==
    /\ pc' = "next"
    /\ room' = NoRoom /\ previous' = 0 /\ payload' = NoPayload
    /\ UNCHANGED <<todo, listed>>

-----------------------------------------------------------------------------
\* What normalize_payload keeps.
Normalized == {m \in payload.messages : m.kind # "dropped"}

\* The first reason that applies, in the order the code asks.
GapReason ==
    LET seqs == Seqs(Normalized) IN
    IF payload.gap THEN "upstream_reported"
    ELSE IF previous > 0 /\ payload.first > previous + 1 THEN "cursor_discontinuity"
    ELSE IF previous = 0 /\ payload.first > 0 THEN "history_before_initial_window_unknown"
    ELSE IF \E s \in seqs : s # Max(seqs) /\ s + 1 \notin seqs
         THEN "internal_sequence_discontinuity"
    ELSE "none"

\* Mutant: INSERT OR REPLACE.
InsertedOver(ms) ==
    {row \in messages : row.room # room \/ row.seq \notin Seqs(ms)}
      \cup {[room |-> room, seq |-> m.seq, gen |-> m.gen] : m \in ms}

\* INSERT OR IGNORE: a row of the same room and sequence number stays.
Inserted(ms) ==
    messages \cup {[room |-> room, seq |-> m.seq, gen |-> m.gen] : m \in
                     {m \in ms : \A row \in messages : row.room # room \/ row.seq # m.seq}}

\* The gap columns of the upsert: the flag and the first reason stay.
Flagged(c, reason) ==
    [c EXCEPT !.gap    = @ \/ reason # "none",
              !.reason = IF @ = "none" THEN reason ELSE @]

\* Mutant: only a batch that begins at the cursor moves it.
AdvancedInOrder(c) ==
    LET seqs == Seqs(Normalized) IN
    [c EXCEPT !.first = IF @ = NoSeq /\ seqs # {} THEN Min(seqs) ELSE @,
              !.last  = IF @ + 1 \in seqs THEN Max(seqs) ELSE @,
              !.error = FALSE]

\* The cursor after the batch, which clears last_error.
Advanced(c) ==
    LET seqs == Seqs(Normalized) IN
    [c EXCEPT !.first = IF @ = NoSeq /\ seqs # {} THEN Min(seqs) ELSE @,
              !.last  = IF seqs = {} THEN @ ELSE Max({@, Max(seqs)}),
              !.error = FALSE]

Detect(reason) ==
    detected' = [detected EXCEPT ![room] = @ \cup ({reason} \ {"none"})]

\* ingest commits the rows and the coverage row in one transaction.
Ingest ==
    /\ pc = "ingest"
    /\ \A m \in Normalized : m.kind # "poison"
    /\ messages' = Inserted(Normalized)
    /\ cover' = [cover EXCEPT ![room] = Advanced(Flagged(@, GapReason))]
    /\ Detect(GapReason)
    /\ seen' = seen \cup {room}
    /\ EndRoom
    /\ UNCHANGED <<upstream, recorded>>

FailureReason == "observation_failure_unknown_coverage"

\* The handler's upsert: its flag and its reason, and last_error.
Failed(c) == [Flagged(c, FailureReason) EXCEPT !.error = TRUE]

\* Mutant: a failed observation is not flagged.
IngestFailsQuietly ==
    /\ pc = "ingest"
    /\ \E p \in Normalized : p.kind = "poison" /\
          /\ \A m \in Normalized : m.kind = "poison" => p.seq <= m.seq
          /\ messages' = Inserted({m \in Normalized : m.seq < p.seq})
    /\ UNCHANGED <<cover, seen>>
    /\ Detect(FailureReason)
    /\ EndRoom
    /\ UNCHANGED <<upstream, recorded>>

\* ingest raises at the first text that cannot be encoded, a ValueError; the
\* handler commits the rows inserted before it along with its own flag.
IngestFails ==
    /\ pc = "ingest"
    /\ \E p \in Normalized : p.kind = "poison" /\
          /\ \A m \in Normalized : m.kind = "poison" => p.seq <= m.seq
          /\ messages' = Inserted({m \in Normalized : m.seq < p.seq})
    /\ cover' = [cover EXCEPT ![room] = Failed(@)]
    /\ Detect(FailureReason)
    /\ seen' = seen \cup {room}
    /\ EndRoom
    /\ UNCHANGED <<upstream, recorded>>

\* The room cannot be read, or its response is not what it should be.
FetchFails ==
    /\ pc = "fetch"
    /\ cover' = [cover EXCEPT ![room] = Failed(@)]
    /\ Detect(FailureReason)
    /\ seen' = seen \cup {room}
    /\ EndRoom
    /\ UNCHANGED <<upstream, recorded, messages>>

EndCycle ==
    /\ pc = "next"
    /\ todo = {}
    /\ pc' = "succeeded"
    /\ UNCHANGED <<upstream, database, recorded, todo, room, previous, payload, listed, seen>>

Abandon(next) ==
    /\ pc' = next
    /\ todo' = {} /\ room' = NoRoom /\ previous' = 0 /\ payload' = NoPayload
    /\ listed' = {} /\ seen' = {}

\* main records a success in worker_state, in a transaction of its own.
RecordSuccess ==
    /\ pc = "succeeded"
    /\ state' = "succeeded"
    /\ missed' = listed \ seen
    /\ Abandon("idle")
    /\ UNCHANGED <<upstream, database>>

\* Mutant: a database error skips the rooms that are left.
SkipRest ==
    /\ pc \in {"next", "fetch", "ingest"}
    /\ pc' = "succeeded"
    /\ todo' = {}
    /\ UNCHANGED <<upstream, database, recorded, room, previous, payload, listed, seen>>

\* The rooms cannot be listed, or a database error ends observe_once or the
\* transaction that records its success.
CycleFails ==
    /\ pc \in {"idle", "next", "fetch", "ingest", "succeeded"}
    /\ Abandon("failed")
    /\ UNCHANGED <<upstream, database, recorded>>

RecordFailure ==
    /\ pc = "failed"
    /\ state' = "failed"
    /\ Abandon("idle")
    /\ UNCHANGED <<upstream, database, missed>>

\* The process dies, or an error that main does not catch ends it: those of
\* http.client, and a database error while a failure is recorded.
Break ==
    /\ pc # "idle"
    /\ Abandon("idle")
    /\ UNCHANGED <<upstream, database, recorded>>

-----------------------------------------------------------------------------
Work ==
    \/ \E rs \in SUBSET Rooms : ListRooms(rs)
    \/ \E r \in Rooms : SelectRoom(r)
    \/ FetchRoom \/ Ingest \/ IngestFails \/ EndCycle \/ RecordSuccess

World == \E r \in Rooms : Restart(r) \/ \E k \in Kinds : Post(r, k)

INext == World \/ Work \/ FetchFails \/ CycleFails \/ RecordFailure \/ Break

ISpec == IInit /\ [][INext]_ivars

\* Without failures; every cycle sees all rooms, and the worker keeps going.
CalmINext == World \/ (Work /\ (pc = "idle" => todo' = Rooms))
CalmISpec == IInit /\ [][CalmINext]_ivars /\ WF_ivars(Work /\ (pc = "idle" => todo' = Rooms))

-----------------------------------------------------------------------------
ITypeOK ==
    /\ ring \in [Rooms -> SUBSET Posted]
    /\ top  \in [Rooms -> 0..MaxSeq]
    /\ gen  \in [Rooms -> 0..MaxGen]
    /\ messages \subseteq Rows
    /\ cover    \in [Rooms -> Coverage]
    /\ detected \in [Rooms -> SUBSET Reasons]
    /\ state \in {"none", "succeeded", "failed"}
    /\ missed \subseteq Rooms
    /\ pc \in {"idle", "next", "fetch", "ingest", "succeeded", "failed"}
    /\ {todo, listed, seen} \subseteq SUBSET Rooms
    /\ room \in Rooms \cup {NoRoom}
    /\ previous \in 0..MaxSeq
    /\ payload \in Payloads

\* What has been observed stays as it was first observed, also when the room
\* starts again; no cursor falls and no gap flag or reason is taken back.
ObservedStays ==
    [][ /\ messages \subseteq messages'
        /\ \A r \in Rooms :
             /\ cover'[r].last >= cover[r].last
             /\ cover[r].gap => cover'[r].gap
             /\ cover[r].reason # "none" => cover'[r].reason = cover[r].reason ]_ivars

\* One row per room and sequence number; and rows and cursor are committed
\* together: a row beyond the cursor was left by a failed batch, which is flagged.
RowsCovered ==
    /\ \A x, y \in messages : x.room = y.room /\ x.seq = y.seq => x = y
    /\ \A row \in messages : LET c == cover[row.room] IN
         row.seq <= c.last \/ c.gap

\* What /health reads as a success is one: the last cycle recorded as such
\* stored every room it listed, or flagged the room's history as incomplete.
SuccessCovers == missed = {}

\* "the indexer records reasons it knows": every reason it detected for a room
\* can be read from the room's coverage row, a failure also from last_error.
ReasonsRecorded ==
    \A r \in Rooms : LET c == cover[r] IN
        detected[r] \subseteq {c.reason} \cup {x \in {FailureReason} : c.error}

\* A full response of messages that normalize_payload drops does not move the
\* cursor: the next one is the same.
Stalled(r) ==
    LET after == {m \in ring[r] : m.seq > cover[r].last} IN
    Cardinality({m \in after : m.kind = "dropped" /\
                               \A n \in after : n.seq <= m.seq => n.kind = "dropped"}) >= Limit

\* When nothing fails, no text is poison and no room starts again, the index
\* catches up with every good message a room retains, unless it is stalled.
CatchesUp ==
    \A r \in Rooms :
        []<>( \/ Stalled(r)
              \/ \A m \in ring[r] : m.kind = "good" =>
                   \E row \in messages : row.room = r /\ row.seq = m.seq )
=============================================================================
