------------------------------ MODULE HubFeed --------------------------------
(***************************************************************************)
(* The dashboard's feed of one room.  A poll is a request that may be      *)
(* overtaken by later polls and by the visitor, who changes rooms; only    *)
(* the answer to the latest request is shown.  Choosing a room starts its  *)
(* timers at once and its first poll a moment later.  With each answer the *)
(* feed tells how many messages are new since it last saw that room.       *)
(***************************************************************************)
EXTENDS Integers

CONSTANTS
    Rooms,
    Home,     \* the room shown first
    Polls,    \* requests under way at once, at most; no bound in the code
    NoPoll,
    NoSeq,    \* undefined
    MaxPosts  \* bound on the messages posted to each room

ASSUME HubAssumption ==
    /\ Home \in Rooms
    /\ NoPoll \notin Polls
    /\ NoSeq \notin Nat
    /\ MaxPosts \in [Rooms -> Nat]

VARIABLES
    \* upstream (external)
    top,      \* the last sequence number of each room
    total,    \* messages ever posted to it, before and after it started again
    \* requests
    flight,   \* where each request is, and what it asked and was told
    \* the page
    latest,   \* roomRequestId.current
    room,     \* the chosen room
    initial,  \* is the first poll of the chosen room still due
    loading,
    shown,    \* the room on the page, and whether it is live or the sample
    seen,     \* lastObservedSeq.current
    fresh,    \* newSinceRefresh
    \* history
    told,     \* of each room, total when the number in seen was sent
    grown     \* messages really posted between the two answers fresh compares

upstreamVars == <<top, total>>
screenVars   == <<shown, seen, fresh, told, grown>>
hvars        == <<upstreamVars, flight, latest, room, initial, loading, screenVars>>

Idle == [at |-> "idle"]

Asked(r) == [at |-> "asked", room |-> r]

Failed(r) == [at |-> "failed", room |-> r]

Answered(r, last) == [at |-> "answered", room |-> r, last |-> last, total |-> total[r]]

Larger(m, n) == IF m > n THEN m ELSE n

HInit ==
    /\ top = [r \in Rooms |-> 0]
    /\ total = [r \in Rooms |-> 0]
    /\ flight = [p \in Polls |-> Idle]
    /\ latest = NoPoll
    /\ room = Home
    /\ initial = TRUE
    /\ loading = TRUE
    /\ shown = [room |-> Home, live |-> FALSE]
    /\ seen = [r \in Rooms |-> NoSeq]
    /\ fresh = 0
    /\ told = [r \in Rooms |-> 0]
    /\ grown = 0

-----------------------------------------------------------------------------
\* Upstream stores a message.
Post(r) ==
    /\ total[r] < MaxPosts[r]
    /\ total' = [total EXCEPT ![r] = @ + 1]
    /\ top' = [top EXCEPT ![r] = @ + 1]
    /\ UNCHANGED <<flight, latest, room, initial, loading, screenVars>>

\* An idle room disappears; it will start again from its first number.
Restart(r) ==
    /\ top[r] > 0
    /\ top' = [top EXCEPT ![r] = 0]
    /\ UNCHANGED <<total, flight, latest, room, initial, loading, screenVars>>

\* The route fetches the room and passes its window on.  It leaves the numbers
\* out when upstream gives none, or none that make sense.
Answer(p) ==
    /\ flight[p].at = "asked"
    /\ LET r == flight[p].room
       IN \E last \in {top[r], NoSeq} :
            flight' = [flight EXCEPT ![p] = Answered(r, last)]
    /\ UNCHANGED <<upstreamVars, latest, room, initial, loading, screenVars>>

\* Upstream refuses, answers nonsense, or takes longer than UPSTREAM_TIMEOUT_MS.
UpstreamFails(p) ==
    /\ flight[p].at = "asked"
    /\ flight' = [flight EXCEPT ![p] = Failed(flight[p].room)]
    /\ UNCHANGED <<upstreamVars, latest, room, initial, loading, screenVars>>

-----------------------------------------------------------------------------
\* loadRoom up to its fetch, for the chosen room.  A number counted upwards in
\* the code; here the name of a request that is free.
Load(p) ==
    /\ flight[p] = Idle
    /\ flight' = [flight EXCEPT ![p] = Asked(room)]
    /\ latest' = p
    /\ loading' = TRUE

\* The timer of 0 ms of the effect on [room, loadRoom].
InitialFires(p) ==
    /\ initial
    /\ Load(p)
    /\ initial' = FALSE
    /\ UNCHANGED <<upstreamVars, room, screenVars>>

\* Its timer of 12 s, which is never the first to fire; or the button Refresh,
\* which may be.
Poll(p) ==
    /\ ~initial
    /\ Load(p)
    /\ UNCHANGED <<upstreamVars, room, initial, screenVars>>

Refresh(p) ==
    /\ initial
    /\ Load(p)
    /\ UNCHANGED <<upstreamVars, room, initial, screenVars>>

\* A click on a room or a search result, or a room typed in: the effect clears
\* the old timers and sets new ones.  The room already chosen changes nothing.
SelectRoom(r) ==
    /\ r # room
    /\ room' = r
    /\ initial' = TRUE
    /\ UNCHANGED <<upstreamVars, flight, latest, loading, screenVars>>

-----------------------------------------------------------------------------
\* Mutant: an answer is shown whenever it comes.
IsLatestAnyway(p) == TRUE

\* requestId === roomRequestId.current
IsLatest(p) == latest = p

\* Mutant: the number on the page is what an answer is compared with.
ObserveOnPage(a) ==
    LET previous == seen[shown.room]
        known    == a.last # NoSeq
        compare  == known /\ previous # NoSeq
    IN  /\ fresh' = IF compare THEN Larger(0, a.last - previous) ELSE 0
        /\ grown' = IF compare THEN a.total - told[a.room] ELSE 0
        /\ seen'  = IF known THEN [seen EXCEPT ![a.room] = a.last] ELSE seen
        /\ told'  = IF known THEN [told EXCEPT ![a.room] = a.total] ELSE told

\* newSinceRefresh and lastObservedSeq, from an answer a.
Observe(a) ==
    LET previous == seen[a.room]
        known    == a.last # NoSeq
        compare  == known /\ previous # NoSeq
    IN  /\ fresh' = IF compare THEN Larger(0, a.last - previous) ELSE 0
        /\ grown' = IF compare THEN a.total - told[a.room] ELSE 0
        /\ seen'  = IF known THEN [seen EXCEPT ![a.room] = a.last] ELSE seen
        /\ told'  = IF known THEN [told EXCEPT ![a.room] = a.total] ELSE told

\* The answer to the latest request goes on the page.
ShowWindow(p) ==
    /\ flight[p].at = "answered"
    /\ IsLatest(p)
    /\ Observe(flight[p])
    /\ shown' = [room |-> flight[p].room, live |-> TRUE]
    /\ loading' = FALSE
    /\ flight' = [flight EXCEPT ![p] = Idle]
    /\ UNCHANGED <<upstreamVars, latest, room, initial>>

\* Mutant: a failure leaves the page as it was.
ShowSampleNot(p) ==
    /\ flight[p].at = "failed"
    /\ IsLatest(p)
    /\ loading' = FALSE
    /\ flight' = [flight EXCEPT ![p] = Idle]
    /\ UNCHANGED <<upstreamVars, latest, room, initial, screenVars>>

\* The latest request failed: the sample, or nothing, and marked so.
ShowSample(p) ==
    /\ flight[p].at = "failed"
    /\ IsLatest(p)
    /\ shown' = [room |-> flight[p].room, live |-> FALSE]
    /\ fresh' = 0
    /\ grown' = 0
    /\ loading' = FALSE
    /\ flight' = [flight EXCEPT ![p] = Idle]
    /\ UNCHANGED <<upstreamVars, latest, room, initial, seen, told>>

\* Whatever comes of a request that is not the latest is dropped.
DropStale(p) ==
    /\ flight[p].at \in {"answered", "failed"}
    /\ ~IsLatest(p)
    /\ flight' = [flight EXCEPT ![p] = Idle]
    /\ UNCHANGED <<upstreamVars, latest, room, initial, loading, screenVars>>

Upstream(p) == Answer(p) \/ UpstreamFails(p)
Deliver(p)  == ShowWindow(p) \/ ShowSample(p) \/ DropStale(p)

HNext ==
    \/ \E r \in Rooms : Post(r) \/ Restart(r) \/ SelectRoom(r)
    \/ \E p \in Polls :
         InitialFires(p) \/ Poll(p) \/ Refresh(p) \/ Upstream(p) \/ Deliver(p)

HSpec == HInit /\ [][HNext]_hvars

\* The timers fire, the route answers since it gives up on upstream by itself,
\* and the browser runs what is due.  Nothing is assumed of the visitor.
FairHSpec ==
    /\ HSpec
    /\ WF_hvars(\E p \in Polls : InitialFires(p))
    /\ WF_hvars(\E p \in Polls : Poll(p))
    /\ \A p \in Polls : WF_hvars(Upstream(p)) /\ WF_hvars(Deliver(p))

-----------------------------------------------------------------------------
\* "New this refresh" never counts a message that was not posted since the feed
\* last saw this room, however answers overtake each other, rooms are left and
\* chosen again, and rooms start again; and what it compares came in this order.
PulseTrue == fresh \in 0..grown

\* When nothing is due and nothing loads, the page shows the chosen room: an
\* answer for the room before cannot come last.
AtRest == ~initial /\ ~loading => shown.room = room

\* Answers come to be faster than polls: upstream gets 6 s and polls are 12 s
\* apart, so this is about the visitor's clicks and the visitor's line.
Prompt == <>[][~(loading /\ latest' # latest)]_latest

\* A visitor who stays in a room comes to see it, or the mark that it is not
\* live, for good: no earlier answer takes the page back, and no failure leaves
\* the old room there.
RoomShown ==
    \A r \in Rooms : <>[](room = r) /\ Prompt => <>[](shown.room = r)
=============================================================================
