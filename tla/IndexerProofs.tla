---------------------------- MODULE IndexerProofs ----------------------------
(* Proofs about Indexer: rows and cursors agree and a recorded success has    *)
(* covered its rooms, for any rooms, bounds and however evasive upstream is.  *)
EXTENDS Indexer, WellFoundedInduction, TLAPS

\* No two messages of a batch or of a ring have the same sequence number.
Numbered(ms) == \A m, n \in ms : m.seq = n.seq => m = n

\* A room numbers its messages upwards, and a response is a piece of a ring.
RingsNumbered ==
    /\ \A r \in Rooms : Numbered(ring[r]) /\ \A m \in ring[r] : m.seq <= top[r]
    /\ Numbered(payload.messages)

\* The worker has a room in hand exactly while it reads it, and a room that
\* was listed is ahead, in hand or done.
InHand ==
    /\ pc \in {"fetch", "ingest"} => room \in Rooms
    /\ pc \in {"fetch", "ingest"} => listed \subseteq seen \cup todo \cup {room}
    /\ pc = "next" => listed \subseteq seen \cup todo
    /\ pc = "succeeded" => listed \subseteq seen

\* The three concerns of the invariant.
IndexInv == ITypeOK /\ (RingsNumbered /\ RowsCovered) /\ (InHand /\ SuccessCovers)

-----------------------------------------------------------------------------
\* A set of sequence numbers that is not empty has a least and a greatest one.
LEMMA LeastAndGreatest ==
    ASSUME NEW S, S \subseteq 1..MaxSeq, S # {}
    PROVE  /\ Min(S) \in S /\ \A s \in S : Min(S) <= s
           /\ Max(S) \in S /\ \A s \in S : s <= Max(S)
<1>0. MaxSeq \in Nat
  BY IndexerAssumption
<1>1. ASSUME NEW T, T \subseteq Nat, T # {} PROVE \E x \in T : \A y \in T : x <= y
  <2>1. PICK x \in T : \A y \in T : <<y, x>> \notin OpToRel(<, Nat)
    BY <1>1, WFMin, NatLessThanWellFounded
  <2>2. ASSUME NEW y \in T PROVE ~(y < x)
    BY <1>1, <2>1, <2>2 DEF OpToRel
  <2> QED BY <1>1, <2>2
<1>2. \E x \in S : \A y \in S : x <= y
  <2>1. S \subseteq Nat
    BY <1>0
  <2> QED BY <1>1, <2>1
<1>3. \E x \in S : \A y \in S : x >= y
  <2> DEFINE T == {MaxSeq - s : s \in S}
  <2>1. T \subseteq Nat /\ T # {}
    <3>1. ASSUME NEW s \in S PROVE MaxSeq - s \in Nat
      <4>1. s \in 1..MaxSeq
        OBVIOUS
      <4> QED BY <1>0, <4>1
    <3>2. PICK s \in S : TRUE
      OBVIOUS
    <3>3. MaxSeq - s \in T
      BY <3>2
    <3> QED BY <3>1, <3>3
  <2>2. PICK t \in T : \A u \in T : t <= u
    BY <1>1, <2>1
  <2>3. PICK x \in S : t = MaxSeq - x
    BY <2>2
  <2>4. ASSUME NEW y \in S PROVE x >= y
    <3>1. MaxSeq - x <= MaxSeq - y
      BY <2>2, <2>3
    <3> QED BY <1>0, <3>1
  <2> QED BY <2>4
<1>4. Min(S) \in S /\ \A s \in S : Min(S) <= s
  BY <1>2 DEF Min
<1>5. Max(S) \in S /\ \A s \in S : Max(S) >= s
  BY <1>3 DEF Max
<1>6. \A s \in S : s <= Max(S)
  BY <1>0, <1>5
<1> QED BY <1>4, <1>5, <1>6

\* The greater of a cursor and a sequence number.
LEMMA GreaterOf ==
    ASSUME NEW a \in 0..MaxSeq, NEW b \in 1..MaxSeq
    PROVE  Max({a, b}) \in 0..MaxSeq /\ Max({a, b}) >= a /\ Max({a, b}) >= b
<1>0. MaxSeq \in Nat
  BY IndexerAssumption
<1>1. \E x \in {a, b} : \A y \in {a, b} : x >= y
  BY <1>0
<1>2. Max({a, b}) \in {a, b} /\ \A y \in {a, b} : Max({a, b}) >= y
  BY <1>1 DEF Max
<1> QED BY <1>0, <1>2

\* The sequence numbers of a batch.
LEMMA SeqsOfPosted ==
    ASSUME NEW ms, ms \subseteq Posted
    PROVE  Seqs(ms) \subseteq 1..MaxSeq /\ (ms # {} => Seqs(ms) # {})
  BY DEF Seqs, Posted

\* A response is a piece of the room's ring.
LEMMA ResponseTypes ==
    ASSUME ITypeOK, NEW r \in Rooms, NEW since, NEW p \in Responses(r, since)
    PROVE  p \in Payloads /\ p.messages \subseteq ring[r]
<1> DEFINE after  == {m \in ring[r] : m.seq > since}
           oldest == {m \in after : Cardinality({n \in after : n.seq < m.seq}) < Limit}
           newest == {m \in after : Cardinality({n \in after : n.seq > m.seq}) < Limit}
           first  == IF ring[r] = {} THEN NoSeq ELSE Min(Seqs(ring[r]))
<1>1. ring[r] \subseteq Posted
  BY DEF ITypeOK
<1>2. first \in {NoSeq} \cup 1..MaxSeq
  BY <1>1, SeqsOfPosted, LeastAndGreatest
<1>3. oldest \subseteq ring[r] /\ newest \subseteq ring[r]
  OBVIOUS
<1>4. /\ p.messages \in {oldest, newest} /\ p.first \in {first, NoSeq} /\ p.gap \in BOOLEAN
      /\ p = [messages |-> p.messages, first |-> p.first, gap |-> p.gap]
  <2> HIDE DEF oldest, newest
  <2>1. (first > since + 1) \in BOOLEAN
    OBVIOUS
  <2>2. CASE p = [messages |-> oldest, first |-> first, gap |-> first > since + 1]
    BY <2>1, <2>2
  <2>3. CASE p \in [messages : {oldest, newest}, first : {first, NoSeq}, gap : {first > since + 1, FALSE}]
    BY <2>1, <2>3
  <2> QED BY <2>2, <2>3 DEF Responses, oldest, newest
<1> HIDE DEF after, oldest, newest, first
<1>5. p.messages \subseteq ring[r]
  BY <1>3, <1>4
<1>6. p.first \in {NoSeq} \cup 1..MaxSeq
  BY <1>2, <1>4
<1>7. p.messages \in SUBSET Posted
  BY <1>1, <1>5
<1> QED BY <1>4, <1>5, <1>6, <1>7 DEF Payloads

\* Reasons are reasons; a flag keeps the cursor, raises the gap and leaves a
\* first reason alone.
LEMMA Flags ==
    ASSUME NEW c \in Coverage, NEW reason \in Reasons
    PROVE  /\ Flagged(c, reason) \in Coverage
           /\ Flagged(c, reason).last = c.last
           /\ (c.gap \/ reason # "none") => Flagged(c, reason).gap
           /\ c.reason # "none" => Flagged(c, reason).reason = c.reason
  BY DEF Flagged, Coverage

\* The row a failed observation leaves: flagged, with its cursor.
LEMMA Fails ==
    ASSUME NEW c \in Coverage
    PROVE  /\ Failed(c) \in Coverage
           /\ Failed(c).last = c.last /\ Failed(c).gap
           /\ c.reason # "none" => Failed(c).reason = c.reason
  BY DEF Failed, Flagged, FailureReason, Coverage, Reasons

\* What is detected is a reason, and a failure is one that flags.
LEMMA ReasonsKnown == GapReason \in Reasons /\ FailureReason \in Reasons \ {"none"}
  BY DEF GapReason, FailureReason, Reasons

\* The cursor only advances, beyond every message kept of the batch.
LEMMA Advances ==
    ASSUME ITypeOK, NEW c \in Coverage
    PROVE  /\ Advanced(c) \in Coverage
           /\ Advanced(c).last >= c.last
           /\ \A s \in Seqs(Normalized) : s <= Advanced(c).last
           /\ Advanced(c).gap = c.gap /\ Advanced(c).reason = c.reason
<1> DEFINE seqs  == Seqs(Normalized)
           first == IF c.first = NoSeq /\ seqs # {} THEN Min(seqs) ELSE c.first
           last  == IF seqs = {} THEN c.last ELSE Max({c.last, Max(seqs)})
<1>0. MaxSeq \in Nat
  BY IndexerAssumption
<1>1. Normalized \subseteq Posted
  BY DEF Normalized, ITypeOK, Payloads
<1>2. seqs \subseteq 1..MaxSeq
  BY <1>1, SeqsOfPosted
<1>3. /\ c.first \in {NoSeq} \cup 1..MaxSeq /\ c.last \in 0..MaxSeq
      /\ c.gap \in BOOLEAN /\ c.reason \in Reasons /\ c.error \in BOOLEAN
      /\ c = [first |-> c.first, last |-> c.last, gap |-> c.gap, reason |-> c.reason, error |-> c.error]
  BY DEF Coverage
<1>4. Advanced(c) = [c EXCEPT !.first = first, !.last = last, !.error = FALSE]
  BY DEF Advanced
<1> HIDE DEF seqs
<1>5. first \in {NoSeq} \cup 1..MaxSeq
  BY <1>2, <1>3, LeastAndGreatest
<1>6. last \in 0..MaxSeq /\ last >= c.last /\ \A s \in seqs : s <= last
  <2>1. CASE seqs = {}
    BY <1>0, <1>3, <2>1
  <2>2. CASE seqs # {}
    <3>1. Max(seqs) \in 1..MaxSeq /\ \A s \in seqs : s <= Max(seqs)
      BY <1>2, <2>2, LeastAndGreatest
    <3>2. last = Max({c.last, Max(seqs)})
      BY <2>2
    <3>3. last \in 0..MaxSeq /\ last >= c.last /\ last >= Max(seqs)
      BY <1>3, <3>1, <3>2, GreaterOf
    <3> HIDE DEF last
    <3> QED BY <1>0, <1>2, <3>1, <3>3
  <2> QED BY <2>1, <2>2
<1> HIDE DEF first, last
<1>7. Advanced(c) = [first |-> first, last |-> last, gap |-> c.gap, reason |-> c.reason, error |-> FALSE]
  BY <1>3, <1>4
<1> QED BY <1>3, <1>5, <1>6, <1>7 DEF Coverage, seqs

\* What is inserted: the rows there were, and rows of this room and batch.
LEMMA Inserts ==
    ASSUME ITypeOK, room \in Rooms, NEW ms, ms \subseteq Normalized
    PROVE  /\ Inserted(ms) \subseteq Rows /\ messages \subseteq Inserted(ms)
           /\ \A row \in Inserted(ms) \ messages : row.room = room /\ row.seq \in Seqs(ms)
           /\ (RowsCovered /\ RingsNumbered) =>
                \A x, y \in Inserted(ms) : x.room = y.room /\ x.seq = y.seq => x = y
<1>1. ms \subseteq payload.messages /\ ms \subseteq Posted
  BY DEF Normalized, ITypeOK, Payloads
<1>2. ASSUME NEW row \in Inserted(ms) \ messages
      PROVE  \E m \in ms : /\ row = [room |-> room, seq |-> m.seq, gen |-> m.gen]
                           /\ \A old \in messages : old.room # room \/ old.seq # m.seq
  BY <1>2 DEF Inserted
<1>3. ASSUME NEW row \in Inserted(ms) \ messages
      PROVE  row \in Rows /\ row.room = room /\ row.seq \in Seqs(ms)
  <2>1. PICK m \in ms : row = [room |-> room, seq |-> m.seq, gen |-> m.gen]
    BY <1>2, <1>3
  <2> QED BY <1>1, <2>1 DEF Rows, Posted, Seqs
<1>4. messages \subseteq Inserted(ms)
  BY DEF Inserted
<1>5. Inserted(ms) \subseteq Rows
  BY <1>3 DEF ITypeOK
<1>6. ASSUME RowsCovered, RingsNumbered, NEW x \in Inserted(ms), NEW y \in Inserted(ms),
             x.room = y.room, x.seq = y.seq
      PROVE  x = y
  <2>1. CASE x \in messages /\ y \in messages
    BY <1>6, <2>1 DEF RowsCovered
  <2>2. CASE x \notin messages /\ y \notin messages
    <3>1. PICK m \in ms : x = [room |-> room, seq |-> m.seq, gen |-> m.gen]
      BY <1>2, <1>6, <2>2
    <3>2. PICK n \in ms : y = [room |-> room, seq |-> n.seq, gen |-> n.gen]
      BY <1>2, <1>6, <2>2
    <3>3. m = n
      BY <1>1, <1>6, <3>1, <3>2 DEF RingsNumbered, Numbered
    <3> QED BY <3>1, <3>2, <3>3
  <2>3. CASE x \notin messages /\ y \in messages
    BY <1>2, <1>6, <2>3
  <2>4. CASE x \in messages /\ y \notin messages
    BY <1>2, <1>6, <2>4
  <2> QED BY <2>1, <2>2, <2>3, <2>4
<1> QED BY <1>3, <1>4, <1>5, <1>6

-----------------------------------------------------------------------------
\* The invariant holds at first.
LEMMA IndexInit == IInit => IndexInv
<1> SUFFICES ASSUME IInit PROVE IndexInv
  OBVIOUS
<1>0. {MaxSeq, MaxGen} \subseteq Nat
  BY IndexerAssumption
<1>1. ITypeOK
  BY <1>0 DEF IInit, ITypeOK, NoCoverage, NoPayload, Coverage, Payloads, Reasons, Posted, Rows
<1>2. RingsNumbered /\ RowsCovered
  BY DEF IInit, RingsNumbered, RowsCovered, Numbered, NoPayload
<1>3. InHand /\ SuccessCovers
  BY DEF IInit, InHand, SuccessCovers
<1> QED BY <1>1, <1>2, <1>3 DEF IndexInv

\* A message arrives with the next number of its room.
LEMMA PostStep ==
    ASSUME ITypeOK, RingsNumbered, NEW r \in Rooms, NEW k \in Kinds, Post(r, k)
    PROVE  /\ ring' \in [Rooms -> SUBSET Posted] /\ top' \in [Rooms -> 0..MaxSeq]
           /\ \A q \in Rooms : Numbered(ring'[q]) /\ \A m \in ring'[q] : m.seq <= top'[q]
<1>0. MaxSeq \in Nat
  BY IndexerAssumption
<1> DEFINE new  == [seq |-> top[r] + 1, gen |-> gen[r], kind |-> k]
           kept == {m \in ring[r] : m.seq > top[r] + 1 - Ring}
<1>1. top[r] \in 0..MaxSeq /\ top[r] < MaxSeq /\ gen[r] \in 0..MaxGen
  BY DEF ITypeOK, Post
<1>2. new \in Posted
  BY <1>0, <1>1 DEF Posted
<1>3. ring[r] \subseteq Posted /\ kept \subseteq ring[r]
  BY DEF ITypeOK
<1>4. ring' = [ring EXCEPT ![r] = kept \cup {new}] /\ top' = [top EXCEPT ![r] = top[r] + 1]
  BY DEF Post
<1>5. \A m \in kept : m.seq \in Int /\ m.seq <= top[r]
  BY <1>3 DEF RingsNumbered, Posted
<1>6. new.seq = top[r] + 1
  OBVIOUS
<1> HIDE DEF new, kept
<1>7. Numbered(kept \cup {new})
  BY <1>0, <1>1, <1>3, <1>5, <1>6 DEF RingsNumbered, Numbered
<1>8. \A m \in kept \cup {new} : m.seq <= top[r] + 1
  BY <1>0, <1>1, <1>5, <1>6
<1>9. ring' \in [Rooms -> SUBSET Posted] /\ top' \in [Rooms -> 0..MaxSeq]
  BY <1>0, <1>1, <1>2, <1>3, <1>4 DEF ITypeOK
<1> QED BY <1>4, <1>7, <1>8, <1>9 DEF RingsNumbered, ITypeOK

\* Every variable keeps its type.
LEMMA TypeStep == ITypeOK /\ RingsNumbered /\ InHand /\ [INext]_ivars => ITypeOK'
<1> SUFFICES ASSUME ITypeOK, RingsNumbered, InHand, [INext]_ivars PROVE ITypeOK'
  OBVIOUS
<1> USE DEF upstream, database, recorded, worker
<1>0. {MaxSeq, MaxGen} \subseteq Nat /\ NoPayload \in Payloads
  BY IndexerAssumption DEF NoPayload, Payloads
<1>1. ASSUME NEW r \in Rooms, NEW k \in Kinds, Post(r, k) PROVE ITypeOK'
  BY <1>1, PostStep DEF Post, ITypeOK
<1>2. ASSUME NEW r \in Rooms, Restart(r) PROVE ITypeOK'
  BY <1>0, <1>2 DEF Restart, ITypeOK
<1>3. ASSUME NEW rs \in SUBSET Rooms, ListRooms(rs) PROVE ITypeOK'
  BY <1>3 DEF ListRooms, ITypeOK
<1>4. ASSUME NEW r \in Rooms, SelectRoom(r) PROVE ITypeOK'
  BY <1>4 DEF SelectRoom, ITypeOK, Coverage
<1>5. CASE FetchRoom
  <2>1. payload' \in Payloads
    BY <1>5, ResponseTypes DEF FetchRoom, InHand
  <2> QED BY <1>5, <2>1 DEF FetchRoom, ITypeOK
<1>6. CASE Ingest \/ IngestFails \/ FetchFails
  <2>1. room \in Rooms /\ cover[room] \in Coverage /\ messages \subseteq Rows
    BY <1>6 DEF Ingest, IngestFails, FetchFails, InHand, ITypeOK
  <2>2. messages' \subseteq Rows
    <3>1. \A p : {m \in Normalized : m.seq < p.seq} \subseteq Normalized
      OBVIOUS
    <3>2. CASE Ingest
      BY <2>1, <3>2, Inserts DEF Ingest
    <3>3. CASE IngestFails
      BY <2>1, <3>1, <3>3, Inserts DEF IngestFails
    <3>4. CASE FetchFails
      BY <2>1, <3>4 DEF FetchFails
    <3> QED BY <1>6, <3>2, <3>3, <3>4
  <2>3. cover' \in [Rooms -> Coverage]
    <3>1. Advanced(Flagged(cover[room], GapReason)) \in Coverage
      BY <2>1, Flags, ReasonsKnown, Advances
    <3>2. Failed(cover[room]) \in Coverage
      BY <2>1, Fails
    <3> QED BY <1>6, <3>1, <3>2 DEF Ingest, IngestFails, FetchFails, ITypeOK
  <2>4. detected' \in [Rooms -> SUBSET Reasons]
    BY <1>6, <2>1, ReasonsKnown DEF Ingest, IngestFails, FetchFails, Detect, ITypeOK
  <2>5. seen' \subseteq Rooms /\ EndRoom /\ UNCHANGED <<ring, top, gen, state, missed>>
    BY <1>6, <2>1 DEF Ingest, IngestFails, FetchFails, ITypeOK
  <2> QED BY <1>0, <2>2, <2>3, <2>4, <2>5 DEF EndRoom, ITypeOK
<1>7. CASE EndCycle
  BY <1>7 DEF EndCycle, ITypeOK
<1>8. CASE RecordSuccess \/ CycleFails \/ RecordFailure \/ Break
  BY <1>0, <1>8 DEF RecordSuccess, CycleFails, RecordFailure, Break, Abandon, ITypeOK
<1>9. CASE UNCHANGED ivars
  BY <1>9 DEF ivars, ITypeOK
<1> QED BY <1>1, <1>2, <1>3, <1>4, <1>5, <1>6, <1>7, <1>8, <1>9 DEF INext, Work, World

\* What a step of the transactions does to rows and coverage.
LEMMA Commits ==
    ASSUME ITypeOK, InHand, Ingest \/ IngestFails \/ FetchFails
    PROVE  /\ room \in Rooms /\ messages \subseteq messages'
           /\ \A row \in messages' \ messages :
                row.room = room /\ (row.seq <= cover'[room].last \/ cover'[room].gap)
           /\ \A r \in Rooms :
                /\ cover'[r].last >= cover[r].last
                /\ cover[r].gap => cover'[r].gap
                /\ cover[r].reason # "none" => cover'[r].reason = cover[r].reason
           /\ RowsCovered /\ RingsNumbered =>
                \A x, y \in messages' : x.room = y.room /\ x.seq = y.seq => x = y
<1>1. room \in Rooms /\ cover[room] \in Coverage /\ cover \in [Rooms -> Coverage]
  BY DEF Ingest, IngestFails, FetchFails, InHand, ITypeOK
<1>2. \A r \in Rooms : cover[r].last >= cover[r].last
  BY <1>1, IndexerAssumption DEF Coverage
<1>3. CASE Ingest
  <2> DEFINE c == Flagged(cover[room], GapReason)
  <2>1. /\ c \in Coverage /\ c.last = cover[room].last /\ (cover[room].gap => c.gap)
        /\ cover[room].reason # "none" => c.reason = cover[room].reason
    BY <1>1, Flags, ReasonsKnown
  <2> HIDE DEF c
  <2>2. cover' = [cover EXCEPT ![room] = Advanced(c)] /\ messages' = Inserted(Normalized)
    BY <1>3 DEF Ingest, c
  <2>3. /\ Advanced(c).last >= c.last /\ \A s \in Seqs(Normalized) : s <= Advanced(c).last
        /\ Advanced(c).gap = c.gap /\ Advanced(c).reason = c.reason
    BY <2>1, Advances
  <2>4. cover'[room] = Advanced(c) /\ \A r \in Rooms : r # room => cover'[r] = cover[r]
    BY <1>1, <2>2
  <2>5. \A r \in Rooms :
                /\ cover'[r].last >= cover[r].last
                /\ cover[r].gap => cover'[r].gap
                /\ cover[r].reason # "none" => cover'[r].reason = cover[r].reason
    BY <1>2, <2>1, <2>3, <2>4
  <2> QED BY <1>1, <2>2, <2>3, <2>4, <2>5, Inserts
<1>4. CASE IngestFails \/ FetchFails
  <2>1. cover' = [cover EXCEPT ![room] = Failed(cover[room])]
    BY <1>4 DEF IngestFails, FetchFails
  <2>2. cover'[room] = Failed(cover[room]) /\ \A r \in Rooms : r # room => cover'[r] = cover[r]
    BY <1>1, <2>1
  <2>3. /\ cover'[room].gap /\ cover'[room].last = cover[room].last
        /\ cover[room].reason # "none" => cover'[room].reason = cover[room].reason
    BY <1>1, <2>2, Fails
  <2>4. \A r \in Rooms :
                /\ cover'[r].last >= cover[r].last
                /\ cover[r].gap => cover'[r].gap
                /\ cover[r].reason # "none" => cover'[r].reason = cover[r].reason
    BY <1>2, <2>2, <2>3
  <2>5. CASE messages' = messages
    BY <1>1, <2>4, <2>5 DEF RowsCovered
  <2>6. ASSUME NEW ms, ms \subseteq Normalized, messages' = Inserted(ms)
        PROVE  /\ messages \subseteq messages'
               /\ \A row \in messages' \ messages : row.room = room
               /\ RowsCovered /\ RingsNumbered =>
                    \A x, y \in messages' : x.room = y.room /\ x.seq = y.seq => x = y
    BY <1>1, <2>6, Inserts
  <2>7. CASE IngestFails
    <3>1. PICK p : messages' = Inserted({m \in Normalized : m.seq < p.seq})
      BY <2>7 DEF IngestFails
    <3> QED BY <1>1, <2>3, <2>4, <2>6, <3>1
  <2> QED BY <1>4, <2>5, <2>7 DEF FetchFails
<1> QED BY <1>3, <1>4

\* Other steps leave rows and coverage alone.
LEMMA OtherSteps ==
    ASSUME [INext]_ivars, ~(Ingest \/ IngestFails \/ FetchFails)
    PROVE  UNCHANGED database
<1> USE DEF upstream, database, recorded, worker
<1>1. CASE Work
  BY <1>1 DEF Work, ListRooms, SelectRoom, FetchRoom, EndCycle, RecordSuccess
<1>2. CASE World
  BY <1>2 DEF World, Post, Restart
<1>3. CASE CycleFails \/ RecordFailure \/ Break \/ UNCHANGED ivars
  BY <1>3 DEF CycleFails, RecordFailure, Break, ivars
<1> QED BY <1>1, <1>2, <1>3 DEF INext

\* Rows, cursors and rings go on agreeing.
LEMMA RowStep ==
    ITypeOK /\ RingsNumbered /\ RowsCovered /\ InHand /\ [INext]_ivars => RingsNumbered' /\ RowsCovered'
<1> SUFFICES ASSUME ITypeOK, RingsNumbered, RowsCovered, InHand, [INext]_ivars
             PROVE  RingsNumbered' /\ RowsCovered'
  OBVIOUS
<1>1. RowsCovered'
  <2>1. CASE Ingest \/ IngestFails \/ FetchFails
    <3>1. ASSUME NEW row \in messages' PROVE row.seq <= cover'[row.room].last \/ cover'[row.room].gap
      <4>1. CASE row \in messages
        <5>1. row.room \in Rooms /\ row.seq \in Int /\ cover[row.room].last \in Int
          BY <4>1 DEF ITypeOK, Rows, Coverage
        <5>2. cover'[row.room].last \in Int
          BY <5>1, TypeStep DEF ITypeOK, Coverage
        <5>3. cover'[row.room].last >= cover[row.room].last /\ (cover[row.room].gap => cover'[row.room].gap)
          BY <2>1, <5>1, Commits
        <5>4. row.seq <= cover[row.room].last \/ cover[row.room].gap
          BY <4>1 DEF RowsCovered
        <5> QED BY <5>1, <5>2, <5>3, <5>4
      <4>2. CASE row \notin messages
        BY <2>1, <3>1, <4>2, Commits
      <4> QED BY <4>1, <4>2
    <3>2. \A x, y \in messages' : x.room = y.room /\ x.seq = y.seq => x = y
      BY <2>1, Commits
    <3> QED BY <3>1, <3>2 DEF RowsCovered
  <2>2. CASE ~(Ingest \/ IngestFails \/ FetchFails)
    BY <2>2, OtherSteps DEF database, RowsCovered
  <2> QED BY <2>1, <2>2
<1>2. \A r \in Rooms : Numbered(ring'[r]) /\ \A m \in ring'[r] : m.seq <= top'[r]
  <2>1. ASSUME NEW r \in Rooms, NEW k \in Kinds, Post(r, k)
        PROVE  \A q \in Rooms : Numbered(ring'[q]) /\ \A m \in ring'[q] : m.seq <= top'[q]
    BY <2>1, PostStep
  <2>2. ASSUME NEW r \in Rooms, Restart(r)
        PROVE  \A q \in Rooms : Numbered(ring'[q]) /\ \A m \in ring'[q] : m.seq <= top'[q]
    BY <2>2 DEF Restart, RingsNumbered, ITypeOK, Numbered
  <2>3. CASE UNCHANGED upstream
    BY <2>3 DEF upstream, RingsNumbered
  <2>4. Work \/ FetchFails \/ CycleFails \/ RecordFailure \/ Break \/ UNCHANGED ivars => UNCHANGED upstream
    BY DEF Work, ListRooms, SelectRoom, FetchRoom, Ingest, IngestFails, EndCycle, RecordSuccess,
           FetchFails, CycleFails, RecordFailure, Break, ivars
  <2> QED BY <2>1, <2>2, <2>3, <2>4 DEF INext, World
<1>3. Numbered(payload'.messages)
  <2>1. CASE FetchRoom
    <3>1. payload' \in Responses(room, previous) /\ room \in Rooms
      BY <2>1 DEF FetchRoom, InHand
    <3>2. payload'.messages \subseteq ring[room]
      BY <3>1, ResponseTypes
    <3> QED BY <3>1, <3>2 DEF RingsNumbered, Numbered
  <2>2. CASE payload' = NoPayload
    BY <2>2 DEF NoPayload, Numbered
  <2>3. CASE payload' = payload
    BY <2>3 DEF RingsNumbered
  <2>4. [INext]_ivars => FetchRoom \/ payload' = NoPayload \/ payload' = payload
    BY DEF INext, World, Work, Post, Restart, ListRooms, SelectRoom, FetchRoom, Ingest, IngestFails,
           EndCycle, RecordSuccess, FetchFails, CycleFails, RecordFailure, Break, EndRoom, Abandon,
           ivars, worker
  <2> QED BY <2>1, <2>2, <2>3, <2>4
<1> QED BY <1>1, <1>2, <1>3 DEF RingsNumbered

\* No listed room is forgotten, and a success covers them all.
LEMMA CoverStep == ITypeOK /\ InHand /\ SuccessCovers /\ [INext]_ivars => InHand' /\ SuccessCovers'
<1> SUFFICES ASSUME ITypeOK, InHand, SuccessCovers, [INext]_ivars PROVE InHand' /\ SuccessCovers'
  OBVIOUS
<1> USE DEF upstream, database, recorded, worker, InHand, SuccessCovers
<1>1. CASE World
  BY <1>1 DEF World, Post, Restart
<1>2. ASSUME NEW rs \in SUBSET Rooms, ListRooms(rs) PROVE InHand' /\ SuccessCovers'
  BY <1>2 DEF ListRooms
<1>3. ASSUME NEW r \in Rooms, SelectRoom(r) PROVE InHand' /\ SuccessCovers'
  BY <1>3 DEF SelectRoom
<1>4. CASE FetchRoom
  BY <1>4 DEF FetchRoom
<1>5. CASE Ingest \/ IngestFails \/ FetchFails
  BY <1>5 DEF Ingest, IngestFails, FetchFails, EndRoom
<1>6. CASE EndCycle
  BY <1>6 DEF EndCycle
<1>7. CASE RecordSuccess
  BY <1>7 DEF RecordSuccess, Abandon
<1>8. CASE CycleFails \/ RecordFailure \/ Break
  BY <1>8 DEF CycleFails, RecordFailure, Break, Abandon
<1>9. CASE UNCHANGED ivars
  BY <1>9 DEF ivars
<1> QED BY <1>1, <1>2, <1>3, <1>4, <1>5, <1>6, <1>7, <1>8, <1>9 DEF INext, Work

-----------------------------------------------------------------------------
\* The invariant holds in every state.
THEOREM IndexInvariance == ISpec => []IndexInv
<1>1. IndexInv /\ [INext]_ivars => IndexInv'
  BY TypeStep, RowStep, CoverStep DEF IndexInv
<1> QED BY <1>1, IndexInit, PTL DEF ISpec

\* Every variable has its type in every reachable state.
THEOREM IndexTypeCorrect == ISpec => []ITypeOK
<1>1. IndexInv => ITypeOK
  BY DEF IndexInv
<1> QED BY <1>1, IndexInvariance, PTL

\* Whatever upstream answers and wherever a transaction or the process fails,
\* a room has one row per sequence number and none beyond its cursor unless
\* its history is flagged (ingest and the handler of observe_once).
THEOREM RowsAreCovered == ISpec => []RowsCovered
<1>1. IndexInv => RowsCovered
  BY DEF IndexInv
<1> QED BY <1>1, IndexInvariance, PTL

\* A cycle recorded as a success has written the coverage row of every room
\* that it listed (observe_once and main).
THEOREM SuccessIsCovered == ISpec => []SuccessCovers
<1>1. IndexInv => SuccessCovers
  BY DEF IndexInv
<1> QED BY <1>1, IndexInvariance, PTL

\* No row is lost or rewritten, no cursor falls, no flag or reason is taken
\* back (INSERT OR IGNORE and the upsert of the coverage row).
THEOREM ObservationsStay == ISpec => ObservedStays
<1> DEFINE Stays == /\ messages \subseteq messages'
                    /\ \A r \in Rooms :
                         /\ cover'[r].last >= cover[r].last
                         /\ cover[r].gap => cover'[r].gap
                         /\ cover[r].reason # "none" => cover'[r].reason = cover[r].reason
<1>1. ASSUME IndexInv, [INext]_ivars PROVE Stays
  <2>1. CASE Ingest \/ IngestFails \/ FetchFails
    BY <1>1, <2>1, Commits DEF IndexInv
  <2>2. CASE ~(Ingest \/ IngestFails \/ FetchFails)
    <3>1. messages' = messages /\ cover' = cover
      BY <1>1, <2>2, OtherSteps DEF database
    <3>2. \A r \in Rooms : cover[r].last \in Nat
      BY <1>1, IndexerAssumption DEF IndexInv, ITypeOK, Coverage
    <3> QED BY <3>1, <3>2
  <2> QED BY <2>1, <2>2
<1> QED BY <1>1, IndexInvariance, PTL DEF ISpec, ObservedStays
=============================================================================
