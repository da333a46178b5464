-------------------------- MODULE LedgerFileProofs --------------------------
(* Proofs about LedgerFile: what read tells of the appends that returned, and *)
(* that what it once told it goes on telling, for any threads and records.    *)
EXTENDS LedgerFile, FiniteSetTheorems, SequenceTheorems, TLAPS

\* One thread at a time is past the lock, and records are given out once.
InLock == {"write", "close", "sync"}
OneWriter ==
    /\ \A t \in Threads : step[t] \in InLock => lock = t
    /\ \A t \in Threads : step[t] # "idle" => record[t] \in Records
    /\ \A t, u \in Threads : step[t] # "idle" /\ step[u] # "idle" /\ record[t] = record[u] => t = u

\* Appends begin once each, and the one that holds the lock began last.
BegunOnce ==
    /\ \A m, n \in DOMAIN begun : begun[m] = begun[n] => m = n
    /\ \A t \in Threads :
         /\ step[t] = "lock" => \A m \in DOMAIN begun : begun[m] # record[t]
         /\ step[t] \in InLock => begun # <<>> /\ begun[Len(begun)] = record[t]

\* Piece i was begun before piece j.
Before(i, j) ==
    \E m, n \in DOMAIN begun : m < n /\ begun[m] = file[i].of /\ begun[n] = file[j].of

\* The pieces lie in the order of the appends, one for each at most, behind
\* what was there at first.
InOrder ==
    /\ \A i \in DOMAIN file :
         IF file[i].of \in Foreign THEN i = 1 /\ file[i].form = "ended"
         ELSE \E m \in DOMAIN begun : begun[m] = file[i].of
    /\ \A i, j \in DOMAIN file : i < j /\ file[i].of \in Records => Before(i, j)

\* The piece of an append in progress is the last one, if it has one.
InProgress ==
    \A t \in Threads :
      /\ step[t] = "write" => \A i \in DOMAIN file : file[i].of # record[t]
      /\ step[t] = "close" => \A i \in DOMAIN file : file[i].of = record[t] => i = Len(file)
      /\ step[t] = "close" => record[t] \in cut
      /\ step[t] = "sync" => \E i \in DOMAIN file : file[i] = Ended(record[t])

\* A piece without its end was cut short; what returned has its piece.
CutShort ==
    /\ IsFiniteSet(cut)
    /\ \A i \in DOMAIN file : file[i].form # "ended" => file[i].of \in cut
    /\ \A r \in returned : \E i \in DOMAIN file : file[i] = Ended(r)

LedgerInv == LTypeOK /\ (OneWriter /\ BegunOnce) /\ (InOrder /\ InProgress /\ CutShort)

-----------------------------------------------------------------------------
\* The invariant holds at first.
LEMMA LedgerInit == LInit => LedgerInv
<1> SUFFICES ASSUME LInit PROVE LedgerInv
  OBVIOUS
<1>1. LTypeOK
  <2>1. ASSUME NEW f \in Foreign PROVE <<Ended(f)>> \in Seq(Pieces)
    <3>1. Ended(f) \in Pieces
      BY DEF Ended, Pieces
    <3> QED BY <3>1
  <2>2. file \in Seq(Pieces)
    <3>1. file = <<>> \/ \E f \in Foreign : file = <<Ended(f)>>
      BY DEF LInit
    <3>2. CASE file = <<>>
      BY <3>2
    <3> QED BY <2>1, <3>1, <3>2
  <2> QED BY <2>2 DEF LInit, LTypeOK
<1>2. OneWriter /\ BegunOnce
  BY DEF LInit, OneWriter, BegunOnce, InLock
<1>3. InOrder
  <2>1. CASE file = <<>>
    BY <2>1 DEF InOrder
  <2>2. ASSUME NEW f \in Foreign, file = <<Ended(f)>> PROVE InOrder
    <3>1. DOMAIN file = {1} /\ file[1].of = f /\ file[1].form = "ended"
      BY <2>2 DEF Ended
    <3> QED BY <3>1 DEF InOrder
  <2> QED BY <2>1, <2>2 DEF LInit
<1>4. InProgress
  BY DEF LInit, InProgress
<1>5. CutShort
  <2>1. IsFiniteSet(cut)
    BY FS_EmptySet DEF LInit
  <2>2. \A i \in DOMAIN file : file[i].form = "ended"
    BY DEF LInit, Ended
  <2> QED BY <2>1, <2>2 DEF LInit, CutShort
<1> QED BY <1>1, <1>2, <1>3, <1>4, <1>5 DEF LedgerInv

-----------------------------------------------------------------------------
\* Every variable keeps its type.
LEMMA TypeStep == LTypeOK /\ OneWriter /\ [LNext]_lvars => LTypeOK'
<1> SUFFICES ASSUME LTypeOK, OneWriter, [LNext]_lvars PROVE LTypeOK'
  OBVIOUS
<1>0. ASSUME NEW r \in Records PROVE {Torn(r), Bare(r), Ended(r)} \subseteq Pieces
  BY DEF Torn, Bare, Ended, Pieces
<1>1. ASSUME NEW t \in Threads, NEW r \in Records, Begin(t, r) PROVE LTypeOK'
  BY <1>1 DEF Begin, Goto, LTypeOK
<1>2. ASSUME NEW t \in Threads, OpenLedger(t) PROVE LTypeOK'
  <2>1. record[t] \in Records
    BY <1>2 DEF OpenLedger, OneWriter
  <2> QED BY <1>2, <2>1 DEF OpenLedger, Goto, LTypeOK
<1>3. ASSUME NEW t \in Threads, WriteRecord(t) \/ WriteShort(t) \/ CloseWritesRest(t) PROVE LTypeOK'
  <2>1. record[t] \in Records
    BY <1>3 DEF WriteRecord, WriteShort, CloseWritesRest, OneWriter
  <2>2. file \in Seq(Pieces)
    BY DEF LTypeOK
  <2>3. ASSUME NEW p \in Pieces PROVE Append(file, p) \in Seq(Pieces)
    BY <2>2
  <2>4. ASSUME NEW p \in Pieces, file # <<>> PROVE [file EXCEPT ![Len(file)] = p] \in Seq(Pieces)
    <3>1. Len(file) \in 1..Len(file)
      BY <2>2, <2>4
    <3> QED BY <2>2, <3>1, ExceptSeq
  <2>5. file' \in Seq(Pieces)
    BY <1>0, <1>3, <2>1, <2>2, <2>3, <2>4 DEF WriteRecord, WriteShort, CloseWritesRest
  <2> QED BY <1>3, <2>1, <2>5 DEF WriteRecord, WriteShort, CloseWritesRest, Goto, Leave, LTypeOK
<1>4. ASSUME NEW t \in Threads, OpenLedgerFails(t) \/ CloseFails(t) \/ SyncFails(t) PROVE LTypeOK'
  BY <1>4 DEF OpenLedgerFails, CloseFails, SyncFails, Leave, Goto, LTypeOK
<1>5. ASSUME NEW t \in Threads, ReturnRecord(t) PROVE LTypeOK'
  <2>1. record[t] \in Records
    BY <1>5 DEF ReturnRecord, OneWriter
  <2> QED BY <1>5, <2>1 DEF ReturnRecord, Leave, Goto, LTypeOK
<1>6. CASE Crash
  <2>1. file' \in Seq(Pieces) /\ cut' \subseteq Records
    <3>1. ASSUME NEW t \in Threads, step[t] = "write",
                 \E piece \in {Torn(record[t]), Bare(record[t])} : file' = Append(file, piece),
                 cut' = cut \cup {record[t]}
          PROVE  file' \in Seq(Pieces) /\ cut' \subseteq Records
      <4>1. record[t] \in Records
        BY <3>1 DEF OneWriter
      <4> QED BY <1>0, <3>1, <4>1 DEF LTypeOK
    <3>2. CASE UNCHANGED <<file, cut>>
      BY <3>2 DEF LTypeOK
    <3> QED BY <1>6, <3>1, <3>2 DEF Crash
  <2> QED BY <1>6, <2>1 DEF Crash, LTypeOK
<1>7. CASE UNCHANGED lvars
  BY <1>7 DEF lvars, LTypeOK
<1> QED BY <1>1, <1>2, <1>3, <1>4, <1>5, <1>6, <1>7 DEF LNext

\* The lock goes on excluding, and appends go on beginning once.
LEMMA WriterStep == LTypeOK /\ OneWriter /\ BegunOnce /\ [LNext]_lvars => OneWriter' /\ BegunOnce'
<1> SUFFICES ASSUME LTypeOK, OneWriter, BegunOnce, [LNext]_lvars PROVE OneWriter' /\ BegunOnce'
  OBVIOUS
<1> USE LedgerAssumption DEF InLock
<1>1. ASSUME NEW t \in Threads, NEW r \in Records, Begin(t, r) PROVE OneWriter' /\ BegunOnce'
  <2>1. \A m \in DOMAIN begun : begun[m] # r
    BY <1>1 DEF Begin, Range
  <2>2. step[t] = "idle" /\ step' = [step EXCEPT ![t] = "lock"] /\ record' = [record EXCEPT ![t] = r]
    BY <1>1 DEF Begin, Goto
  <2>3. \A u \in Threads : record[u] # r
    BY <1>1 DEF Begin
  <2>4. OneWriter'
    BY <1>1, <2>2, <2>3 DEF Begin, OneWriter, LTypeOK
  <2>5. BegunOnce'
    BY <1>1, <2>1, <2>2 DEF Begin, BegunOnce, LTypeOK
  <2> QED BY <2>4, <2>5
<1>2. ASSUME NEW t \in Threads, OpenLedger(t) PROVE OneWriter' /\ BegunOnce'
  <2>1. step[t] = "lock" /\ record[t] \in Records /\ \A m \in DOMAIN begun : begun[m] # record[t]
    BY <1>2 DEF OpenLedger, OneWriter, BegunOnce
  <2>2. begun \in Seq(Records) /\ begun' = Append(begun, record[t])
    BY <1>2 DEF OpenLedger, LTypeOK
  <2>3. /\ DOMAIN begun' = 1..Len(begun) + 1 /\ Len(begun') = Len(begun) + 1 /\ begun' # <<>>
        /\ begun'[Len(begun) + 1] = record[t] /\ \A m \in 1..Len(begun) : begun'[m] = begun[m]
        /\ DOMAIN begun = 1..Len(begun) /\ Len(begun) \in Nat
    BY <2>1, <2>2
  <2>4. \A u \in Threads : step[u] \notin InLock
    BY <1>2 DEF OpenLedger, OneWriter
  <2>5. step' = [step EXCEPT ![t] = "write"] /\ record' = record /\ lock' = t
    BY <1>2 DEF OpenLedger, Goto
  <2>6. OneWriter'
    BY <2>1, <2>4, <2>5 DEF OneWriter, LTypeOK
  <2>7. \A m, n \in DOMAIN begun' : begun'[m] = begun'[n] => m = n
    BY <2>1, <2>3 DEF BegunOnce
  <2>8. \A u \in Threads : step'[u] = "lock" => \A m \in DOMAIN begun' : begun'[m] # record'[u]
    BY <2>1, <2>3, <2>5 DEF BegunOnce, OneWriter, LTypeOK
  <2>9. \A u \in Threads : step'[u] \in InLock => begun' # <<>> /\ begun'[Len(begun')] = record'[u]
    BY <2>3, <2>4, <2>5 DEF LTypeOK
  <2> QED BY <2>6, <2>7, <2>8, <2>9 DEF BegunOnce
<1>3. ASSUME NEW t \in Threads, step[t] \in InLock, NEW s \in InLock, Goto(t, s),
             UNCHANGED <<lock, record, begun>>
      PROVE  OneWriter' /\ BegunOnce'
  BY <1>3 DEF Goto, OneWriter, BegunOnce, LTypeOK
<1>4. ASSUME NEW t \in Threads, Leave(t), step[t] \in InLock \/ lock = NoThread, UNCHANGED begun
      PROVE  OneWriter' /\ BegunOnce'
  <2>1. \A u \in Threads : u # t => step[u] \notin InLock
    BY <1>4 DEF OneWriter
  <2>2. step' = [step EXCEPT ![t] = "idle"] /\ record' = [record EXCEPT ![t] = NoRecord]
    BY <1>4 DEF Leave, Goto
  <2> QED BY <1>4, <2>1, <2>2 DEF OneWriter, BegunOnce, LTypeOK
<1>5. CASE Crash
  BY <1>5 DEF Crash, OneWriter, BegunOnce
<1>6. CASE UNCHANGED lvars
  BY <1>6 DEF lvars, OneWriter, BegunOnce
<1>7. ASSUME NEW t \in Threads, WriteRecord(t) \/ WriteShort(t) PROVE OneWriter' /\ BegunOnce'
  BY <1>3, <1>7 DEF WriteRecord, WriteShort
<1>8. ASSUME NEW t \in Threads,
             OpenLedgerFails(t) \/ CloseWritesRest(t) \/ CloseFails(t) \/ SyncFails(t) \/ ReturnRecord(t)
      PROVE  OneWriter' /\ BegunOnce'
  BY <1>4, <1>8 DEF OpenLedgerFails, CloseWritesRest, CloseFails, SyncFails, ReturnRecord
<1> QED BY <1>1, <1>2, <1>5, <1>6, <1>7, <1>8 DEF LNext

-----------------------------------------------------------------------------
\* What a thread that has the lock may take for granted of begun and file.
LEMMA Latest ==
    ASSUME LTypeOK, OneWriter, BegunOnce, NEW t \in Threads, step[t] \in InLock
    PROVE  /\ record[t] \in Records /\ record[t] \notin Foreign
           /\ Len(begun) \in DOMAIN begun /\ begun[Len(begun)] = record[t]
           /\ \A m \in DOMAIN begun : m \in Nat /\ m <= Len(begun)
           /\ \A u \in Threads : step[u] \in InLock => u = t
  BY LedgerAssumption DEF LTypeOK, OneWriter, BegunOnce, InLock

\* A record has one piece at most.
LEMMA OnePiece ==
    ASSUME LTypeOK, BegunOnce, InOrder, NEW i \in DOMAIN file, NEW j \in DOMAIN file,
           file[i].of = file[j].of, file[i].of \in Records
    PROVE  i = j
<1>1. i \in Nat /\ j \in Nat /\ \A m \in DOMAIN begun : m \in Nat
  BY DEF LTypeOK
<1>2. ~(i < j) /\ ~(j < i)
  BY <1>1 DEF InOrder, Before, BegunOnce
<1> QED BY <1>1, <1>2

\* A piece written behind the others keeps the order.
LEMMA Extends ==
    ASSUME LTypeOK, OneWriter, BegunOnce, InOrder, NEW t \in Threads, step[t] \in InLock,
           \A i \in DOMAIN file : file[i].of # record[t],
           NEW p \in Pieces, p.of = record[t], file' = Append(file, p), begun' = begun
    PROVE  /\ DOMAIN file' = 1..Len(file) + 1 /\ Len(file') = Len(file) + 1
           /\ DOMAIN file = 1..Len(file) /\ Len(file) \in Nat
           /\ file'[Len(file) + 1] = p /\ \A i \in DOMAIN file : file'[i] = file[i]
           /\ InOrder'
<1>1. /\ DOMAIN file' = 1..Len(file) + 1 /\ Len(file') = Len(file) + 1
      /\ DOMAIN file = 1..Len(file) /\ Len(file) \in Nat
      /\ file'[Len(file) + 1] = p /\ \A i \in DOMAIN file : file'[i] = file[i]
  BY DEF LTypeOK
<1>2. ASSUME NEW i \in DOMAIN file'
      PROVE  IF file'[i].of \in Foreign THEN i = 1 /\ file'[i].form = "ended"
             ELSE \E m \in DOMAIN begun' : begun'[m] = file'[i].of
  <2>1. CASE i = Len(file) + 1
    BY <1>1, <2>1, Latest
  <2>2. CASE i \in DOMAIN file
    BY <1>1, <2>2 DEF InOrder
  <2> QED BY <1>1, <1>2, <2>1, <2>2
<1>3. ASSUME NEW i \in DOMAIN file', NEW j \in DOMAIN file', i < j, file'[i].of \in Records
      PROVE  Before(i, j)'
  <2>1. i \in DOMAIN file /\ file'[i] = file[i]
    BY <1>1, <1>3
  <2>2. CASE j \in DOMAIN file
    BY <1>1, <1>3, <2>1, <2>2 DEF InOrder, Before
  <2>3. CASE j = Len(file) + 1
    <3>1. PICK m \in DOMAIN begun : begun[m] = file[i].of
      BY <1>3, <2>1, LedgerAssumption DEF InOrder
    <3>2. m # Len(begun)
      BY <2>1, <3>1, Latest
    <3>3. m < Len(begun) /\ Len(begun) \in DOMAIN begun /\ begun[Len(begun)] = file'[j].of
      BY <1>1, <2>3, <3>2, Latest
    <3> QED BY <2>1, <3>1, <3>3 DEF Before
  <2> QED BY <1>1, <2>2, <2>3
<1> QED BY <1>1, <1>2, <1>3 DEF InOrder

\* Completing the last piece keeps the order.
LEMMA Completes ==
    ASSUME LTypeOK, OneWriter, BegunOnce, InOrder, NEW t \in Threads, step[t] \in InLock,
           file # <<>>, file[Len(file)].of = record[t],
           file' = [file EXCEPT ![Len(file)] = Ended(record[t])], begun' = begun
    PROVE  /\ DOMAIN file' = DOMAIN file /\ Len(file') = Len(file)
           /\ DOMAIN file = 1..Len(file) /\ Len(file) \in DOMAIN file
           /\ file'[Len(file)] = Ended(record[t])
           /\ \A i \in DOMAIN file : i # Len(file) => file'[i] = file[i]
           /\ InOrder'
<1>1. /\ DOMAIN file' = DOMAIN file /\ Len(file') = Len(file)
      /\ DOMAIN file = 1..Len(file) /\ Len(file) \in DOMAIN file
      /\ file'[Len(file)] = Ended(record[t])
      /\ \A i \in DOMAIN file : i # Len(file) => file'[i] = file[i]
  <2>1. file \in Seq(Pieces) /\ Len(file) \in 1..Len(file)
    BY DEF LTypeOK
  <2>2. Ended(record[t]) \in Pieces
    BY Latest DEF Ended, Pieces
  <2> QED BY <2>1, <2>2, ExceptSeq
<1>2. \A i \in DOMAIN file : file'[i].of = file[i].of
  BY <1>1 DEF Ended
<1>3. \A i \in DOMAIN file : file[i].of \in Foreign => file'[i] = file[i]
  BY <1>1, Latest
<1>4. ASSUME NEW i \in DOMAIN file'
      PROVE  IF file'[i].of \in Foreign THEN i = 1 /\ file'[i].form = "ended"
             ELSE \E m \in DOMAIN begun' : begun'[m] = file'[i].of
  BY <1>1, <1>2, <1>3 DEF InOrder
<1>5. ASSUME NEW i \in DOMAIN file', NEW j \in DOMAIN file', i < j, file'[i].of \in Records
      PROVE  Before(i, j)'
  BY <1>1, <1>2, <1>5 DEF InOrder, Before
<1> QED BY <1>4, <1>5 DEF InOrder

\* A file that stays is as good in the next state, if those in the lock and
\* those that returned know no more of it.
LEMMA Stays ==
    ASSUME OneWriter, BegunOnce, InOrder, InProgress, CutShort,
           file' = file, begun' = begun, cut' = cut,
           \A r \in returned' : r \in returned \/ \E i \in DOMAIN file : file[i] = Ended(r),
           \A u \in Threads : step'[u] \in InLock => step'[u] = step[u] /\ record'[u] = record[u]
    PROVE  InOrder' /\ InProgress' /\ CutShort'
<1>1. InOrder'
  BY DEF InOrder, Before
<1>2. InProgress'
  BY DEF InProgress, InLock
<1>3. CutShort'
  BY DEF CutShort
<1> QED BY <1>1, <1>2, <1>3

\* The file goes on being in order and complete but for what was cut short.
LEMMA FileStep ==
    LTypeOK /\ OneWriter /\ BegunOnce /\ InOrder /\ InProgress /\ CutShort /\ [LNext]_lvars
      => InOrder' /\ InProgress' /\ CutShort'
<1> SUFFICES ASSUME LTypeOK, OneWriter, BegunOnce, InOrder, InProgress, CutShort, [LNext]_lvars
             PROVE  InOrder' /\ InProgress' /\ CutShort'
  OBVIOUS
<1> USE DEF InLock
<1>0. \A u \in Threads : step[u] \in InLock => u # NoThread
  BY LedgerAssumption
<1>a. IsFiniteSet(cut) /\ \A r : IsFiniteSet(cut \cup {r})
  BY FS_AddElement DEF CutShort
<1>1. ASSUME NEW t \in Threads, NEW r \in Records, Begin(t, r) PROVE InOrder' /\ InProgress' /\ CutShort'
  <2>1. \A u \in Threads : u # t => step'[u] = step[u] /\ record'[u] = record[u]
    BY <1>1 DEF Begin, Goto, LTypeOK
  <2>2. step'[t] \notin InLock
    BY <1>1 DEF Begin, Goto, LTypeOK
  <2>3. \A u \in Threads : step'[u] \in InLock => step'[u] = step[u] /\ record'[u] = record[u]
    BY <2>1, <2>2
  <2>4. file' = file /\ begun' = begun /\ cut' = cut /\ returned' = returned
    BY <1>1 DEF Begin
  <2> QED BY <2>3, <2>4, Stays
<1>2. ASSUME NEW t \in Threads, OpenLedger(t) PROVE InOrder' /\ InProgress' /\ CutShort'
  <2>1. step[t] = "lock" /\ record[t] \in Records /\ \A m \in DOMAIN begun : begun[m] # record[t]
    BY <1>2 DEF OpenLedger, OneWriter, BegunOnce
  <2>2. /\ DOMAIN begun \subseteq DOMAIN begun' /\ \A m \in DOMAIN begun : begun'[m] = begun[m]
        /\ file' = file /\ cut' = cut /\ returned' = returned /\ record' = record
    BY <1>2, <2>1 DEF OpenLedger, LTypeOK
  <2>3. InOrder'
    BY <2>2 DEF InOrder, Before
  <2>4. \A i \in DOMAIN file : file[i].of # record[t]
    BY <2>1, LedgerAssumption DEF InOrder
  <2>5. step'[t] = "write" /\ \A u \in Threads : u # t => step'[u] = step[u]
    BY <1>2 DEF OpenLedger, Goto, LTypeOK
  <2>6. InProgress'
    BY <2>2, <2>4, <2>5 DEF InProgress
  <2>7. CutShort'
    BY <2>2 DEF CutShort
  <2> QED BY <2>3, <2>6, <2>7
<1>3. ASSUME NEW t \in Threads, step[t] \in {"write", "close"},
             \A i \in DOMAIN file : file[i].of # record[t],
             NEW p \in {Torn(record[t]), Bare(record[t]), Ended(record[t])}, file' = Append(file, p),
             begun' = begun, returned' = returned,
             (p = Ended(record[t]) /\ cut' = cut) \/ cut' = cut \cup {record[t]},
             \A u \in Threads : step'[u] \in InLock =>
                 /\ u = t /\ record'[t] = record[t]
                 /\ \/ step'[u] = "sync" /\ p = Ended(record[t])
                    \/ step'[u] = "close" /\ record[t] \in cut'
      PROVE  InOrder' /\ InProgress' /\ CutShort'
  <2>1. p \in Pieces /\ p.of = record[t] /\ (p = Ended(record[t]) <=> p.form = "ended")
    BY <1>3, Latest DEF Torn, Bare, Ended, Pieces
  <2>2. /\ DOMAIN file' = 1..Len(file) + 1 /\ Len(file') = Len(file) + 1
        /\ DOMAIN file = 1..Len(file) /\ Len(file) \in Nat
        /\ file'[Len(file) + 1] = p /\ \A i \in DOMAIN file : file'[i] = file[i]
        /\ InOrder'
    BY <1>3, <2>1, Extends
  <2>3. \A i \in DOMAIN file' : i = Len(file') \/ i \in DOMAIN file
    BY <2>2
  <2>4. InProgress'
    BY <1>3, <2>2, <2>3 DEF InProgress
  <2>5. \A i \in DOMAIN file' : file'[i].form # "ended" => file'[i].of \in cut'
    BY <1>3, <2>1, <2>2, <2>3 DEF CutShort
  <2>6. \A r \in returned' : \E i \in DOMAIN file' : file'[i] = Ended(r)
    <3>1. DOMAIN file \subseteq DOMAIN file'
      BY <2>2
    <3> QED BY <1>3, <2>2, <3>1 DEF CutShort
  <2>7. CutShort'
    BY <1>3, <1>a, <2>5, <2>6 DEF CutShort
  <2> QED BY <2>2, <2>4, <2>7
<1>4. ASSUME NEW t \in Threads, WriteRecord(t) PROVE InOrder' /\ InProgress' /\ CutShort'
  <2>1. step[t] = "write" /\ step' = [step EXCEPT ![t] = "sync"] /\ file' = Append(file, Ended(record[t]))
    BY <1>4 DEF WriteRecord, Goto
  <2>2. \A u \in Threads : step'[u] \in InLock => u = t /\ step'[u] = "sync"
    BY <2>1, Latest DEF LTypeOK
  <2>3. \A i \in DOMAIN file : file[i].of # record[t]
    BY <2>1 DEF InProgress
  <2>4. begun' = begun /\ returned' = returned /\ cut' = cut /\ record' = record
    BY <1>4 DEF WriteRecord
  <2> DEFINE p == Ended(record[t])
  <2>5. p \in {Torn(record[t]), Bare(record[t]), Ended(record[t])} /\ file' = Append(file, p)
    BY <2>1
  <2>6. \A u \in Threads : step'[u] \in InLock =>
          /\ u = t /\ record'[t] = record[t]
          /\ \/ step'[u] = "sync" /\ p = Ended(record[t])
             \/ step'[u] = "close" /\ record[t] \in cut'
    BY <2>2, <2>4
  <2>7. p = Ended(record[t]) /\ cut' = cut
    BY <2>4
  <2> HIDE DEF p
  <2> QED BY <1>3, <2>1, <2>3, <2>4, <2>5, <2>6, <2>7
<1>5. ASSUME NEW t \in Threads, WriteShort(t) PROVE InOrder' /\ InProgress' /\ CutShort'
  <2>1. step[t] = "write" /\ step' = [step EXCEPT ![t] = "close"] /\ cut' = cut \cup {record[t]}
    BY <1>5 DEF WriteShort, Goto
  <2>2. \A u \in Threads : step'[u] \in InLock => u = t /\ step'[u] = "close"
    BY <2>1, Latest DEF LTypeOK
  <2>3. \A i \in DOMAIN file : file[i].of # record[t]
    BY <2>1 DEF InProgress
  <2>4. begun' = begun /\ returned' = returned /\ record' = record
    BY <1>5 DEF WriteShort
  <2>5. CASE \E p \in {Torn(record[t]), Bare(record[t])} : file' = Append(file, p)
    BY <1>3, <2>1, <2>2, <2>3, <2>4, <2>5
  <2>6. CASE file' = file
    <3>1. InOrder'
      BY <2>4, <2>6 DEF InOrder, Before
    <3>2. InProgress'
      BY <2>1, <2>2, <2>3, <2>4, <2>6 DEF InProgress
    <3>3. CutShort'
      BY <1>a, <2>1, <2>4, <2>6 DEF CutShort
    <3> QED BY <3>1, <3>2, <3>3
  <2> QED BY <1>5, <2>5, <2>6 DEF WriteShort
<1>6. ASSUME NEW t \in Threads, Leave(t), step[t] \in InLock \/ lock = NoThread
      PROVE  \A u \in Threads : step'[u] \notin InLock
  <2>1. \A u \in Threads : u # t => step[u] \notin InLock
    BY <1>0, <1>6 DEF OneWriter
  <2> QED BY <1>6, <2>1 DEF Leave, Goto, LTypeOK
<1>7. ASSUME NEW t \in Threads, CloseWritesRest(t) PROVE InOrder' /\ InProgress' /\ CutShort'
  <2>1. step[t] = "close" /\ begun' = begun /\ returned' = returned /\ cut' = cut
    BY <1>7 DEF CloseWritesRest
  <2>2. \A u \in Threads : step'[u] \notin InLock
    BY <1>6, <1>7, <2>1 DEF CloseWritesRest
  <2>3. CASE file # <<>> /\ file[Len(file)].of = record[t]
    <3>1. file' = [file EXCEPT ![Len(file)] = Ended(record[t])]
      BY <1>7, <2>3 DEF CloseWritesRest
    <3>2. /\ DOMAIN file' = DOMAIN file /\ Len(file') = Len(file)
          /\ DOMAIN file = 1..Len(file) /\ Len(file) \in DOMAIN file
          /\ file'[Len(file)] = Ended(record[t])
          /\ \A i \in DOMAIN file : i # Len(file) => file'[i] = file[i]
          /\ InOrder'
      BY <2>1, <2>3, <3>1, Completes
    <3>3. \A i \in DOMAIN file' : file'[i].form # "ended" => file'[i].of \in cut'
      BY <2>1, <3>2 DEF CutShort, Ended
    <3>4. ASSUME NEW r \in returned' PROVE \E i \in DOMAIN file' : file'[i] = Ended(r)
      <4>1. PICK i \in DOMAIN file : file[i] = Ended(r)
        BY <2>1, <3>4 DEF CutShort
      <4>2. i = Len(file) => r = record[t]
        BY <2>3, <4>1 DEF Ended
      <4> QED BY <3>2, <4>1, <4>2
    <3>5. CutShort'
      BY <1>a, <2>1, <3>3, <3>4 DEF CutShort
    <3>6. InProgress'
      BY <2>2 DEF InProgress
    <3> QED BY <3>2, <3>5, <3>6
  <2>4. CASE ~(file # <<>> /\ file[Len(file)].of = record[t])
    <3>1. file' = Append(file, Ended(record[t]))
      BY <1>7, <2>4 DEF CloseWritesRest
    <3>2. \A i \in DOMAIN file : file[i].of # record[t]
      BY <2>1, <2>4 DEF InProgress, LTypeOK
    <3> QED BY <1>3, <2>1, <2>2, <3>1, <3>2
  <2> QED BY <2>3, <2>4
<1>8. ASSUME NEW t \in Threads, OpenLedgerFails(t) \/ CloseFails(t) \/ SyncFails(t)
      PROVE  InOrder' /\ InProgress' /\ CutShort'
  <2>1. \A u \in Threads : step'[u] \notin InLock
    BY <1>6, <1>8 DEF OpenLedgerFails, CloseFails, SyncFails
  <2>2. file' = file /\ begun' = begun /\ cut' = cut /\ returned' = returned
    BY <1>8 DEF OpenLedgerFails, CloseFails, SyncFails
  <2> QED BY <2>1, <2>2, Stays
<1>9. ASSUME NEW t \in Threads, ReturnRecord(t) PROVE InOrder' /\ InProgress' /\ CutShort'
  <2>1. \A u \in Threads : step'[u] \notin InLock
    BY <1>6, <1>9 DEF ReturnRecord
  <2>2. \E i \in DOMAIN file : file[i] = Ended(record[t])
    BY <1>9 DEF ReturnRecord, InProgress
  <2>3. \A r \in returned' : r \in returned \/ \E i \in DOMAIN file : file[i] = Ended(r)
    BY <1>9, <2>2 DEF ReturnRecord
  <2>4. file' = file /\ begun' = begun /\ cut' = cut
    BY <1>9 DEF ReturnRecord
  <2> QED BY <2>1, <2>3, <2>4, Stays
<1>10. CASE Crash
  <2>1. (\A u \in Threads : step'[u] \notin InLock) /\ begun' = begun /\ returned' = returned
    BY <1>10 DEF Crash
  <2>2. CASE UNCHANGED <<file, cut>>
    BY <2>1, <2>2, Stays
  <2>3. ASSUME NEW t \in Threads, step[t] = "write", cut' = cut \cup {record[t]},
               NEW p \in {Torn(record[t]), Bare(record[t])}, file' = Append(file, p)
        PROVE  InOrder' /\ InProgress' /\ CutShort'
    <3>1. \A i \in DOMAIN file : file[i].of # record[t]
      BY <2>3 DEF InProgress
    <3> QED BY <1>3, <2>1, <2>3, <3>1
  <2> QED BY <1>10, <2>2, <2>3 DEF Crash
<1>11. CASE UNCHANGED lvars
  BY <1>11, Stays DEF lvars
<1> QED BY <1>1, <1>2, <1>4, <1>5, <1>7, <1>8, <1>9, <1>10, <1>11 DEF LNext

-----------------------------------------------------------------------------
\* What read tells follows from the state of the file.
LEMMA ReadFollows == LedgerInv => ReadTells
<1> SUFFICES ASSUME LedgerInv PROVE ReadTells
  OBVIOUS
<1> USE DEF LedgerInv
<1>0. DOMAIN file = 1..Len(file) /\ Len(file) \in Nat
  BY DEF LTypeOK
<1>1. ASSUME NEW i \in Kept, NEW j \in Kept, i < j
      PROVE  file[i].of # file[j].of /\ Before(i, j)
  <2>1. i \in DOMAIN file /\ j \in DOMAIN file /\ file[i].of \in Records /\ i # j
    BY <1>0, <1>1 DEF Kept, Readable
  <2> QED BY <1>1, <2>1, OnePiece DEF InOrder
<1>2. Read \subseteq Range(begun)
  BY LedgerAssumption DEF Read, Kept, Readable, InOrder, Range
<1>3. Cardinality(returned \ Read) <= Cardinality(cut)
  <2> DEFINE missed == returned \ Read
             Behind(r, i) == /\ i \in DOMAIN file /\ file[i] = Ended(r) /\ i # 1
                             /\ i - 1 \in DOMAIN file /\ file[i - 1].of \in cut
             place == [r \in missed |-> CHOOSE i : Behind(r, i)]
             blame == [r \in missed |-> file[place[r] - 1].of]
  <2>1. ASSUME NEW r \in missed PROVE \E i : Behind(r, i)
    <3>1. PICK i \in DOMAIN file : file[i] = Ended(r)
      BY <2>1 DEF CutShort
    <3>2. r \in Records /\ file[i].of = r /\ file[i].form = "ended"
      BY <2>1, <3>1 DEF LTypeOK, Ended
    <3>3. ~Readable(i)
      BY <2>1, <3>2 DEF Read, Kept
    <3>4. i # 1 /\ file[i - 1].form # "ended"
      BY <3>2, <3>3 DEF Readable
    <3>5. i - 1 \in DOMAIN file
      BY <1>0, <3>4
    <3> QED BY <3>1, <3>4, <3>5 DEF CutShort
  <2>2. ASSUME NEW r \in missed PROVE Behind(r, place[r])
    BY <2>1
  <2> HIDE DEF place, missed
  <2>3. blame \in [missed -> cut]
    BY <2>2
  <2>4. ASSUME NEW r \in missed, NEW q \in missed, blame[r] = blame[q] PROVE r = q
    <3>1. place[r] - 1 = place[q] - 1
      <4>1. /\ place[r] - 1 \in DOMAIN file /\ place[q] - 1 \in DOMAIN file
            /\ file[place[r] - 1].of = file[place[q] - 1].of /\ file[place[r] - 1].of \in Records
        BY <2>2, <2>4 DEF LTypeOK
      <4> QED BY <4>1, OnePiece
    <3>2. place[r] = place[q]
      BY <1>0, <2>2, <3>1
    <3>3. Ended(r) = Ended(q)
      BY <2>2, <3>2
    <3> QED BY <3>3 DEF Ended
  <2>5. blame \in Injection(missed, cut)
    BY <2>3, <2>4 DEF Injection, IsInjective
  <2> QED BY <2>5, FS_Injection DEF CutShort, missed
<1> QED BY <1>1, <1>2, <1>3 DEF ReadTells, Before

\* What can be read stays readable in a step, or was cut short.
LEMMA ReadableStep ==
    ASSUME LedgerInv, [LNext]_lvars, NEW r \in Read
    PROVE  r \in Read' \/ r \in cut
<1> USE DEF LedgerInv
<1>0. DOMAIN file = 1..Len(file) /\ Len(file) \in Nat
  BY DEF LTypeOK
<1>1. PICK i \in DOMAIN file : Readable(i) /\ file[i].of = r
  BY DEF Read, Kept
<1>2. file[i].form = "ended" \/ r \in cut
  BY <1>1 DEF CutShort
<1>3. CASE file[i].form = "ended"
  <2>1. ASSUME i \in DOMAIN file', file'[i] = file[i], i = 1 \/ file'[i - 1] = file[i - 1] PROVE r \in Read'
    BY <1>1, <1>3, <2>1 DEF Read, Kept, Readable
  <2>2. ASSUME NEW p, file' = Append(file, p) PROVE r \in Read'
    <3>1. DOMAIN file' = 1..Len(file) + 1 /\ \A j \in DOMAIN file : file'[j] = file[j]
      BY <2>2 DEF LTypeOK
    <3> QED BY <1>0, <2>1, <3>1
  <2>3. CASE file' = file
    BY <2>1, <2>3
  <2>4. ASSUME NEW t \in Threads, CloseWritesRest(t), file # <<>>, file[Len(file)].of = record[t]
        PROVE  r \in Read'
    <3>1. step[t] \in InLock /\ begun' = begun /\ file' = [file EXCEPT ![Len(file)] = Ended(record[t])]
      BY <2>4 DEF CloseWritesRest, InLock
    <3>2. /\ DOMAIN file' = DOMAIN file /\ file'[Len(file)] = Ended(record[t])
          /\ \A j \in DOMAIN file : j # Len(file) => file'[j] = file[j]
      BY <2>4, <3>1, Completes
    <3>3. CASE i = Len(file)
      <4>1. file'[i] = Ended(r) /\ (i = 1 \/ file'[i - 1] = file[i - 1])
        BY <1>0, <1>1, <2>4, <3>2, <3>3
      <4> QED BY <1>1, <3>2, <4>1 DEF Read, Kept, Readable, Ended
    <3>4. CASE i # Len(file)
      BY <1>0, <2>1, <3>2, <3>4
    <3> QED BY <3>3, <3>4
  <2>5. \/ file' = file \/ \E p : file' = Append(file, p)
        \/ \E t \in Threads : CloseWritesRest(t) /\ file # <<>> /\ file[Len(file)].of = record[t]
    BY DEF LNext, Begin, OpenLedger, OpenLedgerFails, WriteRecord, WriteShort, CloseWritesRest,
           CloseFails, SyncFails, ReturnRecord, Crash, lvars
  <2> QED BY <2>2, <2>3, <2>4, <2>5
<1> QED BY <1>2, <1>3

-----------------------------------------------------------------------------
\* The invariant holds in every state.
THEOREM LedgerInvariance == LSpec => []LedgerInv
<1>1. LedgerInv /\ [LNext]_lvars => LedgerInv'
  BY TypeStep, WriterStep, FileStep DEF LedgerInv
<1> QED BY <1>1, LedgerInit, PTL DEF LSpec

\* Every variable has its type in every reachable state.
THEOREM LedgerTypeCorrect == LSpec => []LTypeOK
<1>1. LedgerInv => LTypeOK
  BY DEF LedgerInv
<1> QED BY <1>1, LedgerInvariance, PTL

\* Whatever appends are cut short and wherever the process dies, read returns
\* each record once and in the order of the appends, and misses at most one
\* returned record for each append cut short (Ledger.append and Ledger.read).
THEOREM ReadIsTrue == LSpec => []ReadTells
<1> QED BY ReadFollows, LedgerInvariance, PTL

\* No later append, failed or not, hides a record that read returned, unless
\* that record's own append was cut short (Ledger.append and Ledger.read).
THEOREM ReadableIsFinal == LSpec => ReadableStays
<1>1. LedgerInv /\ [LNext]_lvars => \A r \in Read : r \in Read' \/ r \in cut
  BY ReadableStep
<1> QED BY <1>1, LedgerInvariance, PTL DEF LSpec, ReadableStays
=============================================================================
