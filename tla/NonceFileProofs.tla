--------------------------- MODULE NonceFileProofs ---------------------------
(* Proofs about NonceFile, on top of those about every StoreFile, and about *)
(* SignerOnFile, on top of these and of those about Signer.                *)
EXTENDS SignerOnFile, TLAPS

Store == INSTANCE StoreFileProofs WITH
    Documents <- NonceDocs, Initial <- FirstDocs, Operations <- Reserves,
    Refuses <- RefusesReserve, Apply <- ReserveIn, Answer <- ReservedNonce,
    Answers <- 1..MaxNonce, NoAnswer <- 0

\* A reservation that is not refused leaves a nonce document and answers a nonce.
LEMMA ReserveTyped ==
    ASSUME NEW d \in NonceDocs, NEW o \in Reserves, ~RefusesReserve(d, o)
    PROVE  ReserveIn(d, o) \in NonceDocs /\ ReservedNonce(d, o) \in 1..MaxNonce
<1> USE NonceFileAssumption
<1> USE DEF NonceDocs, Reservations, NoRes, Known, NextIn, RefusesReserve
<1>1. CASE Known(d, o)
  BY <1>1 DEF ReserveIn, ReservedNonce
<1>2. CASE ~Known(d, o)
  <2>1. d.counters[o.lane] + 1 \in 1..MaxNonce
    BY <1>2
  <2>2. [lane |-> o.lane, nonce |-> d.counters[o.lane] + 1] \in Reservations
    BY <2>1
  <2>3. ReserveIn(d, o).counters \in [Lanes -> 0..MaxNonce]
    BY <1>2, <2>1 DEF ReserveIn
  <2>4. ReserveIn(d, o).requests \in [Ids -> Reservations]
    BY <1>2, <2>2 DEF ReserveIn
  <2>5. ReserveIn(d, o).form \in Forms
    BY <1>2 DEF ReserveIn, Forms
  <2>6. ReserveIn(d, o) = [form |-> ReserveIn(d, o).form, counters |-> ReserveIn(d, o).counters,
                           requests |-> ReserveIn(d, o).requests]
    BY <1>2 DEF ReserveIn
  <2> QED BY <1>2, <2>1, <2>3, <2>4, <2>5, <2>6 DEF ReservedNonce
<1> QED BY <1>1, <1>2

\* The nonce document meets what StoreFile assumes of a document.
LEMMA StoreAssumed == Store!StoreAssumption
BY NonceFileAssumption, TornIsNoDocument, ReserveTyped DEF Store!StoreAssumption, FirstDocs

\* NonceFile's behaviours are those of the store that StoreFileProofs is about.
LEMMA SameInit == SInit => Store!SInit
BY DEF SInit, Store!SInit

LEMMA SameStep == [SNext]_svars => [Store!SNext]_(Store!svars)
BY DEF SNext, Store!SNext, svars, Store!svars, Proceed, Store!Proceed, Go, Store!Go, End, Store!End,
       FreeMutex, Store!FreeMutex, Begin, Store!Begin, TakeMutex, Store!TakeMutex,
       OpenLockFile, Store!OpenLockFile, OpenFails, Store!OpenFails, TakeLock, Store!TakeLock,
       ReadDocument, Store!ReadDocument, OpenTemp, Store!OpenTemp, FlushTemp, Store!FlushTemp,
       Replace, Store!Replace, IOFails, Store!IOFails, Unlock, Store!Unlock,
       UnlockFails, Store!UnlockFails, Release, Store!Release, Crash, Store!Crash, Writing, Store!Writing

-----------------------------------------------------------------------------
\* A reservation keeps reservations apart and behind their counters, lets no
\* counter fall and moves no reservation; its answer is the recorded nonce or
\* a new one above the counter.
Distinct(d) ==
    /\ \A i, j \in Ids : i # j /\ d.requests[i] # NoRes => d.requests[i] # d.requests[j]
    /\ \A i \in Ids : d.requests[i] # NoRes => d.requests[i].nonce <= d.counters[d.requests[i].lane]

LEMMA ReserveDistinct ==
    ASSUME NEW d \in NonceDocs, NEW o \in Reserves, ~RefusesReserve(d, o), Distinct(d)
    PROVE  Distinct(ReserveIn(d, o))
<1> USE NonceFileAssumption
<1> USE DEF NonceDocs, Reservations, NoRes, Known, NextIn, RefusesReserve, Distinct
<1>1. CASE Known(d, o)
  BY <1>1 DEF ReserveIn
<1>2. CASE ~Known(d, o)
  <2> DEFINE e == ReserveIn(d, o)
  <2>1. e.counters = [d.counters EXCEPT ![o.lane] = @ + 1]
    BY <1>2 DEF ReserveIn
  <2>2. e.requests = [d.requests EXCEPT ![o.id] = [lane |-> o.lane, nonce |-> d.counters[o.lane] + 1]]
    BY <1>2 DEF ReserveIn
  <2> HIDE DEF e
  <2>3. \A i \in Ids : e.requests[i] # NoRes => e.requests[i].nonce <= e.counters[e.requests[i].lane]
    BY <2>1, <2>2
  <2>4. \A i, j \in Ids : i # j /\ e.requests[i] # NoRes => e.requests[i] # e.requests[j]
    BY <2>2
  <2> QED BY <2>3, <2>4 DEF e
<1> QED BY <1>1, <1>2

LEMMA ReserveRises ==
    ASSUME NEW d \in NonceDocs, NEW o \in Reserves, ~RefusesReserve(d, o)
    PROVE  /\ \A l \in Lanes : ReserveIn(d, o).counters[l] >= d.counters[l]
           /\ \A i \in Ids : d.requests[i] # NoRes => ReserveIn(d, o).requests[i] = d.requests[i]
           /\ Known(d, o) => ReservedNonce(d, o) = d.requests[o.id].nonce
           /\ ~Known(d, o) => ReservedNonce(d, o) > d.counters[o.lane]
BY NonceFileAssumption DEF NonceDocs, Known, NextIn, ReserveIn, ReservedNonce

\* A step that changes the file or an answer is a reservation of the thread's
\* operation in the document the file holds.
LEMMA StepReserves ==
    ASSUME Store!SInv, [Store!SNext]_(Store!svars)
    PROVE  /\ \/ file' = file
              \/ \E t \in Threads : /\ op[t] \in Reserves /\ ~RefusesReserve(file, op[t])
                                    /\ file' = ReserveIn(file, op[t])
           /\ \A t \in Threads : answer'[t] # answer[t] /\ answer'[t] # 0 =>
                 /\ op[t] \in Reserves /\ ~RefusesReserve(file, op[t])
                 /\ answer'[t] = ReservedNonce(file, op[t])
<1> DEFINE Writes == \E t \in Threads : /\ op[t] \in Reserves /\ ~RefusesReserve(file, op[t])
                                        /\ file' = ReserveIn(file, op[t])
           Answered == \A t \in Threads : answer'[t] # answer[t] /\ answer'[t] # 0 =>
                         /\ op[t] \in Reserves /\ ~RefusesReserve(file, op[t])
                         /\ answer'[t] = ReservedNonce(file, op[t])
<1> USE DEF Store!SInv, Store!STypeOK
<1>1. ASSUME NEW t \in Threads, Store!ReadDocument(t) PROVE file' = file /\ Answered
  BY <1>1 DEF Store!ReadDocument, Store!Decided, Store!NeverTorn
<1>2. ASSUME NEW t \in Threads, Store!Replace(t) PROVE Writes /\ Answered
  BY <1>2 DEF Store!Replace, Store!Decided, Store!NothingLost, Store!Writing
<1>3. ASSUME NEW ts, Store!End(ts), file' = file PROVE file' = file /\ Answered
  BY <1>3 DEF Store!End
<1>4. ASSUME NEW t \in Threads, Store!OpenFails(t) \/ Store!UnlockFails(t) \/ Store!Release(t)
      PROVE  file' = file /\ Answered
  BY <1>3, <1>4 DEF Store!OpenFails, Store!UnlockFails, Store!Release
<1>5. ASSUME NEW p \in Processes, Store!Crash(p) PROVE file' = file /\ Answered
  BY <1>3, <1>5 DEF Store!Crash
<1>6. ASSUME NEW t \in Threads,
             (\E o \in Reserves : Store!Begin(t, o)) \/ Store!TakeMutex(t) \/ Store!OpenLockFile(t)
               \/ Store!TakeLock(t) \/ Store!OpenTemp(t) \/ Store!FlushTemp(t) \/ Store!IOFails(t)
               \/ Store!Unlock(t)
      PROVE  file' = file /\ Answered
  BY <1>6 DEF Store!Begin, Store!TakeMutex, Store!OpenLockFile, Store!TakeLock, Store!OpenTemp,
              Store!FlushTemp, Store!IOFails, Store!Unlock
<1>7. CASE UNCHANGED Store!svars
  BY <1>7 DEF Store!svars
<1> QED
  BY <1>1, <1>2, <1>4, <1>5, <1>6, <1>7 DEF Store!SNext, Store!Proceed

-----------------------------------------------------------------------------
\* Store's invariant holds of NonceFile.
THEOREM NonceStoreInvariance == SSpec => []Store!SInv
<1>1. Store!SInit => Store!SInv
  BY Store!InitSInv, StoreAssumed
<1>2. Store!SInv /\ [Store!SNext]_(Store!svars) => Store!SInv'
  BY Store!StepSInv, StoreAssumed
<1> QED BY <1>1, <1>2, SameInit, SameStep, PTL DEF SSpec

\* The nonce store's state is typed, and its locks exclude and are given back.
THEOREM NonceLocksAreKept == SSpec => [](STypeOK /\ LocksKept)
<1>1. Store!SInv => STypeOK /\ LocksKept
  BY DEF Store!SInv, Store!STypeOK, STypeOK, Store!LocksKept, LocksKept,
         Store!Holding, Holding, Store!Inside, Inside, Store!Writing, Writing
<1> QED BY <1>1, NonceStoreInvariance, PTL

\* nonces.json with its locks, renames, failures and crashes is an atomic store.
THEOREM NonceStoreIsAtomic == SSpec => KeepsAtomic
<1>1. SInit => Atomic!AInit
  BY DEF SInit, Atomic!AInit
<1>2. Store!SInv /\ [SNext]_svars => [Atomic!ANext]_(Atomic!avars)
  BY SameStep, Store!StepIsAtomic
     DEF Store!Atomic!ANext, Atomic!ANext, Store!Atomic!avars, Atomic!avars,
         Store!Atomic!Do, Atomic!Do, Store!Atomic!Drop, Atomic!Drop
<1> QED BY <1>1, <1>2, NonceStoreInvariance, PTL DEF SSpec, KeepsAtomic, Atomic!ASpec

\* No nonce of a lane is reserved twice, and none ahead of its counter.
THEOREM ReservationsAreDistinct == SSpec => []ReservationsDistinct
<1>1. SInit => ReservationsDistinct
  BY DEF SInit, FirstDocs, ReservationsDistinct
<1>2. Store!SInv /\ ReservationsDistinct /\ [SNext]_svars => ReservationsDistinct'
  <2> SUFFICES ASSUME Store!SInv, ReservationsDistinct, [SNext]_svars PROVE ReservationsDistinct'
    OBVIOUS
  <2>1. file \in NonceDocs /\ Distinct(file)
    BY DEF Store!SInv, Store!STypeOK, Store!NeverTorn, ReservationsDistinct, Distinct
  <2>2. Distinct(file)'
    BY <2>1, StepReserves, SameStep, ReserveDistinct
  <2> QED BY <2>2 DEF ReservationsDistinct, Distinct
<1> QED BY <1>1, <1>2, NonceStoreInvariance, PTL DEF SSpec

\* No counter falls and no reservation moves, in any process, wherever calls
\* fail or die; a call is given its reservation or a nonce above its lane's.
THEOREM NoncesRise == SSpec => NoncesOnlyRise
<1> DEFINE Rise ==
      /\ \A l \in Lanes : file'.counters[l] >= file.counters[l]
      /\ \A i \in Ids : file.requests[i] # NoRes => file'.requests[i] = file.requests[i]
      /\ \A t \in Threads : LET o == op[t] IN
           answer'[t] # answer[t] /\ answer'[t] # 0 =>
               IF Known(file, o) THEN answer'[t] = file.requests[o.id].nonce
               ELSE answer'[t] > file.counters[o.lane]
<1>1. Store!SInv /\ [SNext]_svars => Rise
  <2> SUFFICES ASSUME Store!SInv, [SNext]_svars PROVE Rise
    OBVIOUS
  <2>1. file \in NonceDocs
    BY DEF Store!SInv, Store!STypeOK, Store!NeverTorn
  <2>2. \A l \in Lanes : file.counters[l] >= file.counters[l]
    BY <2>1, NonceFileAssumption DEF NonceDocs
  <2> QED BY <2>1, <2>2, StepReserves, SameStep, ReserveRises
<1> QED BY <1>1, NonceStoreInvariance, PTL DEF SSpec, NoncesOnlyRise

-----------------------------------------------------------------------------
(* The signed-write path over the file.                                    *)

\* The signer the callers are seen as, with what is proved of it.
Path == INSTANCE SignerProofs WITH counter <- Counters, reserved <- Reserved,
                                   pc <- SeenPc, held <- SeenHeld

\* The invariant, said of the instances the proofs are about.
PInv == Store!SInv /\ Path!Inv /\ CallsMatch /\ LanesMatch

\* The constants are what Signer assumes of its own.
LEMMA SignerAssumed ==
    /\ Path!LaneAssumption /\ Path!NonceAssumption
    /\ Path!ModeAssumption /\ Path!SentinelAssumption
BY CallerAssumption, NonceFileAssumption
   DEF Path!LaneAssumption, Path!NonceAssumption, Path!ModeAssumption, Path!SentinelAssumption

\* What the document says of a draft is what Signer sees of it.
LEMMA SeenReservations ==
    ASSUME PInv, NEW r \in Requests
    PROVE  /\ file \in NonceDocs /\ file.counters \in [Lanes -> 0..MaxNonce]
           /\ LaneOf[r] \in Lanes /\ CallOf(r) \in Reserves
           /\ Reserved[r] = file.requests[r].nonce
           /\ Reserved[r] = 0 <=> file.requests[r] = NoRes
           /\ Known(file, CallOf(r)) <=> file.requests[r] # NoRes
<1>1. file \in NonceDocs
  BY DEF PInv, Store!SInv, Store!STypeOK, Store!NeverTorn
<1>2. r \in Ids /\ r # NoId /\ LaneOf[r] \in Lanes /\ CallOf(r) \in Reserves
  BY CallerAssumption, NonceFileAssumption
<1>3. file.requests[r] \in Reservations /\ file.counters \in [Lanes -> 0..MaxNonce]
  BY <1>1, <1>2 DEF NonceDocs
<1>4. file.requests[r].nonce = 0 <=> file.requests[r] = NoRes
  BY <1>3, NonceFileAssumption DEF Reservations, NoRes
<1> QED BY <1>1, <1>2, <1>3, <1>4 DEF Reserved, Known, CallOf

\* Only a caller that waits has an answer, and while it waits it is a caller.
LEMMA Waiting ==
    ASSUME PInv, NEW w \in Workers
    PROVE  /\ w \in Threads
           /\ step[w] # "idle" => pc[w] = "reserve" /\ req[w] \in Requests /\ op[w] = CallOf(req[w])
           /\ pc[w] = "reserve" => req[w] \in Requests
           /\ pc[w] # "reserve" => step[w] = "idle"
           /\ step[w] = "idle" => answer[w] = 0
           /\ answer[w] # 0 => pc[w] = "reserve"
           /\ answer[w] \in 0..MaxNonce
<1>1. w \in Threads /\ answer[w] \in 0..MaxNonce
  BY CallerAssumption, NonceFileAssumption DEF PInv, Store!SInv, Store!STypeOK
<1>2. step[w] = "idle" => answer[w] = 0
  BY <1>1 DEF PInv, Store!SInv, Store!Decided
<1>3. SeenPc[w] = IF answer[w] # 0 THEN "bind" ELSE pc[w]
  BY DEF SeenPc
<1>4. pc[w] = "reserve" => req[w] \in Requests
  BY <1>3 DEF PInv, Path!Inv, Path!CallsRun
<1> QED BY <1>1, <1>2, <1>4 DEF PInv, CallsMatch

\* What the callers do by themselves shows as it is.
LEMMA SeenAsItIs ==
    ASSUME PInv, answer' = answer
    PROVE  /\ pc' = pc => SeenPc' = SeenPc
           /\ held' = held => SeenHeld' = SeenHeld
           /\ \A w \in Workers : pc[w] # "reserve" =>
                /\ SeenPc[w] = pc[w] /\ SeenHeld[w] = held[w]
                /\ \A x : pc' = [pc EXCEPT ![w] = x] => SeenPc' = [SeenPc EXCEPT ![w] = x]
                /\ \A x : held' = [held EXCEPT ![w] = x] => SeenHeld' = [SeenHeld EXCEPT ![w] = x]
<1>1. (pc' = pc => SeenPc' = SeenPc) /\ (held' = held => SeenHeld' = SeenHeld)
  BY DEF SeenPc, SeenHeld
<1>2. ASSUME NEW w \in Workers, pc[w] # "reserve"
      PROVE  /\ SeenPc[w] = pc[w] /\ SeenHeld[w] = held[w]
             /\ \A x : pc' = [pc EXCEPT ![w] = x] => SeenPc' = [SeenPc EXCEPT ![w] = x]
             /\ \A x : held' = [held EXCEPT ![w] = x] => SeenHeld' = [SeenHeld EXCEPT ![w] = x]
  <2>1. answer[w] = 0 /\ pc \in [Workers -> Caller!Steps \cup {"idle"}] /\ held \in [Workers -> 0..MaxNonce]
    BY <1>2, Waiting DEF PInv, CallsMatch
  <2> QED BY <1>2, <2>1 DEF SeenPc, SeenHeld
<1> QED BY <1>1, <1>2

\* Calls that die drop out of sight, with any answer they have.
LEMMA SeenAbort ==
    ASSUME PInv, NEW ws \in SUBSET Workers, Caller!Abort(ws),
           \A w \in Workers \ ws : answer'[w] = answer[w],
           \A w \in ws : answer'[w] = 0
    PROVE  Path!Abort(ws)
<1>1. SeenPc' = [w \in Workers |-> IF w \in ws THEN "idle" ELSE SeenPc[w]]
  BY DEF SeenPc, Caller!Abort
<1>2. SeenHeld' = [w \in Workers |-> IF w \in ws THEN Path!NoNonce ELSE SeenHeld[w]]
  BY DEF SeenHeld, Caller!Abort, Caller!NoNonce, Path!NoNonce
<1> QED
  BY <1>1, <1>2 DEF Caller!Abort, Path!Abort, Caller!nonceVars, Path!nonceVars, Caller!opVars, Path!opVars,
     Caller!netVars, Path!netVars

\* The steps of Signer away from reserve are Signer's steps as they are seen.
LEMMA ElsewhereIsSigner ==
    ASSUME PInv, NEW w \in Workers, RunElsewhere(w)
    PROVE  Path!Next
<1>0. /\ pc[w] # "reserve" /\ answer' = answer
      /\ SeenPc[w] = pc[w] /\ SeenHeld[w] = held[w]
      /\ pc' = pc => SeenPc' = SeenPc
      /\ held' = held => SeenHeld' = SeenHeld
      /\ \A x : pc' = [pc EXCEPT ![w] = x] => SeenPc' = [SeenPc EXCEPT ![w] = x]
      /\ \A x : held' = [held EXCEPT ![w] = x] => SeenHeld' = [SeenHeld EXCEPT ![w] = x]
  BY SeenAsItIs DEF RunElsewhere, fileVars
<1> USE DEF Caller!nonceVars, Caller!opVars, Caller!netVars, Caller!callVars,
            Path!nonceVars, Path!opVars, Path!netVars, Path!callVars
<1> USE DEF Caller!Goto, Path!Goto, Caller!Return, Path!Return, Caller!NoNonce, Path!NoNonce
<1>1. ASSUME NEW r \in Requests, Caller!ExecuteRoom(w, r) PROVE Path!ExecuteRoom(w, r)
  BY <1>0, <1>1 DEF Caller!ExecuteRoom, Path!ExecuteRoom, Caller!Call, Path!Call
<1>2. ASSUME NEW r \in Requests, Caller!ReconcileRoom(w, r) PROVE Path!ReconcileRoom(w, r)
  BY <1>0, <1>2 DEF Caller!ReconcileRoom, Path!ReconcileRoom, Caller!Call, Path!Call
<1>3. CASE Caller!Abort({w})
  BY <1>0, <1>3, SeenAbort, Waiting DEF Path!Next
<1>4. CASE Caller!CreateOperation(w)
  <2>1. Path!CreateOperation(w)
    BY <1>0, <1>4 DEF Caller!CreateOperation, Path!CreateOperation
  <2> QED BY <2>1 DEF Path!Next, Path!Run, Path!Execute
<1>5. CASE Caller!ResumeOperation(w)
  <2>1. Path!ResumeOperation(w)
    BY <1>0, <1>5 DEF Caller!ResumeOperation, Path!ResumeOperation
  <2> QED BY <2>1 DEF Path!Next, Path!Run, Path!Execute
<1>6. CASE Caller!ReturnRecorded(w)
  <2>1. Path!ReturnRecorded(w)
    BY <1>0, <1>6 DEF Caller!ReturnRecorded, Path!ReturnRecorded
  <2> QED BY <2>1 DEF Path!Next, Path!Run, Path!Execute
<1>7. CASE Caller!ReserveNonce(w) \/ Caller!ReuseReservation(w) \/ Caller!NonceExhausted(w)
  BY <1>0, <1>7 DEF Caller!ReserveNonce, Caller!ReuseReservation, Caller!NonceExhausted
<1>8. CASE Caller!BindNonce(w)
  <2>1. Path!BindNonce(w)
    BY <1>0, <1>8 DEF Caller!BindNonce, Path!BindNonce
  <2> QED BY <2>1 DEF Path!Next, Path!Run, Path!Execute
<1>9. CASE Caller!RecordSignature(w)
  <2>1. Path!RecordSignature(w)
    BY <1>0, <1>9 DEF Caller!RecordSignature, Path!RecordSignature
  <2> QED BY <2>1 DEF Path!Next, Path!Run, Path!Execute
<1>10. CASE Caller!MarkSigned(w) \/ Caller!MarkStarted(w)
  <2>1. Path!MarkSigned(w) \/ Path!MarkStarted(w)
    BY <1>0, <1>10 DEF Caller!MarkSigned, Path!MarkSigned, Caller!MarkStarted, Path!MarkStarted,
       Caller!Transition, Path!Transition, Caller!CanMove, Path!CanMove,
       Caller!OpStates, Path!OpStates, Caller!Allowed, Path!Allowed
  <2> QED BY <2>1 DEF Path!Next, Path!Run, Path!Execute
<1>11. CASE Caller!RefuseRoom(w)
  <2>1. Path!RefuseRoom(w)
    BY <1>0, <1>11 DEF Caller!RefuseRoom, Path!RefuseRoom, Caller!Learn, Path!Learn
  <2> QED BY <2>1 DEF Path!Next, Path!Run, Path!Execute, Path!Transmit, Path!RefuseRoom
<1>12. CASE Caller!Post(w)
  <2>1. Path!Post(w)
    BY <1>0, <1>12 DEF Caller!Post, Path!Post
  <2> QED BY <2>1 DEF Path!Next, Path!Run, Path!Execute, Path!Transmit, Path!Submit, Path!Post
<1>13. CASE Caller!RecordOffline(w)
  <2>1. Path!RecordOffline(w)
    BY <1>0, <1>13 DEF Caller!RecordOffline, Path!RecordOffline, Caller!Learn, Path!Learn,
       Caller!Outcomes, Path!Outcomes
  <2> QED BY <2>1 DEF Path!Next, Path!Run, Path!Execute, Path!Transmit, Path!Submit, Path!RecordOffline
<1>14. CASE Caller!ReadReceipt(w) \/ Caller!ReadRefusal(w) \/ Caller!GiveUp(w)
  <2>1. Path!ReadReceipt(w) \/ Path!ReadRefusal(w) \/ Path!GiveUp(w)
    BY <1>0, <1>14 DEF Caller!ReadReceipt, Path!ReadReceipt, Caller!ReadRefusal, Path!ReadRefusal,
       Caller!GiveUp, Path!GiveUp, Caller!Learn, Path!Learn
  <2> QED BY <2>1 DEF Path!Next, Path!Run, Path!Execute
<1>15. ASSUME NEW s, Caller!Settle(w, s) PROVE Path!Settle(w, s)
  BY <1>0, <1>15 DEF Caller!Settle, Path!Settle, Caller!CanMove, Path!CanMove, Caller!OpStates, Path!OpStates,
     Caller!Allowed, Path!Allowed, Caller!HasReceipt, Path!HasReceipt, Caller!Terminal, Path!Terminal
<1>16. CASE Caller!Resolve(w)
  <2>1. Path!Resolve(w)
    BY <1>0, <1>15, <1>16 DEF Caller!Resolve, Path!Resolve, Caller!StateFor, Path!StateFor
  <2> QED BY <2>1 DEF Path!Next, Path!Run, Path!Execute
<1>17. CASE Caller!AppendEvidence(w)
  <2>1. Path!AppendEvidence(w)
    BY <1>0, <1>17 DEF Caller!AppendEvidence, Path!AppendEvidence
  <2> QED BY <2>1 DEF Path!Next, Path!Run, Path!Execute
<1>18. CASE Caller!QueryRoom(w) \/ Caller!QueryInconclusive(w)
  <2>1. Path!QueryRoom(w) \/ Path!QueryInconclusive(w)
    BY <1>0, <1>18 DEF Caller!QueryRoom, Path!QueryRoom, Caller!QueryInconclusive, Path!QueryInconclusive,
       Caller!Findings, Path!Findings
  <2> QED BY <2>1 DEF Path!Next, Path!Run, Path!Reconcile
<1>19. CASE Caller!MarkReconciled(w)
  <2>1. Path!MarkReconciled(w)
    BY <1>0, <1>15, <1>19 DEF Caller!MarkReconciled, Path!MarkReconciled
  <2> QED BY <2>1 DEF Path!Next, Path!Run, Path!Reconcile
<1>20. CASE \E r \in Requests : Caller!ExecuteRoom(w, r) \/ Caller!ReconcileRoom(w, r)
  BY <1>1, <1>2, <1>20 DEF Path!Next
<1> QED
  BY <1>3, <1>4, <1>5, <1>6, <1>7, <1>8, <1>9, <1>10, <1>11, <1>12, <1>13, <1>14, <1>16, <1>17,
     <1>18, <1>19, <1>20
  DEF RunElsewhere, Caller!Run, Caller!Execute, Caller!Transmit, Caller!Submit, Caller!Reconcile

\* So are those of the room.
LEMMA RoomIsSigner ==
    ASSUME PInv, RoomElsewhere PROVE Path!Next
<1>1. answer' = answer /\ Caller!Room
  BY DEF RoomElsewhere, fileVars
<1>2. ASSUME NEW p \in wire PROVE Caller!Listening(p) <=> Path!Listening(p)
  <2>1. p.by \in Workers
    BY DEF PInv, Path!Inv, Path!TypeOK, Path!Posts
  <2>2. pc[p.by] = "await" <=> SeenPc[p.by] = "await"
    BY <2>1, Waiting DEF SeenPc
  <2> QED BY <2>2 DEF Caller!Listening, Path!Listening
<1>3. UNCHANGED <<pc, held>> => UNCHANGED <<SeenPc, SeenHeld>>
  BY <1>1, SeenAsItIs
<1>4. ASSUME NEW p \in wire, Caller!RoomStores(p) PROVE Path!RoomStores(p)
  BY <1>2, <1>3, <1>4 DEF Caller!RoomStores, Path!RoomStores, Caller!nonceVars, Path!nonceVars,
     Caller!opVars, Path!opVars
<1>5. ASSUME NEW p \in wire, Caller!RoomRefuses(p) PROVE Path!RoomRefuses(p)
  BY <1>2, <1>3, <1>5 DEF Caller!RoomRefuses, Path!RoomRefuses, Caller!nonceVars, Path!nonceVars,
     Caller!opVars, Path!opVars
<1> QED BY <1>1, <1>4, <1>5 DEF Caller!Room, Path!Room, Path!Next

\* A call that gets its answer is one step of Signer: it takes the next nonce
\* of the lane or is given the one its draft has; for a thread that reserves
\* for itself the lane moves on, and that is all Signer sees.
Answers(t) ==
    /\ op[t] \in Reserves /\ ~RefusesReserve(file, op[t])
    /\ step[t] # "idle" /\ answer[t] = 0
    /\ file' = ReserveIn(file, op[t])
    /\ answer' = [answer EXCEPT ![t] = ReservedNonce(file, op[t])]
    /\ UNCHANGED callerVars

\* The answer of a draft's own call.
LEMMA AnswerForDraft ==
    ASSUME PInv, NEW w \in Workers, Answers(w)
    PROVE  Path!ReserveNonce(w) \/ Path!ReuseReservation(w)
<1> DEFINE r == req[w]
           n == ReservedNonce(file, CallOf(r))
<1>1. /\ pc[w] = "reserve" /\ r \in Requests /\ op[w] = CallOf(r) /\ w \in Threads
      /\ answer \in [Threads -> 0..MaxNonce]
    BY Waiting DEF Answers, PInv, Store!SInv, Store!STypeOK
<1>2. SeenPc[w] = "reserve"
  BY <1>1 DEF Answers, SeenPc
<1>3. n \in 1..MaxNonce /\ answer' = [answer EXCEPT ![w] = n]
  BY <1>1, SeenReservations, ReserveTyped DEF Answers
<1>4. /\ SeenPc' = [SeenPc EXCEPT ![w] = "bind"]
      /\ SeenHeld' = [SeenHeld EXCEPT ![w] = n]
  <2> HIDE DEF n
  <2>1. n # 0 /\ answer \in [Threads -> 0..MaxNonce] /\ pc' = pc /\ held' = held
    BY <1>1, <1>3 DEF Answers, callerVars
  <2>2. \A v \in Workers : answer'[v] = IF v = w THEN n ELSE answer[v]
    BY <2>1, <1>3, CallerAssumption
  <2>3. SeenPc' = [v \in Workers |-> IF answer'[v] # 0 THEN "bind" ELSE pc[v]]
    BY <2>1 DEF SeenPc
  <2>4. SeenHeld' = [v \in Workers |-> IF answer'[v] # 0 THEN answer'[v] ELSE held[v]]
    BY <2>1 DEF SeenHeld
  <2>5. SeenPc = [v \in Workers |-> IF answer[v] # 0 THEN "bind" ELSE pc[v]]
    BY DEF SeenPc
  <2>6. SeenHeld = [v \in Workers |-> IF answer[v] # 0 THEN answer[v] ELSE held[v]]
    BY DEF SeenHeld
  <2>7. SeenPc' = [SeenPc EXCEPT ![w] = "bind"]
    BY <2>1, <2>2, <2>3, <2>5
  <2>8. SeenHeld' = [SeenHeld EXCEPT ![w] = n]
    BY <2>1, <2>2, <2>4, <2>6
  <2> QED BY <2>7, <2>8
<1>5. CASE Known(file, CallOf(r))
  <2>1. file' = file /\ n = file.requests[r].nonce
    BY <1>1, <1>5 DEF Answers, ReserveIn, ReservedNonce, CallOf
  <2>2. Reserved[r] # 0 /\ Reserved[r] = n
    BY <1>1, <1>5, <2>1, SeenReservations
  <2>3. UNCHANGED <<Counters, Reserved>>
    BY <2>1 DEF Counters, Reserved
  <2> HIDE DEF n
  <2> QED BY <1>2, <1>4, <2>2, <2>3
          DEF Path!ReuseReservation, Path!NoNonce, Path!Goto, Path!nonceVars, Path!opVars, Path!netVars,
              Answers, callerVars
<1>6. CASE ~Known(file, CallOf(r))
  <2>1. /\ file'.counters = [file.counters EXCEPT ![LaneOf[r]] = @ + 1]
        /\ file'.requests = [file.requests EXCEPT ![r] = [lane |-> LaneOf[r], nonce |-> n]]
        /\ n = file.counters[LaneOf[r]] + 1
    BY <1>1, <1>6 DEF Answers, ReserveIn, ReservedNonce, NextIn, CallOf
  <2>2. Path!NextNonce(w) = n
    BY <2>1 DEF Path!NextNonce, Counters
  <2>3. Reserved[r] = 0
    BY <1>1, <1>6, SeenReservations
  <2>4. r \in Ids /\ file.requests \in [Ids -> Reservations] /\ LaneOf[r] \in Lanes
        /\ file.counters \in [Lanes -> 0..MaxNonce]
    BY <1>1, CallerAssumption, SeenReservations DEF NonceDocs
  <2> HIDE DEF n
  <2>5. Counters' = [Counters EXCEPT ![LaneOf[r]] = n]
    BY <2>1, <2>4 DEF Counters
  <2>6. Reserved' = [Reserved EXCEPT ![r] = n]
    <3>1. ASSUME NEW q \in Requests
          PROVE  file'.requests[q].nonce = IF q = r THEN n ELSE file.requests[q].nonce
      BY <2>1, <2>4, CallerAssumption
    <3>2. Reserved' = [q \in Requests |-> file'.requests[q].nonce]
      BY DEF Reserved
    <3>3. Reserved = [q \in Requests |-> file.requests[q].nonce]
      BY DEF Reserved
    <3> HIDE DEF r
    <3> QED BY <1>1, <3>1, <3>2, <3>3
  <2> QED BY <1>2, <1>3, <1>4, <2>2, <2>3, <2>5, <2>6
          DEF Path!ReserveNonce, Path!Take, Path!NoNonce, Path!Goto, Path!opVars, Path!netVars,
              Answers, callerVars
<1> QED BY <1>5, <1>6

\* The answer of another thread's call.
LEMMA AnswerForItself ==
    ASSUME PInv, NEW t \in Threads \ Workers, Answers(t)
    PROVE  (\E l \in Lanes : Path!SignRoom(l)) \/ UNCHANGED Path!vars
<1> DEFINE l == op[t].lane
<1>1. /\ l \in Lanes /\ op[t].id \notin Requests /\ op[t].id \in Ids \cup {NoId}
      /\ answer \in [Threads -> 0..MaxNonce] /\ file \in NonceDocs
  BY NonceFileAssumption DEF Answers, PInv, CallsMatch, Store!SInv, Store!STypeOK, Store!NeverTorn
<1>2. SeenPc' = SeenPc /\ SeenHeld' = SeenHeld
  <2>1. \A w \in Workers : answer'[w] = answer[w]
    BY <1>1, CallerAssumption DEF Answers
  <2> QED BY <2>1 DEF Answers, callerVars, SeenPc, SeenHeld
<1>3. CASE Known(file, op[t])
  <2>1. UNCHANGED <<Counters, Reserved>>
    BY <1>3 DEF Answers, ReserveIn, Counters, Reserved
  <2> QED BY <1>2, <2>1 DEF Answers, callerVars, Path!vars, Path!nonceVars, Path!opVars, Path!netVars,
             Path!callVars
<1>4. CASE ~Known(file, op[t])
  <2>1. /\ file'.counters = [file.counters EXCEPT ![l] = @ + 1]
        /\ file'.requests = [file.requests EXCEPT ![op[t].id] = [lane |-> l, nonce |-> NextIn(file, op[t])]]
        /\ file.counters[l] + 1 <= MaxNonce
    BY <1>1, <1>4, NonceFileAssumption DEF Answers, ReserveIn, RefusesReserve, NextIn, NonceDocs
  <2>2. Reserved' = Reserved
    BY <1>1, <2>1, CallerAssumption DEF Reserved, NonceDocs
  <2>3. Path!SignRoom(l)
    BY <1>2, <2>1, <2>2 DEF Path!SignRoom, Counters, Answers, callerVars, Path!opVars, Path!netVars, Path!callVars
  <2> QED BY <1>1, <2>3
<1> QED BY <1>3, <1>4

\* What a call does inside the file without getting its answer is not seen.
LEMMA InsideIsSeenOnce ==
    ASSUME PInv, NEW t \in Threads, InsideReserve(t)
    PROVE  Answers(t) \/ UNCHANGED <<file, answer, callerVars>>
<1> USE DEF InsideReserve, PInv, Store!SInv, Store!STypeOK
<1>1. CASE ReadDocument(t)
  BY <1>1 DEF ReadDocument, Answers, Store!Decided, Store!NeverTorn
<1>2. CASE Replace(t)
  BY <1>2 DEF Replace, Answers, Store!Decided, Store!NothingLost, Store!Writing
<1>3. CASE TakeMutex(t) \/ OpenLockFile(t) \/ TakeLock(t) \/ OpenTemp(t) \/ FlushTemp(t)
             \/ IOFails(t) \/ Unlock(t)
  BY <1>3 DEF TakeMutex, OpenLockFile, TakeLock, OpenTemp, FlushTemp, IOFails, Unlock
<1> QED BY <1>1, <1>2, <1>3

\* Nothing that Signer sees has changed.
LEMMA NothingSeen ==
    ASSUME file' = file, UNCHANGED <<SeenPc, SeenHeld>>,
           UNCHANGED <<opState, opNonce, opSig, opReceipt, ledger, wire, stored, attempts,
                       req, outcome, reply>>
    PROVE  UNCHANGED Path!vars
BY DEF Path!vars, Path!nonceVars, Path!opVars, Path!netVars, Path!callVars, Counters, Reserved

\* Every step is one of Signer's or none.
LEMMA StepIsSigner == PInv /\ [FNext]_fvars => [Path!Next]_(Path!vars)
<1> SUFFICES ASSUME PInv, [FNext]_fvars PROVE Path!Next \/ UNCHANGED Path!vars
  OBVIOUS
<1>1. ASSUME file' = file, answer' = answer, UNCHANGED callerVars PROVE UNCHANGED Path!vars
  BY <1>1, NothingSeen, SeenAsItIs DEF callerVars
<1>2. ASSUME NEW w \in Workers, CallReserve(w) PROVE UNCHANGED Path!vars
  BY <1>1, <1>2 DEF CallReserve, Begin
<1>3. ASSUME NEW t \in Threads, NEW o \in Reserves, CallForItself(t, o) PROVE UNCHANGED Path!vars
  BY <1>1, <1>3 DEF CallForItself, Begin
<1>4. ASSUME NEW w \in Workers, InsideReserve(w) PROVE Path!Next \/ UNCHANGED Path!vars
  <2>1. CASE Answers(w)
    BY <2>1, AnswerForDraft DEF Path!Next, Path!Run, Path!Execute
  <2>2. CASE UNCHANGED <<file, answer, callerVars>>
    BY <1>1, <2>2
  <2> QED BY <1>4, <2>1, <2>2, InsideIsSeenOnce, Waiting
<1>5. ASSUME NEW t \in Threads \ Workers, InsideReserve(t) PROVE Path!Next \/ UNCHANGED Path!vars
  <2>1. CASE Answers(t)
    BY <2>1, AnswerForItself DEF Path!Next
  <2>2. CASE UNCHANGED <<file, answer, callerVars>>
    BY <1>1, <2>2
  <2> QED BY <1>5, <2>1, <2>2, InsideIsSeenOnce
<1>6. ASSUME NEW w \in Workers, ReserveReturns(w) PROVE UNCHANGED Path!vars
  <2>1. /\ pc' = [pc EXCEPT ![w] = "bind"] /\ held' = [held EXCEPT ![w] = answer[w]]
        /\ answer[w] # 0 /\ answer' = [t \in Threads |-> IF t \in {w} THEN 0 ELSE answer[t]]
        /\ file' = file
    BY <1>6 DEF ReserveReturns, Release, End
  <2>2. SeenPc' = SeenPc /\ SeenHeld' = SeenHeld
    BY <2>1, CallerAssumption DEF SeenPc, SeenHeld, PInv, CallsMatch
  <2> QED BY <1>6, <2>1, <2>2, NothingSeen DEF ReserveReturns
<1>7. ASSUME NEW ts \in SUBSET Threads, End(ts), Caller!Abort(ts \cap Workers) PROVE Path!Next
  <2>1. /\ \A w \in Workers \ (ts \cap Workers) : answer'[w] = answer[w]
        /\ \A w \in ts \cap Workers : answer'[w] = 0
    BY <1>7, CallerAssumption DEF End
  <2>2. Path!Abort(ts \cap Workers)
    BY <1>7, <2>1, SeenAbort
  <2> QED BY <2>2 DEF Path!Next
<1>8. ASSUME NEW w \in Workers, ReserveRaises(w) PROVE Path!Next
  <2>1. {w} \in SUBSET Threads /\ {w} \cap Workers = {w}
    BY Waiting
  <2>2. End({w}) /\ Caller!Abort({w})
    BY <1>8 DEF ReserveRaises, OpenFails, UnlockFails, Release
  <2> QED BY <1>7, <2>1, <2>2
<1>9. ASSUME NEW p \in Processes, ProcessDies(p) PROVE Path!Next
  <2> DEFINE ts == {t \in Threads : ProcOf[t] = p}
  <2>1. ts \cap Workers = {w \in Workers : ProcOf[w] = p}
    BY CallerAssumption
  <2>2. End(ts) /\ Caller!Abort({w \in Workers : ProcOf[w] = p})
    BY <1>9 DEF ProcessDies, Crash
  <2>3. ts \in SUBSET Threads
    OBVIOUS
  <2> HIDE DEF ts
  <2> QED BY <1>7, <2>1, <2>2, <2>3
<1>10. ASSUME NEW t \in Threads \ Workers, CallEndsForItself(t) PROVE UNCHANGED Path!vars
  <2>1. End({t}) /\ file' = file /\ UNCHANGED callerVars
    BY <1>10 DEF CallEndsForItself, OpenFails, UnlockFails, Release
  <2>2. \A w \in Workers : answer'[w] = answer[w]
    BY <2>1, CallerAssumption DEF End
  <2>3. SeenPc' = SeenPc /\ SeenHeld' = SeenHeld
    BY <2>1, <2>2 DEF callerVars, SeenPc, SeenHeld
  <2> QED BY <2>1, <2>3, NothingSeen DEF callerVars
<1>11. ASSUME NEW w \in Workers, RunElsewhere(w) PROVE Path!Next
  BY <1>11, ElsewhereIsSigner
<1>12. CASE RoomElsewhere
  BY <1>12, RoomIsSigner
<1>13. CASE UNCHANGED fvars
  BY <1>1, <1>13 DEF fvars, fileVars
<1> QED
  BY <1>2, <1>3, <1>4, <1>5, <1>6, <1>8, <1>9, <1>10, <1>11, <1>12, <1>13 DEF FNext

-----------------------------------------------------------------------------
\* Every step is one of the store's or none.
LEMMA StepIsStore == PInv /\ [FNext]_fvars => [SNext]_svars
<1> SUFFICES ASSUME PInv, [FNext]_fvars PROVE SNext \/ UNCHANGED svars
  OBVIOUS
<1> USE DEF SNext, Proceed
<1>1. ASSUME NEW w \in Workers, CallReserve(w) PROVE SNext
  <2>1. CallOf(req[w]) \in Reserves /\ w \in Threads
    BY <1>1, Waiting, CallerAssumption DEF CallReserve
  <2> QED BY <1>1, <2>1 DEF CallReserve
<1>2. ASSUME NEW t \in Threads, NEW o \in Reserves, CallForItself(t, o) PROVE SNext
  BY <1>2 DEF CallForItself
<1>3. ASSUME NEW t \in Threads, InsideReserve(t) PROVE SNext
  BY <1>3 DEF InsideReserve
<1>4. ASSUME NEW w \in Workers, ReserveReturns(w) \/ ReserveRaises(w) PROVE SNext
  BY <1>4, Waiting DEF ReserveReturns, ReserveRaises
<1>5. ASSUME NEW t \in Threads, CallEndsForItself(t) PROVE SNext
  BY <1>5 DEF CallEndsForItself
<1>6. ASSUME NEW p \in Processes, ProcessDies(p) PROVE SNext
  BY <1>6 DEF ProcessDies
<1>7. CASE (\E w \in Workers : RunElsewhere(w)) \/ RoomElsewhere \/ UNCHANGED fvars
  BY <1>7 DEF RunElsewhere, RoomElsewhere, fvars, fileVars, svars
<1> QED BY <1>1, <1>2, <1>3, <1>4, <1>5, <1>6, <1>7, Waiting DEF FNext

\* A caller away from reserve moves itself only, and stays typed.
LEMMA CallerMoves ==
    ASSUME PInv, NEW w \in Workers, RunElsewhere(w)
    PROVE  /\ pc' \in [Workers -> Caller!Steps \cup {"idle"}]
           /\ held' \in [Workers -> 0..MaxNonce]
           /\ \A v \in Workers \ {w} : pc'[v] = pc[v] /\ req'[v] = req[v]
<1> DEFINE Kept == /\ pc' \in [Workers -> Caller!Steps \cup {"idle"}]
                   /\ held' \in [Workers -> 0..MaxNonce]
                   /\ \A v \in Workers \ {w} : pc'[v] = pc[v] /\ req'[v] = req[v]
<1>1. /\ pc \in [Workers -> Caller!Steps \cup {"idle"}] /\ held \in [Workers -> 0..MaxNonce]
      /\ req \in [Workers -> Requests \cup {NoRequest}] /\ opNonce \in [Requests -> 0..MaxNonce]
      /\ MaxNonce \in Nat
  BY NonceFileAssumption DEF PInv, CallsMatch, Path!Inv, Path!TypeOK
<1>2. pc[w] \notin {"idle", "reserve"} => req[w] \in Requests
  <2>1. answer[w] # 0 => pc[w] = "reserve"
    BY Waiting
  <2> QED BY <2>1 DEF PInv, Path!Inv, Path!CallsRun, SeenPc
<1>3. pc[w] # "reserve"
  BY DEF RunElsewhere
<1> USE DEF Caller!Steps, Caller!ExecuteSteps, Caller!ReconcileSteps, Caller!NoNonce
<1>4. ASSUME Caller!Return(w) PROVE Kept
  BY <1>1, <1>4 DEF Caller!Return, Caller!Goto
<1>5. ASSUME NEW o, Caller!Learn(w, o) PROVE Kept
  BY <1>1, <1>5 DEF Caller!Learn, Caller!Goto
<1>6. ASSUME NEW x \in Caller!Steps, Caller!Goto(w, x), held' = held, req' = req PROVE Kept
  BY <1>1, <1>6 DEF Caller!Goto
<1>7. ASSUME NEW s, Caller!Settle(w, s) PROVE Kept
  BY <1>4, <1>6, <1>7 DEF Caller!Settle
<1>8. ASSUME NEW r \in Requests, Caller!ExecuteRoom(w, r) \/ Caller!ReconcileRoom(w, r) PROVE Kept
  BY <1>1, <1>8 DEF Caller!ExecuteRoom, Caller!ReconcileRoom, Caller!Call, Caller!Goto
<1>9. CASE Caller!CreateOperation(w) \/ Caller!RecordSignature(w) \/ Caller!Post(w) \/ Caller!QueryRoom(w)
  BY <1>6, <1>9 DEF Caller!CreateOperation, Caller!RecordSignature, Caller!Post, Caller!QueryRoom
<1>10. CASE Caller!ResumeOperation(w)
  BY <1>1, <1>2, <1>10 DEF Caller!ResumeOperation, Caller!Goto
<1>11. CASE Caller!ReturnRecorded(w) \/ Caller!QueryInconclusive(w) \/ Caller!AppendEvidence(w)
  BY <1>4, <1>11 DEF Caller!ReturnRecorded, Caller!QueryInconclusive, Caller!AppendEvidence
<1>12. CASE Caller!ReserveNonce(w) \/ Caller!ReuseReservation(w) \/ Caller!NonceExhausted(w)
  BY <1>3, <1>12 DEF Caller!ReserveNonce, Caller!ReuseReservation, Caller!NonceExhausted
<1>13. CASE Caller!BindNonce(w)
  BY <1>4, <1>6, <1>13 DEF Caller!BindNonce
<1>14. CASE Caller!MarkSigned(w) \/ Caller!MarkStarted(w)
  BY <1>4, <1>6, <1>14 DEF Caller!MarkSigned, Caller!MarkStarted, Caller!Transition
<1>15. CASE Caller!RefuseRoom(w) \/ Caller!RecordOffline(w) \/ Caller!ReadReceipt(w)
              \/ Caller!ReadRefusal(w) \/ Caller!GiveUp(w)
  BY <1>5, <1>15 DEF Caller!RefuseRoom, Caller!RecordOffline, Caller!ReadReceipt, Caller!ReadRefusal,
                     Caller!GiveUp
<1>16. CASE Caller!Resolve(w) \/ Caller!MarkReconciled(w)
  BY <1>7, <1>16 DEF Caller!Resolve, Caller!MarkReconciled
<1>17. CASE Caller!Abort({w})
  BY <1>1, <1>17 DEF Caller!Abort
<1> QED
  BY <1>8, <1>9, <1>10, <1>11, <1>12, <1>13, <1>14, <1>15, <1>16, <1>17
  DEF RunElsewhere, Caller!Run, Caller!Execute, Caller!Transmit, Caller!Submit, Caller!Reconcile

\* A call of reserve goes on for the caller that waits for it.
LEMMA CallsMatchStep == PInv /\ [FNext]_fvars => CallsMatch'
<1> SUFFICES ASSUME PInv, [FNext]_fvars PROVE CallsMatch'
  OBVIOUS
<1>1. /\ pc \in [Workers -> Caller!Steps \cup {"idle"}] /\ held \in [Workers -> 0..MaxNonce]
      /\ \A w \in Workers : step[w] # "idle" => pc[w] = "reserve" /\ op[w] = CallOf(req[w])
      /\ \A t \in Threads \ Workers : step[t] # "idle" => op[t].id \notin Requests
      /\ DOMAIN step = Threads /\ DOMAIN op = Threads
      /\ answer \in [Threads -> 0..MaxNonce] /\ MaxNonce \in Nat
  BY NonceFileAssumption DEF PInv, CallsMatch, Store!SInv, Store!STypeOK
<1>2. ASSUME NEW ts \in SUBSET Threads, End(ts), pc' \in [Workers -> Caller!Steps \cup {"idle"}],
             held' \in [Workers -> 0..MaxNonce],
             \A w \in Workers \ ts : pc'[w] = pc[w] /\ req'[w] = req[w]
      PROVE  CallsMatch'
  BY <1>1, <1>2, CallerAssumption DEF CallsMatch, End
<1>3. ASSUME NEW t \in Threads, NEW o, Begin(t, o), UNCHANGED callerVars,
             IF t \in Workers THEN pc[t] = "reserve" /\ o = CallOf(req[t]) ELSE o.id \notin Requests
      PROVE  CallsMatch'
  BY <1>1, <1>3, CallerAssumption DEF CallsMatch, Begin, Go, callerVars
<1>4. ASSUME NEW w \in Workers, CallReserve(w) PROVE CallsMatch'
  BY <1>3, <1>4, Waiting DEF CallReserve
<1>5. ASSUME NEW t \in Threads \ Workers, NEW o \in Reserves, CallForItself(t, o) PROVE CallsMatch'
  BY <1>3, <1>5 DEF CallForItself
<1>6. ASSUME NEW t \in Threads, InsideReserve(t) PROVE CallsMatch'
  <2>1. step[t] # "idle" /\ op' = op /\ UNCHANGED callerVars /\ (\A u \in Threads \ {t} : step'[u] = step[u])
    BY <1>1, <1>6 DEF InsideReserve, TakeMutex, OpenLockFile, TakeLock, ReadDocument, OpenTemp, FlushTemp, Replace,
                IOFails, Unlock, Go, Writing
  <2> QED BY <1>1, <2>1, CallerAssumption DEF CallsMatch, callerVars
<1>7. ASSUME NEW w \in Workers, ReserveReturns(w) PROVE CallsMatch'
  <2>1. w \in Threads /\ End({w}) /\ pc' = [pc EXCEPT ![w] = "bind"] /\ held' = [held EXCEPT ![w] = answer[w]]
        /\ req' = req
    BY <1>7, Waiting DEF ReserveReturns, Release
  <2>2. pc' \in [Workers -> Caller!Steps \cup {"idle"}] /\ held' \in [Workers -> 0..MaxNonce]
    BY <1>1, <2>1 DEF Caller!Steps, Caller!ExecuteSteps
  <2> QED BY <1>1, <1>2, <2>1, <2>2
<1>8. ASSUME NEW ts \in SUBSET Threads, End(ts), Caller!Abort(ts \cap Workers) PROVE CallsMatch'
  <2>1. /\ pc' \in [Workers -> Caller!Steps \cup {"idle"}] /\ held' \in [Workers -> 0..MaxNonce]
        /\ \A w \in Workers \ ts : pc'[w] = pc[w] /\ req'[w] = req[w]
    BY <1>1, <1>8 DEF Caller!Abort, Caller!NoNonce
  <2> QED BY <1>2, <1>8, <2>1
<1>9. ASSUME NEW w \in Workers, ReserveRaises(w) PROVE CallsMatch'
  <2>1. {w} \in SUBSET Threads /\ {w} \cap Workers = {w}
    BY Waiting
  <2>2. End({w}) /\ Caller!Abort({w})
    BY <1>9 DEF ReserveRaises, OpenFails, UnlockFails, Release
  <2> QED BY <1>8, <2>1, <2>2
<1>10. ASSUME NEW p \in Processes, ProcessDies(p) PROVE CallsMatch'
  <2> DEFINE ts == {t \in Threads : ProcOf[t] = p}
  <2>1. ts \cap Workers = {w \in Workers : ProcOf[w] = p}
    BY CallerAssumption
  <2>2. End(ts) /\ Caller!Abort({w \in Workers : ProcOf[w] = p})
    BY <1>10 DEF ProcessDies, Crash
  <2>3. ts \in SUBSET Threads
    OBVIOUS
  <2> HIDE DEF ts
  <2> QED BY <1>8, <2>1, <2>2, <2>3
<1>11. ASSUME NEW t \in Threads \ Workers, CallEndsForItself(t) PROVE CallsMatch'
  BY <1>1, <1>2, <1>11 DEF CallEndsForItself, OpenFails, UnlockFails, Release, callerVars
<1>12. ASSUME NEW w \in Workers, RunElsewhere(w) PROVE CallsMatch'
  <2>1. step' = step /\ op' = op /\ step[w] = "idle"
    BY <1>12, Waiting DEF RunElsewhere, fileVars
  <2> QED BY <1>1, <1>12, <2>1, CallerMoves DEF CallsMatch
<1>13. CASE RoomElsewhere \/ UNCHANGED fvars
  <2>1. UNCHANGED <<step, op, pc, req, held>>
    BY <1>13 DEF RoomElsewhere, fileVars, fvars, callerVars, Caller!Room, Caller!RoomStores, Caller!RoomRefuses
  <2> QED BY <1>1, <2>1 DEF CallsMatch
<1> QED
  BY <1>4, <1>5, <1>6, <1>7, <1>9, <1>10, <1>11, <1>12, <1>13, CallerAssumption DEF FNext

\* A new reservation of a draft is in the draft's room.
LEMMA LanesMatchStep == PInv /\ [FNext]_fvars => LanesMatch'
<1> SUFFICES ASSUME PInv, [FNext]_fvars PROVE LanesMatch'
  OBVIOUS
<1>1. CASE file' = file
  BY <1>1 DEF PInv, LanesMatch
<1>2. ASSUME NEW t \in Threads, Answers(t) PROVE LanesMatch'
  <2>1. t \in Workers => req[t] \in Requests /\ op[t] = CallOf(req[t])
    BY <1>2, Waiting DEF Answers
  <2>2. t \notin Workers => op[t].id \notin Requests
    BY <1>2 DEF Answers, PInv, CallsMatch
  <2>3. file \in NonceDocs
    BY DEF PInv, Store!SInv, Store!STypeOK, Store!NeverTorn
  <2>4. ASSUME NEW r \in Requests, file'.requests[r] # NoRes
        PROVE  file'.requests[r].lane = LaneOf[r] /\ file'.form = "unified"
    <3>1. r \in Ids /\ (file.requests[r] # NoRes => file.requests[r].lane = LaneOf[r] /\ file.form = "unified")
      BY CallerAssumption DEF PInv, LanesMatch
    <3>2. CASE Known(file, op[t])
      BY <1>2, <2>4, <3>1, <3>2 DEF Answers, ReserveIn
    <3>3. CASE ~Known(file, op[t])
      <4>1. /\ file'.form = "unified"
            /\ file'.requests = [file.requests EXCEPT ![op[t].id] = [lane |-> op[t].lane, nonce |-> NextIn(file, op[t])]]
        BY <1>2, <3>3 DEF Answers, ReserveIn
      <4>2. CASE r = op[t].id
        <5>1. t \in Workers /\ op[t].lane = LaneOf[r]
          BY <2>1, <2>2, <4>2 DEF CallOf
        <5>2. file'.requests[r] = [lane |-> op[t].lane, nonce |-> NextIn(file, op[t])]
          BY <2>3, <3>1, <4>1, <4>2 DEF NonceDocs
        <5> QED BY <4>1, <5>1, <5>2
      <4>3. CASE r # op[t].id
        <5>1. file'.requests[r] = file.requests[r]
          BY <2>3, <3>1, <4>1, <4>3 DEF NonceDocs
        <5> QED BY <2>4, <3>1, <4>1, <5>1
      <4> QED BY <4>2, <4>3
    <3> QED BY <3>2, <3>3
  <2> QED BY <2>4 DEF LanesMatch
<1>3. ASSUME NEW t \in Threads, InsideReserve(t) PROVE LanesMatch'
  BY <1>1, <1>2, <1>3, InsideIsSeenOnce
<1>4. ASSUME NEW t \in Threads, ~InsideReserve(t),
             CallReserve(t) \/ ReserveReturns(t) \/ ReserveRaises(t) \/ RunElsewhere(t)
               \/ (\E o \in Reserves : CallForItself(t, o)) \/ CallEndsForItself(t)
      PROVE  file' = file
  BY <1>4 DEF CallReserve, Begin, ReserveReturns, Release, ReserveRaises, OpenFails, UnlockFails, RunElsewhere,
              fileVars, CallForItself, CallEndsForItself
<1>5. CASE (\E p \in Processes : ProcessDies(p)) \/ RoomElsewhere \/ UNCHANGED fvars
  BY <1>1, <1>5 DEF ProcessDies, Crash, RoomElsewhere, fileVars, fvars
<1> QED BY <1>1, <1>3, <1>4, <1>5, CallerAssumption DEF FNext

\* What is found at the first start.
LEMMA FInitPInv == FInit => PInv /\ Path!Init
<1> SUFFICES ASSUME FInit PROVE PInv /\ Path!Init
  OBVIOUS
<1>1. Store!SInv
  BY SameInit, StoreAssumed, Store!InitSInv DEF FInit
<1>2. /\ SeenPc = [w \in Workers |-> "idle"] /\ SeenHeld = [w \in Workers |-> 0]
      /\ step = [t \in Threads |-> "idle"]
  BY CallerAssumption DEF FInit, SInit, Caller!Init, Caller!NoNonce, SeenPc, SeenHeld
<1>3. Path!Init
  BY <1>2 DEF FInit, Caller!Init, Path!Init, Caller!NoNonce, Path!NoNonce
<1>4. Path!Inv
  BY <1>3, Path!InitInv, SignerAssumed
<1>5. CallsMatch
  BY <1>2, CallerAssumption, NonceFileAssumption
     DEF FInit, Caller!Init, Caller!NoNonce, CallsMatch
<1>6. LanesMatch
  BY CallerAssumption DEF FInit, SInit, FirstDocs, LanesMatch
<1> QED BY <1>1, <1>3, <1>4, <1>5, <1>6 DEF PInv

\* The invariant is inductive.
LEMMA StepPInv == PInv /\ [FNext]_fvars => PInv'
<1> SUFFICES ASSUME PInv, [FNext]_fvars PROVE PInv'
  OBVIOUS
<1>1. Store!SInv'
  BY StepIsStore, SameStep, StoreAssumed, Store!StepSInv DEF PInv
<1>2. Path!Inv'
  BY StepIsSigner, SignerAssumed, Path!StepInv DEF PInv
<1> QED BY <1>1, <1>2, CallsMatchStep, LanesMatchStep DEF PInv

\* The signer over its file keeps the store's invariant and the signer's.
THEOREM FileInvariance == FSpec => []PInv
BY FInitPInv, StepPInv, PTL DEF FSpec

\* A draft whose nonce was reserved before a crash gets it back.
THEOREM RetriesComeBack == FSpec => []RetryComesBack
<1>1. ASSUME PInv, NEW r \in Requests, file.requests[r] # NoRes
      PROVE  ~RefusesReserve(file, CallOf(r)) /\ ReservedNonce(file, CallOf(r)) = Reserved[r]
  <2>1. Known(file, CallOf(r)) /\ Reserved[r] = file.requests[r].nonce
    BY <1>1, SeenReservations
  <2>2. file.requests[r].lane = LaneOf[r] /\ file.form = "unified"
    BY <1>1 DEF PInv, LanesMatch
  <2> QED BY <2>1, <2>2 DEF RefusesReserve, ReservedNonce, CallOf
<1>2. PInv => RetryComesBack
  BY <1>1 DEF RetryComesBack
<1> QED BY <1>2, FileInvariance, PTL

\* Signer, said of the instance the run checks.
LEMMA SameSigner ==
    /\ Seen!Init <=> Path!Init
    /\ Seen!Next <=> Path!Next
    /\ UNCHANGED Seen!vars <=> UNCHANGED Path!vars
<1>1. Seen!Init <=> Path!Init
  BY DEF Seen!Init, Path!Init, Seen!NoNonce, Path!NoNonce
<1>2. Seen!Next <=> Path!Next
  BY
  DEF Seen!nonceVars, Path!nonceVars, Seen!opVars, Path!opVars, Seen!netVars, Path!netVars,
      Seen!callVars, Path!callVars, Seen!vars, Path!vars, Seen!NoNonce, Path!NoNonce,
      Seen!Nonces, Path!Nonces, Seen!OpStates, Path!OpStates, Seen!Terminal, Path!Terminal,
      Seen!Outcomes, Path!Outcomes, Seen!Allowed, Path!Allowed, Seen!StateFor, Path!StateFor,
      Seen!CanMove, Path!CanMove, Seen!HasReceipt, Path!HasReceipt, Seen!Init, Path!Init,
      Seen!Goto, Path!Goto, Seen!Return, Path!Return, Seen!Call, Path!Call, Seen!ExecuteRoom,
      Path!ExecuteRoom, Seen!CreateOperation, Path!CreateOperation, Seen!ResumeOperation,
      Path!ResumeOperation, Seen!ReturnRecorded, Path!ReturnRecorded, Seen!NextNonce,
      Path!NextNonce, Seen!Take, Path!Take, Seen!ReserveNonce, Path!ReserveNonce,
      Seen!ReuseReservation, Path!ReuseReservation, Seen!NonceExhausted, Path!NonceExhausted,
      Seen!SignRoom, Path!SignRoom, Seen!BindNonce, Path!BindNonce, Seen!RecordSignature,
      Path!RecordSignature, Seen!Transition, Path!Transition, Seen!MarkSigned, Path!MarkSigned,
      Seen!MarkStarted, Path!MarkStarted, Seen!Learn, Path!Learn, Seen!RefuseRoom,
      Path!RefuseRoom, Seen!Post, Path!Post, Seen!RecordOffline, Path!RecordOffline,
      Seen!Listening, Path!Listening, Seen!RoomStores, Path!RoomStores, Seen!RoomRefuses,
      Path!RoomRefuses, Seen!ReadReceipt, Path!ReadReceipt, Seen!ReadRefusal, Path!ReadRefusal,
      Seen!GiveUp, Path!GiveUp, Seen!Settle, Path!Settle, Seen!Resolve, Path!Resolve,
      Seen!ReconcileRoom, Path!ReconcileRoom, Seen!Findings, Path!Findings, Seen!QueryRoom,
      Path!QueryRoom, Seen!QueryInconclusive, Path!QueryInconclusive, Seen!MarkReconciled,
      Path!MarkReconciled, Seen!AppendEvidence, Path!AppendEvidence, Seen!Abort, Path!Abort,
      Seen!Submit, Path!Submit, Seen!Transmit, Path!Transmit, Seen!Execute, Path!Execute,
      Seen!Reconcile, Path!Reconcile, Seen!Room, Path!Room, Seen!Run, Path!Run, Seen!Next,
      Path!Next
<1>3. UNCHANGED Seen!vars <=> UNCHANGED Path!vars
  BY DEF Seen!vars, Path!vars, Seen!nonceVars, Path!nonceVars, Seen!opVars, Path!opVars,
         Seen!netVars, Path!netVars, Seen!callVars, Path!callVars
<1> QED BY <1>1, <1>2, <1>3

\* With the file underneath, the signed-write path is the one Signer describes:
\* no lock, rename, I/O error or crash inside reserve shows.
THEOREM FileKeepsSigner == FSpec => KeepsSigner
<1>1. FInit => Seen!Init
  BY FInitPInv, SameSigner
<1>2. PInv /\ [FNext]_fvars => [Seen!Next]_(Seen!vars)
  <2> SUFFICES ASSUME PInv, [FNext]_fvars PROVE Seen!Next \/ UNCHANGED Seen!vars
    OBVIOUS
  <2> QED BY StepIsSigner, SameSigner
<1> QED BY <1>1, <1>2, FileInvariance, PTL DEF FSpec, KeepsSigner, Seen!Spec

\* The steps SignerProofs is about, and what it assumes of the constants.
LEMMA FileIsPath == FSpec => Path!Spec
<1>1. FInit => Path!Init
  BY FInitPInv
<1> QED BY <1>1, StepIsSigner, FileInvariance, PTL DEF FSpec, Path!Spec

\* So what is proved of Signer holds with the real file: a request is sent at
\* most once, no nonce is shared, what left was recorded first, and records and
\* evidence tell the truth, wherever a call of reserve fails or dies.
THEOREM FileKeepsPromises ==
    FSpec => [](/\ Caller!SentAtMostOnce /\ Caller!NonceNeverShared /\ Caller!LoggedBeforeSent
                /\ Caller!VerdictTrue /\ Caller!LedgerAgrees)
<1>1. /\ Path!Spec => []Path!SentAtMostOnce
      /\ Path!Spec => []Path!NonceNeverShared
      /\ Path!Spec => []Path!LoggedBeforeSent
      /\ Path!Spec => []Path!VerdictTrue
      /\ Path!Spec => []Path!LedgerAgrees
  BY SignerAssumed, Path!AtMostOnce, Path!NonceUnique, Path!WriteAhead, Path!VerdictsTrue,
     Path!LedgerAgreesAlways, PTL
     DEF Path!LaneAssumption, Path!NonceAssumption, Path!ModeAssumption, Path!SentinelAssumption
<1>2. /\ Path!SentAtMostOnce <=> Caller!SentAtMostOnce
      /\ Path!NonceNeverShared <=> Caller!NonceNeverShared
      /\ Path!LoggedBeforeSent <=> Caller!LoggedBeforeSent
      /\ Path!VerdictTrue <=> Caller!VerdictTrue
      /\ Path!LedgerAgrees <=> Caller!LedgerAgrees
  BY DEF Path!SentAtMostOnce, Caller!SentAtMostOnce, Path!NonceNeverShared, Caller!NonceNeverShared,
         Path!LoggedBeforeSent, Caller!LoggedBeforeSent, Path!VerdictTrue, Caller!VerdictTrue,
         Path!LedgerAgrees, Caller!LedgerAgrees, Path!MessageOf, Caller!MessageOf,
         Path!NoNonce, Caller!NoNonce
<1> QED BY <1>1, <1>2, FileIsPath, PTL

\* Over the real file the path still implements the abstract write.
THEOREM FileImplementsWrite == FSpec => Path!KeepsPromise
<1>1. Path!Spec => Path!KeepsPromise
  BY SignerAssumed, Path!ImplementsPromise, PTL
     DEF Path!LaneAssumption, Path!NonceAssumption, Path!ModeAssumption, Path!SentinelAssumption
<1> QED BY <1>1, FileIsPath, PTL

\* The callers use the store as StoreFile lets any thread use it, so that what
\* is proved of the store holds beneath them.
THEOREM FileKeepsStore ==
    FSpec => KeepsAtomic /\ []LocksKept /\ []ReservationsDistinct /\ NoncesOnlyRise
<1>1. FInit => SInit
  BY DEF FInit
<1>2. FSpec => SSpec
  BY <1>1, StepIsStore, FileInvariance, PTL DEF FSpec, SSpec
<1> QED
  BY <1>2, NonceStoreIsAtomic, NonceLocksAreKept, ReservationsAreDistinct, NoncesRise, PTL
=============================================================================
