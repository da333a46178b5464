--------------------------- MODULE StoreFileProofs ---------------------------
(* Proofs about StoreFile: the file protocol is an atomic store. *)
EXTENDS StoreFile, TLAPS

\* A call that ends takes its locals along and leaves the others alone.
LEMMA EndKeeps ==
    ASSUME StoreAssumption, SInv, NEW ts \in SUBSET Threads, End(ts), file' = file,
           NEW h \in Threads \cup {NoThread}, lock' = h,
           \A t \in Threads \ ts : lock = t <=> h = t,
           h \notin ts,
           mutex' \in [Processes -> Threads \cup {NoThread}],
           \A t \in Threads \ ts, p \in Processes : mutex'[p] = t <=> mutex[p] = t,
           \A t \in ts, p \in Processes : mutex'[p] = t => ProcOf[t] = p /\ Paired
    PROVE  SInv'
<1> USE DEF StoreAssumption
<1>1. STypeOK' /\ NeverTorn'
  BY DEF SInv, STypeOK, NeverTorn, End
<1>2. NothingLost' /\ Decided'
  BY DEF SInv, STypeOK, NothingLost, Decided, End, Writing
<1>3. LocksKept'
  BY DEF SInv, STypeOK, LocksKept, End, Inside, Holding, Writing
<1> QED BY <1>1, <1>2, <1>3 DEF SInv

\* The first start finds a whole document and nobody at work.
LEMMA InitSInv == StoreAssumption /\ SInit => SInv
BY DEF StoreAssumption, SInit, SInv, STypeOK, NeverTorn, NothingLost, LocksKept, Decided,
       Writing, Inside, Holding

\* Every step keeps the invariant.
LEMMA StepSInv == StoreAssumption /\ SInv /\ [SNext]_svars => SInv'
<1> SUFFICES ASSUME StoreAssumption, SInv, [SNext]_svars PROVE SInv'
  OBVIOUS
<1> USE DEF StoreAssumption, SInv, STypeOK, NeverTorn, NothingLost, LocksKept, Decided, Writing, Inside,
            Holding, Go
<1>1. ASSUME NEW t \in Threads, NEW o \in Operations, Begin(t, o) PROVE SInv'
  BY <1>1 DEF Begin
<1>2. ASSUME NEW t \in Threads, TakeMutex(t) PROVE SInv'
  BY <1>2 DEF TakeMutex
<1>3. ASSUME NEW t \in Threads, OpenLockFile(t) PROVE SInv'
  BY <1>3 DEF OpenLockFile
<1>4. ASSUME NEW t \in Threads, TakeLock(t) PROVE SInv'
  BY <1>4 DEF TakeLock
<1>5. ASSUME NEW t \in Threads, ReadDocument(t) PROVE SInv'
  BY <1>5 DEF ReadDocument
<1>6. ASSUME NEW t \in Threads, OpenTemp(t) PROVE SInv'
  BY <1>6 DEF OpenTemp
<1>7. ASSUME NEW t \in Threads, FlushTemp(t) PROVE SInv'
  BY <1>7 DEF FlushTemp
<1>8. ASSUME NEW t \in Threads, Replace(t) PROVE SInv'
  BY <1>8 DEF Replace
<1>9. ASSUME NEW t \in Threads, IOFails(t) PROVE SInv'
  BY <1>9 DEF IOFails
<1>10. ASSUME NEW t \in Threads, Unlock(t) PROVE SInv'
  BY <1>10 DEF Unlock
<1>11. ASSUME NEW t \in Threads, OpenFails(t) PROVE SInv'
  BY <1>11, EndKeeps DEF OpenFails, FreeMutex
<1>12. ASSUME NEW t \in Threads, UnlockFails(t) PROVE SInv'
  BY <1>12, EndKeeps DEF UnlockFails, FreeMutex
<1>13. ASSUME NEW t \in Threads, Release(t) PROVE SInv'
  BY <1>13, EndKeeps DEF Release, FreeMutex
<1>14. ASSUME NEW p \in Processes, Crash(p) PROVE SInv'
  BY <1>14, EndKeeps DEF Crash
<1>15. CASE UNCHANGED svars
  BY <1>15 DEF svars
<1> QED
  BY <1>1, <1>2, <1>3, <1>4, <1>5, <1>6, <1>7, <1>8, <1>9, <1>10, <1>11, <1>12,
     <1>13, <1>14, <1>15
  DEF SNext, Proceed

\* Every step of the file protocol is a step of the atomic store or none: the
\* operation takes effect at the rename, or when it is answered unwritten.
LEMMA StepIsAtomic == SInv /\ [SNext]_svars => [Atomic!ANext]_(Atomic!avars)
<1> SUFFICES ASSUME SInv, [SNext]_svars PROVE Atomic!ANext \/ UNCHANGED <<file, answer>>
  BY DEF Atomic!avars
<1> USE DEF SInv, STypeOK, Atomic!ANext
<1>1. ASSUME NEW ts \in SUBSET Threads, End(ts), file' = file PROVE Atomic!ANext
  BY <1>1 DEF End, Atomic!Drop
<1>2. ASSUME NEW t \in Threads, ReadDocument(t)
      PROVE  Atomic!ANext \/ UNCHANGED <<file, answer>>
  <2>1. CASE file = Torn \/ Refuses(file, op[t]) \/ Apply(file, op[t]) # file
    BY <1>2, <2>1 DEF ReadDocument
  <2>2. CASE ~(file = Torn \/ Refuses(file, op[t]) \/ Apply(file, op[t]) # file)
    <3>1. /\ op[t] \in Operations /\ answer[t] = NoAnswer
          /\ answer' = [answer EXCEPT ![t] = Answer(file, op[t])]
          /\ file' = Apply(file, op[t])
      BY <1>2, <2>2 DEF ReadDocument, Decided
    <3> QED BY <2>2, <3>1 DEF Atomic!Do
  <2> QED BY <2>1, <2>2
<1>3. ASSUME NEW t \in Threads, Replace(t) PROVE Atomic!ANext
  <2>1. /\ op[t] \in Operations /\ answer[t] = NoAnswer
        /\ copy[t] = file /\ ~Refuses(file, op[t])
        /\ file' = Apply(file, op[t])
        /\ answer' = [answer EXCEPT ![t] = Answer(file, op[t])]
    BY <1>3 DEF Replace, Decided, NothingLost, Writing
  <2> QED BY <2>1 DEF Atomic!Do
<1>4. ASSUME NEW t \in Threads, OpenFails(t) \/ UnlockFails(t) \/ Release(t)
      PROVE  Atomic!ANext
  BY <1>4, <1>1 DEF OpenFails, UnlockFails, Release
<1>5. ASSUME NEW p \in Processes, Crash(p) PROVE Atomic!ANext
  <2>1. {t \in Threads : ProcOf[t] = p} \in SUBSET Threads
    OBVIOUS
  <2> QED BY <1>5, <1>1, <2>1 DEF Crash
<1>6. ASSUME NEW t \in Threads,
             (\E o \in Operations : Begin(t, o)) \/ TakeMutex(t) \/ OpenLockFile(t)
               \/ TakeLock(t) \/ OpenTemp(t) \/ FlushTemp(t) \/ IOFails(t) \/ Unlock(t)
      PROVE  UNCHANGED <<file, answer>>
  BY <1>6 DEF Begin, TakeMutex, OpenLockFile, TakeLock, OpenTemp, FlushTemp, IOFails, Unlock
<1>7. CASE UNCHANGED svars
  BY <1>7 DEF svars
<1> QED BY <1>2, <1>3, <1>4, <1>5, <1>6, <1>7 DEF SNext, Proceed

-----------------------------------------------------------------------------
\* The invariant holds for any threads, processes, documents and operations.
THEOREM StoreInvariance ==
    ASSUME StoreAssumption PROVE SSpec => []SInv
<1>1. SInit => SInv
  BY InitSInv
<1>2. SInv /\ [SNext]_svars => SInv'
  BY StepSInv
<1> QED BY <1>1, <1>2, PTL DEF SSpec

\* No reader ever finds part of a document.
THEOREM NeverTornHolds ==
    ASSUME StoreAssumption PROVE SSpec => []NeverTorn
<1>1. SInv => NeverTorn
  BY DEF SInv
<1> QED BY <1>1, StoreInvariance, PTL

\* No write is lost to another one, in whatever process.
THEOREM NothingIsLost ==
    ASSUME StoreAssumption PROVE SSpec => []NothingLost
<1>1. SInv => NothingLost
  BY DEF SInv
<1> QED BY <1>1, StoreInvariance, PTL

\* The locks exclude and are kept by nobody outside, but for the paired locks.
THEOREM LocksAreKept ==
    ASSUME StoreAssumption PROVE SSpec => []LocksKept
<1>1. SInv => LocksKept
  BY DEF SInv
<1> QED BY <1>1, StoreInvariance, PTL

\* The file protocol implements the atomic store, whatever the operations do
\* to the document: what Signer and ControlPlane assume of every store.
THEOREM StoreIsAtomic ==
    ASSUME StoreAssumption PROVE SSpec => KeepsAtomic
<1>1. SInit => Atomic!AInit
  BY DEF SInit, Atomic!AInit
<1> QED
  BY <1>1, StepIsAtomic, StoreInvariance, PTL DEF SSpec, KeepsAtomic, Atomic!ASpec
=============================================================================
