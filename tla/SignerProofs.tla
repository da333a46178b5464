---------------------------- MODULE SignerProofs ----------------------------
(* Proofs about Signer: the inductive invariants and what follows from them. *)
EXTENDS Signer, TLAPS

USE DEF NoNonce, Nonces

\* Init establishes the invariant: nothing is reserved, recorded or running.
LEMMA InitInv == Init => Inv
BY LaneAssumption, NonceAssumption, SentinelAssumption
   DEF Init, Inv, TypeOK, CallsRun, NoncesAgree, CopiesFresh, OneOwner,
       SentLate, LoggedBeforeSent, Entries, Terminal, Owning, Signing, Unsent,
       ReconcileSteps

\* The lifecycle table, read backwards: where each move can start.
LEMMA MoveStart ==
    ASSUME NEW r \in Requests, NEW s, CanMove(r, s)
    PROVE  /\ s = "SIGNED" => opState[r] = "ALLOCATED"
           /\ s = "SUBMISSION_STARTED" => opState[r] = "SIGNED"
           /\ s \in {"ACCEPTED", "UNKNOWN"} => opState[r] = "SUBMISSION_STARTED"
           /\ s = "RECONCILED" => opState[r] = "UNKNOWN"
           /\ opState[r] \in OpStates \ Terminal
BY DEF CanMove, Allowed, OpStates, Terminal

-----------------------------------------------------------------------------
(***************************************************************************)
(* Steps that share a shape.                                               *)
(***************************************************************************)

\* A call that only ends, in an error or in a recorded answer, is harmless.
LEMMA ReturnKeepsInv ==
    ASSUME Inv, NEW w \in Workers, Return(w),
           UNCHANGED <<nonceVars, opVars, ledger, netVars>>
    PROVE  Inv'
BY NonceAssumption
   DEF Inv, TypeOK, CallsRun, NoncesAgree, CopiesFresh, OneOwner, SentLate,
       LoggedBeforeSent, Return, Goto, nonceVars, opVars, netVars,
       Owning, Signing, Unsent, ReconcileSteps

\* So is the death of any calls, one or all of a process.
LEMMA AbortKeepsInv ==
    ASSUME Inv, NEW ws \in SUBSET Workers, Abort(ws)
    PROVE  Inv'
BY NonceAssumption
   DEF Inv, TypeOK, CallsRun, NoncesAgree, CopiesFresh, OneOwner, SentLate,
       LoggedBeforeSent, Abort, nonceVars, opVars, netVars,
       Owning, Signing, Unsent, ReconcileSteps

\* A call that learns the transport's verdict keeps owning its request.
LEMMA LearnKeepsInv ==
    ASSUME Inv, NEW w \in Workers, pc[w] \in {"submit", "await"},
           NEW o \in Outcomes, Learn(w, o),
           UNCHANGED <<nonceVars, opVars, ledger, netVars>>
    PROVE  Inv'
BY DEF Inv, TypeOK, CallsRun, NoncesAgree, CopiesFresh, OneOwner, SentLate,
       LoggedBeforeSent, Learn, Goto, nonceVars, opVars, netVars,
       Owning, Signing, Unsent, Steps, ExecuteSteps, ReconcileSteps

\* A thread that settles a record either owns its submission or reconciles
\* a record nobody owns.
LEMMA SettleKeepsInv ==
    ASSUME Inv, NEW w \in Workers, NEW s, Settle(w, s),
           \/ pc[w] = "resolve" /\ s \in {"ACCEPTED", "UNKNOWN", "FAILED_FINAL"}
           \/ pc[w] = "markReconciled" /\ s \in {"RECONCILED", "FAILED_FINAL"},
           UNCHANGED <<nonceVars, opNonce, opSig, ledger, netVars>>
    PROVE  Inv'
<1> USE DEF nonceVars, netVars
<1>1. CASE ~CanMove(req[w], s)
  BY <1>1, ReturnKeepsInv DEF Settle, opVars
<1>2. CASE CanMove(req[w], s)
  <2> DEFINE r == req[w]
  <2>1. r \in Requests /\ opSig[r] # NoNonce /\ opState[r] \notin Unsent \cup Terminal
    BY <1>2, MoveStart DEF Inv, CallsRun, OneOwner, NoncesAgree, ReconcileSteps, Terminal, Unsent
  <2>2. \A v \in Workers : v # w /\ pc[v] \in Owning => req[v] # r
    BY <1>2, MoveStart DEF Inv, CallsRun, OneOwner, Owning, ReconcileSteps, Terminal
  <2>3. opState' = [opState EXCEPT ![r] = s] /\ s \in Terminal \cup {"UNKNOWN"}
    BY <1>2 DEF Settle, Terminal
  <2>4. opReceipt' \in [Requests -> BOOLEAN]
    BY <1>2, <2>1 DEF Inv, TypeOK, Settle
  <2>5. /\ pc' = [pc EXCEPT ![w] = IF s \in Terminal THEN "evidence" ELSE "idle"]
        /\ s \in Terminal => req'[w] = r
        /\ \A v \in Workers : v # w => req'[v] = req[v] /\ held'[v] = held[v]
    BY <1>2 DEF Settle, Inv, TypeOK, Return, Goto
  <2>6. /\ req' \in [Workers -> Requests \cup {NoRequest}]
        /\ held' \in [Workers -> 0..MaxNonce]
        /\ outcome' \in [Workers -> Outcomes \cup {"none"}]
        /\ reply' \in [Workers -> {"none", "stored", "refused"}]
    <3>1. CASE s \in Terminal
      BY <1>2, <3>1 DEF Settle, Inv, TypeOK
    <3>2. CASE s \notin Terminal
      <4>1. Return(w)
        BY <1>2, <3>2 DEF Settle
      <4> QED BY <4>1, NonceAssumption DEF Inv, TypeOK, Return
    <3> QED BY <3>1, <3>2
  <2> HIDE DEF r
  <2> USE <2>1, <2>2, <2>3 DEF Inv
  <2>7. TypeOK'
    BY <2>4, <2>5, <2>6 DEF TypeOK, Steps, Terminal, OpStates
  <2>8. CallsRun'
    BY <2>5 DEF CallsRun, TypeOK, ReconcileSteps, Terminal
  <2>9. NoncesAgree'
    BY DEF NoncesAgree, TypeOK
  <2>10. SentLate' /\ LoggedBeforeSent'
    BY <2>5 DEF SentLate, LoggedBeforeSent, TypeOK, Unsent, Terminal
  <2>11. CopiesFresh'
    BY <2>5 DEF CopiesFresh, TypeOK, Owning, Signing
  <2>12. OneOwner'
    BY <2>5 DEF OneOwner, TypeOK, Owning
  <2> QED BY <2>7, <2>8, <2>9, <2>10, <2>11, <2>12
<1> QED BY <1>1, <1>2

\* A transition of execute_room either fails, or moves a record that no
\* other thread owns and makes or keeps its thread the owner.
LEMMA TransitionKeepsInv ==
    ASSUME Inv, NEW w \in Workers, MarkSigned(w) \/ MarkStarted(w)
    PROVE  Inv'
<1> DEFINE r == req[w]
           s == IF pc[w] = "markSigned" THEN "SIGNED" ELSE "SUBMISSION_STARTED"
           next == IF pc[w] = "markSigned" THEN "markStarted" ELSE "submit"
<1> USE DEF nonceVars, netVars
<1>1. pc[w] \in {"markSigned", "markStarted"} /\ Transition(w, pc[w], s, next)
  BY DEF MarkSigned, MarkStarted, Transition
<1>2. CASE ~CanMove(r, s)
  BY <1>1, <1>2, ReturnKeepsInv DEF Transition, opVars
<1>3. CASE CanMove(r, s)
  <2>1. r \in Requests
    BY <1>1 DEF Inv, CallsRun
  <2>2. /\ opState' = [opState EXCEPT ![r] = s]
        /\ pc' = [pc EXCEPT ![w] = next]
        /\ UNCHANGED <<req, held, outcome, reply, nonceVars, opNonce, opSig,
                       opReceipt, ledger, netVars>>
    BY <1>1, <1>3 DEF Transition, Goto
  <2>3. \/ pc[w] = "markSigned" /\ opState[r] = "ALLOCATED" /\ s = "SIGNED"
           /\ next = "markStarted"
        \/ pc[w] = "markStarted" /\ opState[r] = "SIGNED"
           /\ s = "SUBMISSION_STARTED" /\ next = "submit"
    BY <1>1, <1>3, <2>1, MoveStart
  <2>4. \A v \in Workers : v # w /\ pc[v] \in Owning => req[v] # r
    BY <2>3 DEF Inv, OneOwner, Owning
  <2>5. attempts[r] = 0 /\ opSig[r] # NoNonce
    BY <2>1, <2>3 DEF Inv, SentLate, CopiesFresh, Unsent, Owning, Signing
  <2> HIDE DEF r, s, next
  <2> USE <2>1, <2>2, <2>3, <2>4, <2>5 DEF Inv
  <2>6. TypeOK'
    BY DEF TypeOK, OpStates, Steps, ExecuteSteps
  <2>7. CallsRun'
    BY DEF CallsRun, TypeOK, ReconcileSteps, Terminal
  <2>8. NoncesAgree'
    BY DEF NoncesAgree, TypeOK
  <2>9. CopiesFresh'
    BY DEF CopiesFresh, TypeOK, Owning, Signing, r
  <2>10. OneOwner'
    BY DEF OneOwner, TypeOK, Owning, r
  <2>11. SentLate'
    BY DEF SentLate, TypeOK, Unsent, r
  <2>12. LoggedBeforeSent'
    BY DEF LoggedBeforeSent, TypeOK
  <2> QED BY <2>6, <2>7, <2>8, <2>9, <2>10, <2>11, <2>12
<1> QED BY <1>2, <1>3

-----------------------------------------------------------------------------
LEMMA StepInv == Inv /\ [Next]_vars => Inv'
<1> SUFFICES ASSUME Inv, [Next]_vars PROVE Inv'
  OBVIOUS
<1> USE LaneAssumption, NonceAssumption, SentinelAssumption
    DEF nonceVars, opVars, netVars
<1> USE DEF Inv, TypeOK, CallsRun, NoncesAgree, CopiesFresh, OneOwner, SentLate,
            LoggedBeforeSent, Owning, Signing, Unsent, ReconcileSteps
<1>1. ASSUME NEW w \in Workers, NEW r \in Requests, ExecuteRoom(w, r) PROVE Inv'
  BY <1>1 DEF ExecuteRoom, Call, Goto, Steps, ExecuteSteps
<1>2. ASSUME NEW w \in Workers, NEW r \in Requests, ReconcileRoom(w, r) PROVE Inv'
  BY <1>2 DEF ReconcileRoom, Call, Goto, Steps
<1>3. ASSUME NEW w \in Workers, CreateOperation(w) PROVE Inv'
  BY <1>3 DEF CreateOperation, Goto, Steps, ExecuteSteps, OpStates, Terminal
<1>4. ASSUME NEW w \in Workers, ResumeOperation(w) PROVE Inv'
  BY <1>4 DEF ResumeOperation, Goto, Steps, ExecuteSteps
<1>5. ASSUME NEW w \in Workers, ReserveNonce(w) PROVE Inv'
  <2> DEFINE r == req[w]
             next == NextNonce(w)
  <2>1. /\ r \in Requests /\ reserved[r] = NoNonce /\ pc[w] = "reserve"
        /\ next \in Nonces
        /\ counter'  = [counter EXCEPT ![LaneOf[r]] = next]
        /\ reserved' = [reserved EXCEPT ![r] = next]
        /\ held'     = [held EXCEPT ![w] = next]
        /\ pc'       = [pc EXCEPT ![w] = "bind"]
        /\ UNCHANGED <<opVars, ledger, netVars, req, outcome, reply>>
    BY <1>5 DEF ReserveNonce, Take, NextNonce, Goto
  <2>2. \A q \in Requests : LaneOf[q] = LaneOf[r] => reserved[q] < next
    BY <2>1 DEF NextNonce
  <2>3. opNonce[r] = NoNonce /\ opState[r] \in {"ABSENT", "ALLOCATED"}
    BY <2>1
  <2> HIDE DEF next
  <2>4. TypeOK'
    BY <2>1 DEF Steps, ExecuteSteps
  <2>5. NoncesAgree'
    <3>1. \A q \in Requests : reserved'[q] <= counter'[LaneOf[q]]
      BY <2>1, <2>2 DEF next, NextNonce
    <3>2. \A q \in Requests : opNonce'[q] \in {NoNonce, reserved'[q]}
      BY <2>1, <2>3
    <3> QED BY <2>1, <2>2, <3>1, <3>2
  <2>6. CallsRun' /\ CopiesFresh' /\ OneOwner' /\ SentLate' /\ LoggedBeforeSent'
    BY <2>1, <2>3
  <2> QED BY <2>4, <2>5, <2>6
<1>6. ASSUME NEW w \in Workers, ReuseReservation(w) PROVE Inv'
  BY <1>6 DEF ReuseReservation, Goto, Steps, ExecuteSteps
<1>7. ASSUME NEW w \in Workers,
             ReturnRecorded(w) \/ NonceExhausted(w) \/ QueryInconclusive(w)
      PROVE  Inv'
  BY <1>7, ReturnKeepsInv DEF ReturnRecorded, NonceExhausted, QueryInconclusive
<1>8. ASSUME NEW l \in Lanes, SignRoom(l) PROVE Inv'
  BY <1>8 DEF SignRoom, callVars
<1>9. ASSUME NEW w \in Workers, BindNonce(w) PROVE Inv'
  <2>1. /\ req[w] \in Requests /\ pc[w] = "bind"
        /\ opNonce' = [opNonce EXCEPT ![req[w]] = held[w]]
        /\ pc' = [pc EXCEPT ![w] = "sign"]
        /\ UNCHANGED <<req, held, outcome, reply, nonceVars, opState, opSig,
                       opReceipt, ledger, netVars>>
    BY <1>9 DEF BindNonce, Goto
  <2>2. opSig[req[w]] \in {NoNonce, held[w]} /\ held[w] = reserved[req[w]] /\ held[w] # NoNonce
    BY <2>1
  <2>3. opNonce[req[w]] \in {NoNonce, held[w]}
    BY <2>1
  <2>4. TypeOK'
    BY <2>1 DEF Steps, ExecuteSteps
  <2>5. CallsRun' /\ NoncesAgree' /\ CopiesFresh'
    BY <2>1, <2>2
  <2>6. OneOwner' /\ SentLate'
    BY <2>1
  <2>7. LoggedBeforeSent'
    BY <2>1, <2>2, <2>3 DEF Messages, Posts
  <2> QED BY <2>4, <2>5, <2>6, <2>7
<1>10. ASSUME NEW w \in Workers, RecordSignature(w) PROVE Inv'
  BY <1>10 DEF RecordSignature, Goto, Steps, ExecuteSteps
<1>11. ASSUME NEW w \in Workers, MarkSigned(w) \/ MarkStarted(w) PROVE Inv'
  BY <1>11, TransitionKeepsInv
<1>12. ASSUME NEW w \in Workers,
              RefuseRoom(w) \/ ReadReceipt(w) \/ ReadRefusal(w) \/ GiveUp(w)
       PROVE  Inv'
  BY <1>12, LearnKeepsInv DEF RefuseRoom, ReadReceipt, ReadRefusal, GiveUp, Outcomes
<1>13. ASSUME NEW w \in Workers, Post(w) PROVE Inv'
  <2> DEFINE m == [request |-> req[w], nonce |-> held[w], by |-> w]
  <2>1. /\ req[w] \in Requests /\ pc[w] = "submit"
        /\ wire' = wire \cup {m}
        /\ attempts' = [attempts EXCEPT ![req[w]] = @ + 1]
        /\ pc' = [pc EXCEPT ![w] = "await"]
        /\ UNCHANGED <<nonceVars, opVars, ledger, stored, req, held, outcome, reply>>
    BY <1>13 DEF Post, Goto
  <2>2. /\ held[w] \in Nonces
        /\ opState[req[w]] = "SUBMISSION_STARTED"
        /\ opNonce[req[w]] = held[w] /\ opSig[req[w]] = held[w]
    BY <2>1
  <2>3. m \in Posts
    BY <2>1, <2>2 DEF Posts
  <2>4. m.request = req[w] /\ m.nonce = held[w]
    OBVIOUS
  <2> HIDE DEF m
  <2>5. TypeOK'
    BY <2>1, <2>3 DEF Steps, ExecuteSteps
  <2>6. CallsRun' /\ NoncesAgree' /\ CopiesFresh' /\ OneOwner'
    BY <2>1
  <2>7. SentLate'
    BY <2>1, <2>2
  <2>8. LoggedBeforeSent'
    BY <2>1, <2>2, <2>4
  <2> QED BY <2>5, <2>6, <2>7, <2>8
<1>14. ASSUME NEW w \in Workers, RecordOffline(w) PROVE Inv'
  BY <1>14 DEF RecordOffline, Learn, Goto, Steps, ExecuteSteps, Outcomes
<1>15. ASSUME NEW p \in wire, RoomStores(p) PROVE Inv'
  <2>1. p \in Posts
    OBVIOUS
  <2>2. TypeOK'
    <3>1. stored' \subseteq Messages
      BY <1>15, <2>1 DEF RoomStores, Posts, Messages
    <3>2. reply' \in [Workers -> {"none", "stored", "refused"}]
      BY <1>15, <2>1 DEF RoomStores
    <3> QED BY <1>15, <3>1, <3>2 DEF RoomStores
  <2>3. CallsRun' /\ NoncesAgree' /\ CopiesFresh' /\ OneOwner' /\ SentLate'
    BY <1>15 DEF RoomStores
  <2>4. LoggedBeforeSent'
    BY <1>15 DEF RoomStores
  <2> QED BY <2>2, <2>3, <2>4
<1>16. ASSUME NEW p \in wire, RoomRefuses(p) PROVE Inv'
  <2>1. TypeOK'
    <3>1. reply' \in [Workers -> {"none", "stored", "refused"}]
      BY <1>16 DEF RoomRefuses, Posts
    <3> QED BY <1>16, <3>1 DEF RoomRefuses
  <2>2. CallsRun' /\ NoncesAgree' /\ CopiesFresh' /\ OneOwner' /\ SentLate' /\ LoggedBeforeSent'
    BY <1>16 DEF RoomRefuses
  <2> QED BY <2>1, <2>2
<1>17. ASSUME NEW w \in Workers, Resolve(w) PROVE Inv'
  <2>1. StateFor(outcome[w]) \in {"ACCEPTED", "UNKNOWN", "FAILED_FINAL"}
    BY DEF StateFor
  <2> QED BY <1>17, <2>1, SettleKeepsInv DEF Resolve
<1>18. ASSUME NEW w \in Workers, QueryRoom(w) PROVE Inv'
  BY <1>18 DEF QueryRoom, Findings, Goto, Steps, Outcomes
<1>19. ASSUME NEW w \in Workers, MarkReconciled(w) PROVE Inv'
  BY <1>19, SettleKeepsInv DEF MarkReconciled
<1>20. ASSUME NEW w \in Workers, AppendEvidence(w) PROVE Inv'
  <2>1. req[w] \in Requests /\ opState[req[w]] \in Terminal
    BY <1>20 DEF AppendEvidence
  <2>2. opNonce[req[w]] \in Nonces
    <3>1. opSig[req[w]] # NoNonce
      BY <2>1 DEF Terminal
    <3>2. opNonce[req[w]] # NoNonce /\ opNonce[req[w]] \in 0..MaxNonce
      BY <2>1, <3>1
    <3> QED BY <3>2
  <2>3. ledger' \in Seq(Entries)
    BY <1>20, <2>1, <2>2 DEF AppendEvidence, Entries
  <2>4. TypeOK'
    BY <1>20, <2>3 DEF AppendEvidence, Return, Goto
  <2>5. CallsRun' /\ NoncesAgree' /\ CopiesFresh' /\ OneOwner' /\ SentLate' /\ LoggedBeforeSent'
    BY <1>20 DEF AppendEvidence, Return, Goto
  <2> QED BY <2>4, <2>5
<1>21. ASSUME NEW ws \in SUBSET Workers, Abort(ws) PROVE Inv'
  BY <1>21, AbortKeepsInv
<1>22. CASE UNCHANGED vars
  BY <1>22 DEF vars, callVars
<1> QED
  BY <1>1, <1>2, <1>3, <1>4, <1>5, <1>6, <1>7, <1>8, <1>9, <1>10, <1>11, <1>12,
     <1>13, <1>14, <1>15, <1>16, <1>17, <1>18, <1>19, <1>20, <1>21, <1>22
  DEF Next, Run, Execute, Transmit, Submit, Reconcile, Room

\* Spec keeps the inductive invariant, for any number of requests, threads,
\* lanes and nonces and in both modes.
THEOREM Invariance == Spec => []Inv
BY InitInv, StepInv, PTL DEF Spec

\* Type correctness.
THEOREM TypeCorrect == Spec => []TypeOK
<1>1. Inv => TypeOK
  BY DEF Inv
<1> QED BY <1>1, Invariance, PTL

\* Each approved request leaves at most once, however threads and crashes
\* interleave.
THEOREM AtMostOnce == Spec => []SentAtMostOnce
<1>1. Inv => SentAtMostOnce
  BY DEF Inv, SentLate, SentAtMostOnce
<1> QED BY <1>1, Invariance, PTL

\* No nonce signs two requests of one room.
THEOREM NonceUnique == Spec => []NonceNeverShared
<1>1. Inv => NonceNeverShared
  BY DEF Inv, NoncesAgree, NonceNeverShared, TypeOK
<1> QED BY <1>1, Invariance, PTL

\* What has left was durably recorded, signed under the recorded nonce.
THEOREM WriteAhead == Spec => []LoggedBeforeSent
<1>1. Inv => LoggedBeforeSent
  BY DEF Inv
<1> QED BY <1>1, Invariance, PTL

-----------------------------------------------------------------------------
(***************************************************************************)
(* What final records and the ledger say: a second invariant on top of     *)
(* Inv, about the one message of each request, what a call has heard of    *)
(* it, and who may still write its evidence.                               *)
(***************************************************************************)

\* The message [request |-> r, nonce |-> n] is in the room.
InRoom(r, n) == [request |-> r, nonce |-> n] \in stored
\* Nothing of request r is in the room or on its way to it.
Nowhere(r) == \A m \in wire \cup stored : m.request # r

\* A request has at most one message, none before it is sent, and offline none.
OneMessage ==
    /\ Mode # "live" => wire \cup stored = {}
    /\ \A r \in Requests : attempts[r] = 0 => Nowhere(r)
    /\ \A m, n \in wire : m.request = n.request => m = n
    /\ \A m \in wire, n \in stored : m.request # n.request

\* A reply waits only on the connection of the call it is for, and is true.
HeardTrue == \A w \in Workers :
    /\ pc[w] # "await" => reply[w] = "none"
    /\ reply[w] = "stored"  => InRoom(req[w], held[w])
    /\ reply[w] = "refused" => Nowhere(req[w])

\* So is, live, the outcome a call goes on with.
LearntTrue == Mode = "live" => \A w \in Workers :
    /\ pc[w] = "resolve" /\ outcome[w] = "accepted" => InRoom(req[w], held[w])
    /\ pc[w] = "resolve" /\ outcome[w] \notin {"accepted", "unknown"} => Nowhere(req[w])
    /\ pc[w] = "markReconciled" => outcome[w] = "accepted" /\ InRoom(req[w], held[w])

\* One thread at most owes the ledger the entry of a request that has none.
OneWitness == \A v, w \in Workers :
    pc[w] = "evidence" =>
        /\ \A i \in 1..Len(ledger) : ledger[i].request # req[w]
        /\ pc[v] = "evidence" /\ req[v] = req[w] => v = w

TruthInv == OneMessage /\ HeardTrue /\ LearntTrue /\ VerdictTrue
RecordInv == OneWitness /\ LedgerAgrees

\* The first state has no messages, calls or entries.
LEMMA InitTruth == Init => TruthInv /\ RecordInv
BY DEF Init, TruthInv, RecordInv, OneMessage, HeardTrue, LearntTrue, VerdictTrue, OneWitness,
       LedgerAgrees, Nowhere, Terminal

\* A step that changes neither nonces nor records nor, upwards, a counter.
Stable ==
    /\ \A l \in Lanes : counter'[l] >= counter[l]
    /\ \A r \in Requests :
         /\ reserved[r] # NoNonce => reserved'[r] = reserved[r]
         /\ opNonce[r] # NoNonce => opNonce'[r] = opNonce[r]
         /\ opState[r] \in Terminal => opState'[r] = opState[r] /\ opReceipt'[r] = opReceipt[r]

\* Nonces once taken and records once final stay in every step.
LEMMA StableStep == Inv /\ [Next]_vars => Stable
<1> SUFFICES ASSUME Inv, [Next]_vars PROVE Stable
  OBVIOUS
<1>0. TypeOK /\ NoncesAgree /\ CallsRun /\ CopiesFresh
  BY DEF Inv
<1>1. CASE UNCHANGED <<nonceVars, opVars>>
  BY <1>0, <1>1, NonceAssumption DEF nonceVars, opVars, Stable, TypeOK
<1>2. ASSUME NEW w \in Workers, CreateOperation(w) PROVE Stable
  BY <1>0, <1>2, NonceAssumption DEF CreateOperation, nonceVars, Stable, TypeOK, Terminal
<1>3. ASSUME NEW w \in Workers, ReserveNonce(w) PROVE Stable
  BY <1>0, <1>3, NonceAssumption, LaneAssumption
    DEF ReserveNonce, Take, NextNonce, opVars, Stable, TypeOK, CallsRun
<1>4. ASSUME NEW l \in Lanes, SignRoom(l) PROVE Stable
  BY <1>0, <1>4, NonceAssumption DEF SignRoom, opVars, Stable, TypeOK
<1>5. ASSUME NEW w \in Workers, BindNonce(w) PROVE Stable
  BY <1>0, <1>5, NonceAssumption DEF BindNonce, nonceVars, Stable, TypeOK, CallsRun
<1>6. ASSUME NEW w \in Workers, RecordSignature(w) PROVE Stable
  BY <1>0, <1>6, NonceAssumption DEF RecordSignature, nonceVars, Stable, TypeOK
<1>7. ASSUME NEW w \in Workers, NEW s,
             CanMove(req[w], s) => opState' = [opState EXCEPT ![req[w]] = s],
             ~CanMove(req[w], s) => UNCHANGED <<opState, opReceipt>>,
             \A r \in Requests : r # req[w] => opReceipt'[r] = opReceipt[r],
             req[w] \in Requests, UNCHANGED <<nonceVars, opNonce>>
      PROVE  Stable
  <2>1. CanMove(req[w], s) => opState[req[w]] \notin Terminal
    BY <1>7, MoveStart
  <2> QED BY <1>0, <1>7, <2>1, NonceAssumption DEF nonceVars, Stable, TypeOK
<1>8. ASSUME NEW w \in Workers, MarkSigned(w) \/ MarkStarted(w) PROVE Stable
  <2>1. CASE MarkSigned(w)
    BY <1>0, <1>7, <2>1 DEF MarkSigned, Transition, CallsRun
  <2>2. CASE MarkStarted(w)
    BY <1>0, <1>7, <2>2 DEF MarkStarted, Transition, CallsRun
  <2> QED BY <1>8, <2>1, <2>2
<1>9. ASSUME NEW w \in Workers, Resolve(w) \/ MarkReconciled(w) PROVE Stable
  <2>1. req[w] \in Requests
    BY <1>0, <1>9 DEF Resolve, MarkReconciled, CallsRun
  <2>2. ASSUME NEW s, Settle(w, s), UNCHANGED <<nonceVars, opNonce>> PROVE Stable
    BY <1>0, <1>7, <2>1, <2>2 DEF Settle, TypeOK
  <2> QED BY <1>9, <2>2 DEF Resolve, MarkReconciled
<1>10. ASSUME NEW w \in Workers, Run(w) PROVE Stable
  BY <1>1, <1>2, <1>3, <1>5, <1>6, <1>8, <1>9, <1>10
    DEF Run, Execute, Transmit, Reconcile, ResumeOperation, ReturnRecorded, ReuseReservation,
        NonceExhausted, RefuseRoom, Submit, Post, RecordOffline, ReadReceipt, ReadRefusal, GiveUp,
        AppendEvidence, QueryRoom, QueryInconclusive
<1>11. ASSUME NEW w \in Workers, NEW r \in Requests, ExecuteRoom(w, r) \/ ReconcileRoom(w, r)
       PROVE  Stable
  BY <1>1, <1>11 DEF ExecuteRoom, ReconcileRoom
<1>12. CASE Room \/ \E ws \in SUBSET Workers : Abort(ws)
  BY <1>1, <1>12 DEF Room, RoomStores, RoomRefuses, Abort
<1>13. CASE UNCHANGED vars
  BY <1>1, <1>13 DEF vars
<1> QED BY <1>4, <1>10, <1>11, <1>12, <1>13 DEF Next

-----------------------------------------------------------------------------
\* The steps that leave the network alone, as far as it is seen here.
LEMMA NetworkSteps ==
    ASSUME Inv, [Next]_vars,
           ~(\E w \in Workers : Post(w)), ~(\E p \in wire : RoomStores(p) \/ RoomRefuses(p))
    PROVE  /\ UNCHANGED <<wire, stored>>
           /\ \A r \in Requests : attempts'[r] = 0 => attempts[r] = 0
<1>1. CASE UNCHANGED netVars
  BY <1>1 DEF netVars
<1>2. ASSUME NEW w \in Workers, RecordOffline(w) PROVE
           /\ UNCHANGED <<wire, stored>>
           /\ \A r \in Requests : attempts'[r] = 0 => attempts[r] = 0
  BY <1>2 DEF RecordOffline, Inv, TypeOK
<1>3. ASSUME NEW w \in Workers, Run(w), ~Post(w), ~RecordOffline(w) PROVE UNCHANGED netVars
  BY <1>3
    DEF Run, Execute, Transmit, Reconcile, CreateOperation, ResumeOperation, ReturnRecorded, ReserveNonce,
        Take, ReuseReservation, NonceExhausted, BindNonce, RecordSignature, MarkSigned, MarkStarted,
        Transition, RefuseRoom, Submit, ReadReceipt, ReadRefusal, GiveUp, Resolve, AppendEvidence,
        QueryRoom, QueryInconclusive, MarkReconciled
<1>4. ASSUME NEW ws, Abort(ws) PROVE UNCHANGED netVars
  BY <1>4 DEF Abort
<1>5. ASSUME NEW w \in Workers, NEW r \in Requests, ExecuteRoom(w, r) \/ ReconcileRoom(w, r)
      PROVE  UNCHANGED netVars
  BY <1>5 DEF ExecuteRoom, ReconcileRoom
<1>6. ASSUME NEW l \in Lanes, SignRoom(l) PROVE UNCHANGED netVars
  BY <1>6 DEF SignRoom
<1>7. CASE UNCHANGED vars
  BY <1>7 DEF vars, netVars
<1> QED BY <1>1, <1>2, <1>3, <1>4, <1>5, <1>6, <1>7 DEF Next, Room

\* Each request keeps its one message.
LEMMA OneMessageStep == Inv /\ OneMessage /\ [Next]_vars => OneMessage'
<1> SUFFICES ASSUME Inv, OneMessage, [Next]_vars PROVE OneMessage'
  OBVIOUS
<1>1. ASSUME NEW w \in Workers, Post(w) PROVE OneMessage'
  <2>1. /\ Mode = "live" /\ req[w] \in Requests /\ attempts[req[w]] = 0 /\ Nowhere(req[w])
        /\ attempts' = [attempts EXCEPT ![req[w]] = @ + 1] /\ UNCHANGED stored
        /\ wire' = wire \cup {[request |-> req[w], nonce |-> held[w], by |-> w]}
    BY <1>1 DEF Post, Inv, CallsRun, SentLate, OneMessage
  <2> QED BY <2>1 DEF OneMessage, Nowhere, Inv, TypeOK
<1>2. ASSUME NEW p \in wire, RoomStores(p) PROVE OneMessage'
  BY <1>2 DEF RoomStores, OneMessage, Nowhere, Inv, TypeOK
<1>3. ASSUME NEW p \in wire, RoomRefuses(p) PROVE OneMessage'
  BY <1>3 DEF RoomRefuses, OneMessage, Nowhere
<1>4. CASE /\ UNCHANGED <<wire, stored>>
           /\ \A r \in Requests : attempts'[r] = 0 => attempts[r] = 0
  BY <1>4 DEF OneMessage, Nowhere
<1> QED BY <1>1, <1>2, <1>3, <1>4, NetworkSteps

-----------------------------------------------------------------------------
\* A call that a step leaves as it is.
Keeps(w) == /\ pc'[w] = pc[w] /\ req'[w] = req[w] /\ held'[w] = held[w]
            /\ outcome'[w] = outcome[w] /\ reply'[w] = reply[w]

\* A call that a step ends from outside.
Gone(w) == pc'[w] = "idle" /\ reply'[w] = "none"

\* A step leaves a call as it is, ends it, or is the call's own.
LEMMA OthersKeep ==
    ASSUME Inv, [Next]_vars, ~Room, NEW v \in Workers
    PROVE  \/ Keeps(v) \/ Gone(v)
           \/ Run(v) \/ \E r \in Requests : ExecuteRoom(v, r) \/ ReconcileRoom(v, r)
<1>0. TypeOK
  BY DEF Inv
<1>1. CASE \E l \in Lanes : SignRoom(l)
  BY <1>1 DEF SignRoom, callVars, Keeps
<1>2. CASE UNCHANGED vars
  BY <1>2 DEF vars, callVars, Keeps
<1>3. ASSUME NEW w \in Workers, v # w,
             \E r \in Requests : ExecuteRoom(w, r) \/ ReconcileRoom(w, r)
      PROVE  Keeps(v)
  BY <1>0, <1>3 DEF ExecuteRoom, ReconcileRoom, Call, Return, Goto, TypeOK, Keeps
<1>4. ASSUME NEW w \in Workers, v # w, Run(w) PROVE Keeps(v)
  <2>1. CASE Submit(w) \/ Reconcile(w) \/ Resolve(w) \/ AppendEvidence(w)
    BY <1>0, <1>4, <2>1
      DEF Submit, Post, RecordOffline, Learn, Reconcile, QueryRoom, QueryInconclusive,
          MarkReconciled, Resolve, Settle, AppendEvidence, Return, Goto, TypeOK, Keeps
  <2>2. CASE ReadReceipt(w) \/ ReadRefusal(w) \/ GiveUp(w) \/ RefuseRoom(w)
    BY <1>0, <1>4, <2>2 DEF ReadReceipt, ReadRefusal, GiveUp, RefuseRoom, Learn, Goto, TypeOK, Keeps
  <2>3. CASE \/ CreateOperation(w) \/ ResumeOperation(w) \/ ReturnRecorded(w) \/ ReserveNonce(w)
             \/ ReuseReservation(w) \/ NonceExhausted(w)
    BY <1>0, <1>4, <2>3
      DEF CreateOperation, ResumeOperation, ReturnRecorded, ReserveNonce, Take, ReuseReservation,
          NonceExhausted, Return, Goto, TypeOK, Keeps
  <2>4. CASE BindNonce(w) \/ RecordSignature(w) \/ MarkSigned(w) \/ MarkStarted(w)
    BY <1>0, <1>4, <2>4
      DEF BindNonce, RecordSignature, MarkSigned, MarkStarted, Transition, Return, Goto, TypeOK, Keeps
  <2> QED BY <1>4, <2>1, <2>2, <2>3, <2>4 DEF Run, Execute, Transmit
<1>5. ASSUME NEW ws, Abort(ws) PROVE Keeps(v) \/ Gone(v)
  BY <1>5 DEF Abort, Keeps, Gone
<1> QED BY <1>1, <1>2, <1>3, <1>4, <1>5 DEF Next

\* A call that takes a step of its own has no reply waiting after it.
LEMMA OwnStepEmpties ==
    ASSUME Inv, HeardTrue, NEW w \in Workers,
           Run(w) \/ \E r \in Requests : ExecuteRoom(w, r) \/ ReconcileRoom(w, r)
    PROVE  reply'[w] = "none"
<1>0. TypeOK /\ (pc[w] # "await" => reply[w] = "none")
  BY DEF Inv, HeardTrue
<1>1. CASE \E r \in Requests : ExecuteRoom(w, r) \/ ReconcileRoom(w, r)
  BY <1>0, <1>1 DEF ExecuteRoom, ReconcileRoom, Call, Return, TypeOK
<1>2. CASE Submit(w) \/ Reconcile(w) \/ Resolve(w) \/ AppendEvidence(w)
  BY <1>0, <1>2
    DEF Submit, Post, RecordOffline, Learn, Reconcile, QueryRoom, QueryInconclusive,
        MarkReconciled, Resolve, Settle, AppendEvidence, Return, TypeOK
<1>3. CASE ReadReceipt(w) \/ ReadRefusal(w) \/ GiveUp(w) \/ RefuseRoom(w)
  BY <1>0, <1>3 DEF ReadReceipt, ReadRefusal, GiveUp, RefuseRoom, Learn, TypeOK
<1>4. CASE \/ CreateOperation(w) \/ ResumeOperation(w) \/ ReturnRecorded(w) \/ ReserveNonce(w)
           \/ ReuseReservation(w) \/ NonceExhausted(w)
  BY <1>0, <1>4
    DEF CreateOperation, ResumeOperation, ReturnRecorded, ReserveNonce, Take, ReuseReservation,
        NonceExhausted, Return, TypeOK
<1>5. CASE BindNonce(w) \/ RecordSignature(w) \/ MarkSigned(w) \/ MarkStarted(w)
  BY <1>0, <1>5
    DEF BindNonce, RecordSignature, MarkSigned, MarkStarted, Transition, Return, TypeOK
<1> QED BY <1>1, <1>2, <1>3, <1>4, <1>5 DEF Run, Execute, Transmit

\* What left before is not undone, and only a post sends something new.
LEMMA NetworkGrows ==
    ASSUME Inv, OneMessage, [Next]_vars
    PROVE  /\ \A r, n : InRoom(r, n) => InRoom(r, n)'
           /\ \A r : Nowhere(r) /\ ~Nowhere(r)' => \E w \in Workers : Post(w) /\ req[w] = r
<1>1. ASSUME NEW w \in Workers, Post(w) PROVE
        /\ UNCHANGED stored
        /\ \A r : Nowhere(r) /\ ~Nowhere(r)' => req[w] = r
  BY <1>1 DEF Post, Nowhere
<1>2. ASSUME NEW p \in wire, RoomStores(p) PROVE
        stored \subseteq stored' /\ \A r : Nowhere(r) => Nowhere(r)'
  BY <1>2 DEF RoomStores, Nowhere
<1>3. ASSUME NEW p \in wire, RoomRefuses(p) PROVE
        UNCHANGED stored /\ \A r : Nowhere(r) => Nowhere(r)'
  BY <1>3 DEF RoomRefuses, Nowhere
<1>4. CASE UNCHANGED <<wire, stored>>
  BY <1>4 DEF Nowhere, InRoom
<1> QED BY <1>1, <1>2, <1>3, <1>4, NetworkSteps DEF InRoom

\* What calls hear stays true.
LEMMA HeardStep == Inv /\ OneMessage /\ HeardTrue /\ [Next]_vars => HeardTrue'
<1> SUFFICES ASSUME Inv, OneMessage, HeardTrue, [Next]_vars PROVE HeardTrue'
  OBVIOUS
<1>0. TypeOK /\ CallsRun /\ CopiesFresh /\ OneOwner /\ LoggedBeforeSent
  BY DEF Inv
<1>1. CASE ~Room
  <2>1. ASSUME NEW v \in Workers, Keeps(v)
        PROVE  /\ pc'[v] # "await" => reply'[v] = "none"
               /\ reply'[v] = "stored" => InRoom(req[v], held[v])'
               /\ reply'[v] = "refused" => Nowhere(req[v])'
    <3>1. ASSUME NEW w \in Workers, Post(w), reply[v] = "refused" PROVE req[w] # req[v]
      BY <1>0, <3>1 DEF HeardTrue, Post, OneOwner, Owning
    <3> QED BY <2>1, <3>1, NetworkGrows DEF Keeps, HeardTrue, InRoom, Nowhere
  <2>2. \A v \in Workers : Keeps(v) \/ reply'[v] = "none"
    BY <1>1, OthersKeep, OwnStepEmpties DEF Gone
  <2> QED BY <2>1, <2>2 DEF HeardTrue
<1>2. ASSUME NEW p \in wire, RoomStores(p) PROVE HeardTrue'
  <2>1. /\ UNCHANGED <<pc, req, held>> /\ p \in Posts
        /\ stored' = stored \cup {[request |-> p.request, nonce |-> p.nonce]}
        /\ reply' = [reply EXCEPT ![p.by] = IF Listening(p) THEN "stored" ELSE @]
    BY <1>0, <1>2 DEF RoomStores, TypeOK
  <2>2. p.by \in Workers /\ (Listening(p) => req[p.by] = p.request /\ held[p.by] = p.nonce)
    BY <1>0, <2>1 DEF Listening, Posts, CopiesFresh, LoggedBeforeSent, Signing, Owning
  <2>3. \A v \in Workers : reply'[v] = reply[v] \/ (v = p.by /\ Listening(p) /\ reply'[v] = "stored")
    BY <1>0, <2>1 DEF TypeOK
  <2>4. \A r, n : InRoom(r, n) => InRoom(r, n)'
    BY NetworkGrows
  <2>5. \A r : Nowhere(r) => Nowhere(r)'
    BY <1>2 DEF RoomStores, Nowhere
  <2>6. Listening(p) => InRoom(req[p.by], held[p.by])' /\ pc[p.by] = "await"
    BY <2>1, <2>2 DEF InRoom, Listening
  <2> QED BY <2>1, <2>3, <2>4, <2>5, <2>6 DEF HeardTrue, InRoom, Nowhere
<1>3. ASSUME NEW p \in wire, RoomRefuses(p) PROVE HeardTrue'
  <2>1. /\ UNCHANGED <<pc, req, held, stored>> /\ p \in Posts /\ wire' = wire \ {p}
        /\ reply' = [reply EXCEPT ![p.by] = IF Listening(p) THEN "refused" ELSE @]
    BY <1>0, <1>3 DEF RoomRefuses, TypeOK
  <2>2. Nowhere(p.request)'
    BY <2>1 DEF Nowhere, OneMessage
  <2>3. \A v \in Workers : \/ reply'[v] = reply[v]
                           \/ pc[v] = "await" /\ req[v] = p.request /\ reply'[v] = "refused"
    BY <1>0, <2>1 DEF TypeOK, Listening
  <2>4. \A r : Nowhere(r) => Nowhere(r)'
    BY <2>1 DEF Nowhere
  <2> QED BY <2>1, <2>2, <2>3, <2>4 DEF HeardTrue, InRoom, Nowhere
<1> QED BY <1>1, <1>2, <1>3 DEF Room

\* What calls learn stays true.
LEMMA LearntStep == Inv /\ TruthInv /\ [Next]_vars => LearntTrue'
<1> SUFFICES ASSUME Inv, TruthInv, [Next]_vars, Mode = "live", NEW v \in Workers
             PROVE  /\ pc'[v] = "resolve" /\ outcome'[v] = "accepted" => InRoom(req[v], held[v])'
                    /\ pc'[v] = "resolve" /\ outcome'[v] \notin {"accepted", "unknown"} =>
                         Nowhere(req[v])'
                    /\ pc'[v] = "markReconciled" =>
                         outcome'[v] = "accepted" /\ InRoom(req[v], held[v])'
  BY DEF LearntTrue, InRoom, Nowhere
<1>0. /\ TypeOK /\ CallsRun /\ OneOwner /\ SentLate
      /\ OneMessage /\ HeardTrue /\ LearntTrue
  BY DEF Inv, TruthInv
<1>1. CASE pc'[v] = pc[v] /\ req'[v] = req[v] /\ held'[v] = held[v] /\ outcome'[v] = outcome[v]
  <2>1. ASSUME NEW w \in Workers, Post(w), pc[v] = "resolve" PROVE req[w] # req[v]
    BY <1>0, <2>1 DEF Post, OneOwner, Owning
  <2> QED BY <1>0, <1>1, <2>1, NetworkGrows DEF LearntTrue, InRoom, Nowhere
<1>2. CASE Room
  BY <1>1, <1>2 DEF Room, RoomStores, RoomRefuses
<1>3. CASE Run(v) \/ \E r \in Requests : ExecuteRoom(v, r) \/ ReconcileRoom(v, r)
  <2>1. CASE RefuseRoom(v) \/ ReadReceipt(v) \/ ReadRefusal(v) \/ GiveUp(v)
    <3>1. UNCHANGED <<req, held, wire, stored>> /\ pc'[v] = "resolve"
      BY <1>0, <2>1 DEF RefuseRoom, ReadReceipt, ReadRefusal, GiveUp, Learn, Goto, TypeOK, netVars
    <3>2. /\ outcome'[v] = "accepted" => InRoom(req[v], held[v])
          /\ outcome'[v] \notin {"accepted", "unknown"} => Nowhere(req[v])
      <4>1. CASE RefuseRoom(v)
        BY <1>0, <4>1 DEF RefuseRoom, Learn, TypeOK, OneMessage, SentLate, CallsRun
      <4>2. CASE ReadReceipt(v)
        BY <1>0, <4>2 DEF ReadReceipt, Learn, TypeOK, HeardTrue
      <4>3. CASE ReadRefusal(v)
        BY <1>0, <4>3 DEF ReadRefusal, Learn, TypeOK, HeardTrue
      <4>4. CASE GiveUp(v)
        BY <1>0, <4>4 DEF GiveUp, Learn, TypeOK
      <4> QED BY <2>1, <4>1, <4>2, <4>3, <4>4
    <3> QED BY <3>1, <3>2 DEF InRoom, Nowhere
  <2>2. CASE QueryRoom(v)
    BY <1>0, <2>2 DEF QueryRoom, Findings, Goto, TypeOK, InRoom, netVars
  <2>3. CASE Submit(v) /\ ~RefuseRoom(v)
    BY <1>0, <2>3 DEF Submit, Post, RecordOffline, Goto, TypeOK
  <2>4. CASE \/ CreateOperation(v) \/ ResumeOperation(v) \/ ReturnRecorded(v) \/ ReserveNonce(v)
             \/ ReuseReservation(v) \/ NonceExhausted(v)
    BY <1>0, <2>4
      DEF CreateOperation, ResumeOperation, ReturnRecorded, ReserveNonce, Take, ReuseReservation,
          NonceExhausted, Return, Goto, TypeOK
  <2>5. CASE BindNonce(v) \/ RecordSignature(v) \/ MarkSigned(v) \/ MarkStarted(v)
    BY <1>0, <2>5
      DEF BindNonce, RecordSignature, MarkSigned, MarkStarted, Transition, Return, Goto, TypeOK
  <2>6. CASE Resolve(v) \/ MarkReconciled(v) \/ QueryInconclusive(v) \/ AppendEvidence(v)
    BY <1>0, <2>6
      DEF Resolve, MarkReconciled, QueryInconclusive, AppendEvidence, Settle, Return, Goto, TypeOK
  <2>7. CASE \E r \in Requests : ExecuteRoom(v, r) \/ ReconcileRoom(v, r)
    BY <1>0, <2>7 DEF ExecuteRoom, ReconcileRoom, Call, Goto, TypeOK
  <2> QED BY <1>3, <2>1, <2>2, <2>3, <2>4, <2>5, <2>6, <2>7 DEF Run, Execute, Transmit, Reconcile
<1> QED BY <1>1, <1>2, <1>3, OthersKeep DEF Keeps, Gone

-----------------------------------------------------------------------------
\* Where a record can move: it is settled, or has not been sent before.
LEMMA StateSteps ==
    ASSUME Inv, [Next]_vars, NEW r \in Requests
    PROVE  \/ opState'[r] = opState[r]
           \/ opState[r] \in Unsent /\ opState'[r] \in Unsent \cup {"SUBMISSION_STARTED"}
           \/ \E w \in Workers : (Resolve(w) \/ MarkReconciled(w)) /\ req[w] = r
<1>0. TypeOK /\ CallsRun
  BY DEF Inv
<1>1. CASE UNCHANGED opState
  BY <1>1
<1>2. ASSUME NEW w \in Workers, CreateOperation(w) \/ MarkSigned(w) \/ MarkStarted(w)
      PROVE  \/ opState'[r] = opState[r]
             \/ opState[r] \in Unsent /\ opState'[r] \in Unsent \cup {"SUBMISSION_STARTED"}
  <2>1. CASE CreateOperation(w)
    BY <1>0, <2>1 DEF CreateOperation, TypeOK, Unsent, Terminal
  <2>2. CASE MarkSigned(w)
    BY <1>0, <2>2, MoveStart DEF MarkSigned, Transition, CallsRun, TypeOK, Unsent, Terminal
  <2>3. CASE MarkStarted(w)
    BY <1>0, <2>3, MoveStart DEF MarkStarted, Transition, CallsRun, TypeOK, Unsent, Terminal
  <2> QED BY <1>2, <2>1, <2>2, <2>3
<1>3. ASSUME NEW w \in Workers, Resolve(w) \/ MarkReconciled(w), req[w] # r
      PROVE  opState'[r] = opState[r]
  BY <1>0, <1>3 DEF Resolve, MarkReconciled, Settle, TypeOK
<1>4. ASSUME NEW w \in Workers, Run(w),
             ~CreateOperation(w), ~MarkSigned(w), ~MarkStarted(w), ~Resolve(w), ~MarkReconciled(w)
      PROVE  UNCHANGED opState
  BY <1>4
    DEF Run, Execute, Transmit, Reconcile, ResumeOperation, ReturnRecorded, ReserveNonce, Take,
        ReuseReservation, NonceExhausted, BindNonce, RecordSignature, RefuseRoom, Submit, Post,
        RecordOffline, ReadReceipt, ReadRefusal, GiveUp, AppendEvidence, QueryRoom,
        QueryInconclusive, opVars
<1>5. ASSUME NEW w \in Workers, NEW q \in Requests, ExecuteRoom(w, q) \/ ReconcileRoom(w, q)
      PROVE  UNCHANGED opState
  BY <1>5 DEF ExecuteRoom, ReconcileRoom, opVars
<1>6. CASE Room \/ (\E ws \in SUBSET Workers : Abort(ws)) \/ (\E l \in Lanes : SignRoom(l))
           \/ UNCHANGED vars
  BY <1>6 DEF Room, RoomStores, RoomRefuses, Abort, SignRoom, vars, opVars
<1> QED BY <1>1, <1>2, <1>3, <1>4, <1>5, <1>6 DEF Next

\* Live, a call that settles its record knows why.
LEMMA SettledTrue ==
    ASSUME Inv, TruthInv, Mode = "live", NEW w \in Workers, Resolve(w) \/ MarkReconciled(w),
           opState'[req[w]] # opState[req[w]]
    PROVE  /\ opState'[req[w]] \in {"ACCEPTED", "RECONCILED"} =>
                InRoom(req[w], opNonce[req[w]]) /\ opReceipt'[req[w]]
           /\ opState'[req[w]] = "FAILED_FINAL" => Nowhere(req[w])
           /\ opState[req[w]] = "UNKNOWN" => opState'[req[w]] = "RECONCILED"
<1>0. /\ TypeOK /\ CallsRun /\ CopiesFresh /\ OneOwner /\ LoggedBeforeSent /\ LearntTrue
      /\ req[w] \in Requests
  BY DEF Inv, TruthInv, Resolve, MarkReconciled, CallsRun
<1>1. InRoom(req[w], held[w]) => held[w] = opNonce[req[w]]
  BY <1>0 DEF InRoom, LoggedBeforeSent
<1>2. CASE Resolve(w)
  <2>1. opState'[req[w]] = StateFor(outcome[w]) /\ opState[req[w]] = "SUBMISSION_STARTED"
    BY <1>0, <1>2 DEF Resolve, Settle, TypeOK, OneOwner
  <2>2. outcome[w] = "accepted" => opReceipt'[req[w]]
    BY <1>0, <1>2 DEF Resolve, Settle, HasReceipt, TypeOK
  <2>3. /\ outcome[w] = "accepted" => InRoom(req[w], held[w])
        /\ outcome[w] \notin {"accepted", "unknown"} => Nowhere(req[w])
    BY <1>0, <1>2 DEF Resolve, LearntTrue
  <2> QED BY <1>1, <2>1, <2>2, <2>3 DEF StateFor
<1>3. CASE MarkReconciled(w)
  <2>1. outcome[w] = "accepted" /\ InRoom(req[w], held[w])
    BY <1>0, <1>3 DEF MarkReconciled, LearntTrue
  <2>2. opState'[req[w]] = "RECONCILED" /\ opReceipt'[req[w]]
    BY <1>0, <1>3, <2>1 DEF MarkReconciled, Settle, HasReceipt, TypeOK
  <2> QED BY <1>1, <2>1, <2>2
<1> QED BY <1>2, <1>3

\* Final records stay true.
LEMMA VerdictStep == Inv /\ TruthInv /\ [Next]_vars => VerdictTrue'
<1> SUFFICES ASSUME Inv, TruthInv, [Next]_vars, Mode = "live", NEW r \in Requests
             PROVE  /\ opState'[r] \in {"ACCEPTED", "RECONCILED"} =>
                          InRoom(r, opNonce[r])' /\ opReceipt'[r]
                    /\ opState'[r] = "FAILED_FINAL" => Nowhere(r)'
  BY DEF VerdictTrue, MessageOf, InRoom, Nowhere
<1>0. TypeOK /\ NoncesAgree /\ OneOwner /\ OneMessage /\ VerdictTrue /\ Stable
  BY StableStep DEF Inv, TruthInv
<1>1. opState[r] \in Terminal \cup {"SUBMISSION_STARTED", "UNKNOWN"} => opNonce'[r] = opNonce[r]
  BY <1>0 DEF Stable, NoncesAgree, Terminal
<1>2. ASSUME NEW w \in Workers, Post(w), req[w] = r PROVE opState'[r] \notin Terminal
  BY <1>0, <1>2 DEF Post, OneOwner, opVars, Terminal
<1>3. CASE opState'[r] = opState[r]
  <2>1. opState[r] \in Terminal => opReceipt'[r] = opReceipt[r]
    BY <1>0 DEF Stable
  <2> QED BY <1>0, <1>1, <1>2, <1>3, <2>1, NetworkGrows
        DEF VerdictTrue, MessageOf, InRoom, Nowhere, Terminal
<1>4. ASSUME NEW w \in Workers, Resolve(w) \/ MarkReconciled(w), req[w] = r,
             opState'[r] # opState[r]
      PROVE  /\ opState'[r] \in {"ACCEPTED", "RECONCILED"} => InRoom(r, opNonce[r])' /\ opReceipt'[r]
             /\ opState'[r] = "FAILED_FINAL" => Nowhere(r)'
  <2>1. UNCHANGED <<opNonce, wire, stored>>
    BY <1>4 DEF Resolve, MarkReconciled, netVars
  <2> QED BY <1>4, <2>1, SettledTrue DEF InRoom, Nowhere
<1> QED BY <1>3, <1>4, StateSteps DEF Unsent, Terminal

-----------------------------------------------------------------------------
\* Who comes to owe an entry: the call whose step made the record final.
LEMMA WitnessSteps ==
    ASSUME Inv, [Next]_vars, NEW w \in Workers, pc'[w] = "evidence"
    PROVE  /\ req'[w] = req[w]
           /\ \/ pc[w] = "evidence"
              \/ /\ req[w] \in Requests /\ opState[req[w]] \notin Terminal
                 /\ \A v \in Workers : v # w => Keeps(v)
                 /\ UNCHANGED ledger
<1>0. TypeOK /\ CallsRun
  BY DEF Inv
<1>1. CASE Room
  BY <1>1 DEF Room, RoomStores, RoomRefuses
<1>2. CASE Keeps(w)
  BY <1>2 DEF Keeps
<1>3. CASE Run(w) \/ \E r \in Requests : ExecuteRoom(w, r) \/ ReconcileRoom(w, r)
  <2>1. Resolve(w) \/ MarkReconciled(w)
    <3>1. ASSUME \/ AppendEvidence(w) \/ QueryInconclusive(w) \/ QueryRoom(w) \/ Submit(w)
                 \/ \E r \in Requests : ExecuteRoom(w, r) \/ ReconcileRoom(w, r)
          PROVE  pc'[w] # "evidence"
      BY <1>0, <3>1
        DEF AppendEvidence, QueryInconclusive, QueryRoom, Submit, Post, RecordOffline, Learn,
            ExecuteRoom, ReconcileRoom, Call, Return, Goto, TypeOK
    <3>2. ASSUME RefuseRoom(w) \/ ReadReceipt(w) \/ ReadRefusal(w) \/ GiveUp(w)
                 \/ BindNonce(w) \/ RecordSignature(w) \/ MarkSigned(w) \/ MarkStarted(w)
          PROVE  pc'[w] # "evidence"
      BY <1>0, <3>2
        DEF RefuseRoom, ReadReceipt, ReadRefusal, GiveUp, Learn, BindNonce, RecordSignature,
            MarkSigned, MarkStarted, Transition, Return, Goto, TypeOK
    <3>3. ASSUME \/ CreateOperation(w) \/ ResumeOperation(w) \/ ReturnRecorded(w)
                 \/ ReserveNonce(w) \/ ReuseReservation(w) \/ NonceExhausted(w)
          PROVE  pc'[w] # "evidence"
      BY <1>0, <3>3
        DEF CreateOperation, ResumeOperation, ReturnRecorded, ReserveNonce, Take, ReuseReservation,
            NonceExhausted, Return, Goto, TypeOK
    <3> QED BY <1>3, <3>1, <3>2, <3>3 DEF Run, Execute, Transmit, Reconcile
  <2>2. ASSUME NEW s, Settle(w, s) PROVE req'[w] = req[w] /\ CanMove(req[w], s)
    BY <1>0, <2>2 DEF Settle, Return, Goto, TypeOK
  <2>3. req'[w] = req[w] /\ req[w] \in Requests /\ opState[req[w]] \notin Terminal
    BY <1>0, <2>1, <2>2, MoveStart DEF Resolve, MarkReconciled, CallsRun
  <2>4. \A v \in Workers : v # w => Keeps(v)
    BY <1>0, <2>1
      DEF Resolve, MarkReconciled, Settle, Return, Goto, TypeOK, Keeps
  <2>5. UNCHANGED ledger
    BY <2>1 DEF Resolve, MarkReconciled
  <2> QED BY <2>3, <2>4, <2>5
<1> QED BY <1>1, <1>2, <1>3, OthersKeep DEF Gone

\* The ledger repeats the final records, each once, after every step.
LEMMA RecordStep == Inv /\ RecordInv /\ [Next]_vars => RecordInv'
<1> SUFFICES ASSUME Inv, RecordInv, [Next]_vars PROVE RecordInv'
  OBVIOUS
<1>0. TypeOK /\ CallsRun /\ OneWitness /\ LedgerAgrees /\ Stable
  BY StableStep DEF Inv, RecordInv
<1>1. ASSUME NEW i \in 1..Len(ledger)
      PROVE  /\ ledger[i].request \in Requests /\ ledger[i].nonce \in Nonces
             /\ ledger[i].nonce = opNonce[ledger[i].request]
             /\ opState[ledger[i].request] \in Terminal
  <2>1. ledger[i] \in Entries
    BY <1>0 DEF TypeOK
  <2>2. /\ ledger[i].nonce = opNonce[ledger[i].request]
        /\ ledger[i].result = opState[ledger[i].request]
    <3> DEFINE e == ledger[i]
    <3>1. e = [request |-> e.request, nonce |-> opNonce[e.request],
               result |-> opState[e.request], receipt |-> opReceipt[e.request]]
      BY <1>0 DEF LedgerAgrees
    <3> QED BY <3>1
  <2> QED BY <2>1, <2>2 DEF Entries
<1>2. ASSUME NEW w \in Workers, AppendEvidence(w) PROVE RecordInv'
  <2> DEFINE e == [request |-> req[w], nonce |-> opNonce[req[w]],
                   result |-> opState[req[w]], receipt |-> opReceipt[req[w]]]
  <2>1. /\ ledger' = Append(ledger, e) /\ pc[w] = "evidence" /\ pc'[w] = "idle"
        /\ UNCHANGED <<opNonce, opState, opReceipt>>
        /\ \A v \in Workers : v # w => pc'[v] = pc[v] /\ req'[v] = req[v]
    BY <1>0, <1>2 DEF AppendEvidence, Return, Goto, TypeOK, opVars
  <2>2. e.request = req[w] /\ e = [request |-> e.request, nonce |-> opNonce[e.request],
                   result |-> opState[e.request], receipt |-> opReceipt[e.request]]
    OBVIOUS
  <2> HIDE DEF e
  <2>3. /\ Len(ledger') = Len(ledger) + 1 /\ ledger'[Len(ledger) + 1] = e
        /\ \A i \in 1..Len(ledger) : ledger'[i] = ledger[i]
        /\ Len(ledger) \in Nat
    BY <1>0, <2>1 DEF TypeOK
  <2>4. \A i \in 1..Len(ledger) : ledger[i].request # e.request
    BY <1>0, <2>1, <2>2 DEF OneWitness
  <2>5. LedgerAgrees'
    BY <1>0, <2>1, <2>2, <2>3, <2>4 DEF LedgerAgrees
  <2>6. OneWitness'
    BY <1>0, <2>1, <2>2, <2>3 DEF OneWitness
  <2> QED BY <2>5, <2>6 DEF RecordInv
<1>3. CASE UNCHANGED ledger
  <2>1. LedgerAgrees'
    <3>1. ASSUME NEW i \in 1..Len(ledger), NEW r, r = ledger[i].request
          PROVE  /\ opNonce'[r] = opNonce[r] /\ opState'[r] = opState[r]
                 /\ opReceipt'[r] = opReceipt[r]
      <4>1. r \in Requests /\ opNonce[r] # NoNonce /\ opState[r] \in Terminal
        BY <1>1, <3>1
      <4> QED BY <1>0, <4>1 DEF Stable
    <3> QED BY <1>0, <1>3, <3>1 DEF LedgerAgrees
  <2>2. OneWitness'
    <3> SUFFICES ASSUME NEW v \in Workers, NEW w \in Workers, pc'[w] = "evidence"
                 PROVE  /\ \A i \in 1..Len(ledger) : ledger[i].request # req'[w]
                        /\ pc'[v] = "evidence" /\ req'[v] = req'[w] => v = w
      BY <1>3 DEF OneWitness
    <3>1. \A u \in Workers : pc[u] = "evidence" => opState[req[u]] \in Terminal
      BY <1>0 DEF CallsRun
    <3>2. \A i \in 1..Len(ledger) : ledger[i].request # req'[w]
      BY <1>0, <1>1, WitnessSteps DEF OneWitness
    <3>3. pc'[v] = "evidence" /\ req'[v] = req'[w] => v = w
      BY <1>0, <3>1, WitnessSteps DEF OneWitness, Keeps
    <3> QED BY <3>2, <3>3
  <2> QED BY <2>1, <2>2 DEF RecordInv
<1>4. (\A w \in Workers : ~AppendEvidence(w)) => UNCHANGED ledger
  <2>1. ASSUME NEW w \in Workers, Run(w), ~AppendEvidence(w) PROVE UNCHANGED ledger
    BY <2>1
      DEF Run, Execute, Transmit, Reconcile, CreateOperation, ResumeOperation, ReturnRecorded,
          ReserveNonce, Take, ReuseReservation, NonceExhausted, BindNonce, RecordSignature,
          MarkSigned, MarkStarted, Transition, RefuseRoom, Submit, Post, RecordOffline, ReadReceipt,
          ReadRefusal, GiveUp, Resolve, QueryRoom, QueryInconclusive, MarkReconciled
  <2>2. ASSUME NEW w \in Workers, NEW r \in Requests, ExecuteRoom(w, r) \/ ReconcileRoom(w, r)
        PROVE  UNCHANGED ledger
    BY <2>2 DEF ExecuteRoom, ReconcileRoom
  <2>3. CASE Room \/ (\E ws \in SUBSET Workers : Abort(ws)) \/ (\E l \in Lanes : SignRoom(l))
             \/ UNCHANGED vars
    BY <2>3 DEF Room, RoomStores, RoomRefuses, Abort, SignRoom, vars
  <2> QED BY <2>1, <2>2, <2>3 DEF Next
<1> QED BY <1>2, <1>3, <1>4

-----------------------------------------------------------------------------
\* Both invariants together, in every reachable state.
THEOREM TruthInvariance == Spec => [](Inv /\ TruthInv /\ RecordInv)
<1>1. Inv /\ TruthInv /\ RecordInv /\ [Next]_vars => (Inv /\ TruthInv /\ RecordInv)'
  BY StepInv, OneMessageStep, HeardStep, LearntStep, VerdictStep, RecordStep DEF TruthInv
<1> QED BY <1>1, InitInv, InitTruth, PTL DEF Spec

\* Live, a final record never lies about the room, whatever the network and
\* the threads do.
THEOREM VerdictsTrue == Spec => []VerdictTrue
<1>1. TruthInv => VerdictTrue
  BY DEF TruthInv
<1> QED BY <1>1, TruthInvariance, PTL

\* The ledger repeats each final record at most once.
THEOREM LedgerAgreesAlways == Spec => []LedgerAgrees
<1>1. RecordInv => LedgerAgrees
  BY DEF RecordInv
<1> QED BY <1>1, TruthInvariance, PTL

\* Nonces once taken and records once final stay, also across crashes.
THEOREM NoncesAndVerdictsStable == Spec => NonceAndVerdictStable
<1>1. Inv /\ [Next]_vars => Stable
  BY StableStep
<1> QED BY <1>1, Invariance, PTL DEF Spec, NonceAndVerdictStable, Stable

\* Live, an unknown outcome is never turned into a rejection.
THEOREM SilenceNeverRejects == Spec => SilenceIsNotRejection
<1> DEFINE Silent == Mode = "live" => \A r \in Requests :
              opState[r] = "UNKNOWN" => opState'[r] \in {"UNKNOWN", "RECONCILED"}
<1>1. Inv /\ TruthInv /\ [Next]_vars => Silent
  BY StateSteps, SettledTrue DEF Unsent, Terminal
<1> QED BY <1>1, TruthInvariance, PTL DEF Spec, SilenceIsNotRejection

-----------------------------------------------------------------------------
(***************************************************************************)
(* Threads, stores and network implement the abstract write of RoomWrite.  *)
(***************************************************************************)

\* Who waits for an answer, has got one or has lost track, has sent.
SentThen ==
    /\ \A w \in Workers :
         /\ pc[w] = "await" => attempts[req[w]] = 1
         /\ pc[w] = "resolve" /\ outcome[w] \in {"accepted", "unknown"} => attempts[req[w]] = 1
    /\ \A r \in Requests : opState[r] = "UNKNOWN" => attempts[r] = 1

\* A count of attempts only rises, to one.
LEMMA AttemptsRise ==
    ASSUME Inv, [Next]_vars, NEW r \in Requests, attempts[r] = 1 PROVE attempts'[r] = 1
<1>1. Inv'
  BY StepInv
<1>2. attempts'[r] \in Nat /\ attempts'[r] <= 1
  BY <1>1 DEF Inv, TypeOK, SentLate
<1>3. attempts'[r] # 0
  <2>1. CASE \E w \in Workers : Post(w)
    BY <2>1 DEF Post, Inv, TypeOK
  <2>2. CASE \E p \in wire : RoomStores(p) \/ RoomRefuses(p)
    BY <2>2 DEF RoomStores, RoomRefuses
  <2> QED BY <2>1, <2>2, NetworkSteps
<1> QED BY <1>2, <1>3

\* SentThen holds from the start and in every step.
LEMMA SentThenStep ==
    /\ Init => SentThen
    /\ Inv /\ SentThen /\ [Next]_vars => SentThen'
<1>1. Init => SentThen
  BY DEF Init, SentThen
<1>2. ASSUME Inv, SentThen, [Next]_vars PROVE SentThen'
  <2>0. TypeOK /\ CallsRun /\ SentLate
    BY <1>2 DEF Inv
  <2>1. ASSUME NEW v \in Workers,
               \/ pc'[v] = "await"
               \/ pc'[v] = "resolve" /\ outcome'[v] \in {"accepted", "unknown"}
        PROVE  attempts'[req'[v]] = 1
    <3>1. CASE pc'[v] = pc[v] /\ req'[v] = req[v] /\ outcome'[v] = outcome[v]
      BY <1>2, <2>0, <2>1, <3>1, AttemptsRise DEF SentThen, CallsRun
    <3>2. CASE Room
      BY <3>1, <3>2 DEF Room, RoomStores, RoomRefuses
    <3>3. CASE Run(v) \/ \E r \in Requests : ExecuteRoom(v, r) \/ ReconcileRoom(v, r)
      <4>1. CASE RefuseRoom(v) \/ ReadRefusal(v)
        BY <2>0, <2>1, <4>1 DEF RefuseRoom, ReadRefusal, Learn, Goto, TypeOK
      <4>2. CASE ReadReceipt(v) \/ GiveUp(v)
        BY <1>2, <2>0, <4>2 DEF ReadReceipt, GiveUp, Learn, netVars, SentThen
      <4>3. CASE Submit(v)
        BY <2>0, <2>1, <4>3
          DEF Submit, Post, RecordOffline, Learn, Goto, TypeOK, CallsRun, SentLate, Outcomes
      <4>4. CASE \/ CreateOperation(v) \/ ResumeOperation(v) \/ ReturnRecorded(v)
                 \/ ReserveNonce(v) \/ ReuseReservation(v) \/ NonceExhausted(v)
        BY <2>0, <2>1, <4>4
          DEF CreateOperation, ResumeOperation, ReturnRecorded, ReserveNonce, Take,
              ReuseReservation, NonceExhausted, Return, Goto, TypeOK
      <4>5. CASE BindNonce(v) \/ RecordSignature(v) \/ MarkSigned(v) \/ MarkStarted(v)
        BY <2>0, <2>1, <4>5
          DEF BindNonce, RecordSignature, MarkSigned, MarkStarted, Transition, Return, Goto, TypeOK
      <4>6. CASE Resolve(v) \/ Reconcile(v) \/ AppendEvidence(v)
        BY <2>0, <2>1, <4>6
          DEF Resolve, Reconcile, MarkReconciled, QueryRoom, QueryInconclusive, AppendEvidence,
              Settle, Return, Goto, TypeOK
      <4>7. CASE \E r \in Requests : ExecuteRoom(v, r) \/ ReconcileRoom(v, r)
        BY <2>0, <2>1, <4>7 DEF ExecuteRoom, ReconcileRoom, Call, Goto, TypeOK
      <4> QED BY <3>3, <4>1, <4>2, <4>3, <4>4, <4>5, <4>6, <4>7 DEF Run, Execute, Transmit
    <3> QED BY <1>2, <2>1, <3>1, <3>2, <3>3, OthersKeep DEF Keeps, Gone
  <2>2. ASSUME NEW r \in Requests, opState'[r] = "UNKNOWN" PROVE attempts'[r] = 1
    <3>1. CASE opState[r] = "UNKNOWN"
      BY <1>2, <3>1, AttemptsRise DEF SentThen
    <3>2. ASSUME NEW w \in Workers, Resolve(w) \/ MarkReconciled(w), req[w] = r,
                 opState[r] # "UNKNOWN"
          PROVE  attempts[r] = 1
      <4>1. ASSUME NEW s, Settle(w, s) PROVE s = "UNKNOWN"
        BY <2>0, <2>2, <3>2, <4>1 DEF Settle, TypeOK
      <4>2. Resolve(w) /\ StateFor(outcome[w]) = "UNKNOWN"
        BY <3>2, <4>1 DEF Resolve, MarkReconciled
      <4> QED BY <1>2, <3>2, <4>2 DEF Resolve, StateFor, SentThen
    <3> QED BY <1>2, <2>2, <3>1, <3>2, StateSteps, AttemptsRise DEF Unsent
  <2> QED BY <2>1, <2>2 DEF SentThen
<1> QED BY <1>1, <1>2

\* The verdict a record's state stands for.
Verdict(s) == CASE s \in {"ACCEPTED", "RECONCILED"} -> "accepted"
                [] s = "FAILED_FINAL" -> "failed"
                [] s = "UNKNOWN" -> "unknown"
                [] OTHER -> "open"
Verdicts  == [r \in Requests |-> Verdict(opState[r])]
Published == {m.request : m \in stored}

\* Steps that move no verdict: all but the settling of a record.
LEMMA VerdictKept ==
    ASSUME Inv, [Next]_vars, \A w \in Workers : ~Resolve(w) /\ ~MarkReconciled(w)
    PROVE  Verdicts' = Verdicts
<1>1. \A r \in Requests : Verdict(opState[r])' = Verdict(opState[r])
  BY StateSteps DEF Verdict, Unsent
<1> QED BY <1>1 DEF Verdicts

\* A step that settles the record of request r.
LEMMA SettleImplements ==
    ASSUME Inv, TruthInv, SentThen, [Next]_vars,
           NEW w \in Workers, Resolve(w) \/ MarkReconciled(w), NEW r \in Requests, r = req[w]
    PROVE  Promise!WNext \/ UNCHANGED Promise!wvars
<1> USE DEF Promise!WNext
<1>0. /\ TypeOK /\ CallsRun /\ CopiesFresh /\ OneOwner /\ OneMessage /\ NoncesAgree /\ SentLate
      /\ UNCHANGED <<reserved, attempts, stored>>
  BY DEF Inv, TruthInv, Resolve, MarkReconciled, CallsRun, nonceVars, netVars
<1>1. opState' = [opState EXCEPT ![r] = opState'[r]]
  BY <1>0 DEF Resolve, MarkReconciled, Settle, TypeOK
<1>2. CASE opState'[r] = opState[r]
  <2>1. opState' = opState
    BY <1>0, <1>1, <1>2 DEF TypeOK
  <2> QED BY <1>0, <2>1 DEF Promise!wvars
<1>3. CASE opState'[r] # opState[r]
  <2>1. \/ /\ Resolve(w) /\ opState[r] = "SUBMISSION_STARTED" /\ opState'[r] = StateFor(outcome[w])
        \/ /\ MarkReconciled(w) /\ opState[r] = "UNKNOWN"
           /\ opState'[r] = IF outcome[w] = "accepted" THEN "RECONCILED" ELSE "FAILED_FINAL"
    <3>1. CASE Resolve(w)
      BY <1>0, <1>3, <3>1 DEF Resolve, Settle, OneOwner, TypeOK
    <3>2. CASE MarkReconciled(w)
      BY <1>0, <1>3, <3>2, MoveStart DEF MarkReconciled, Settle, TypeOK, CallsRun, ReconcileSteps, Terminal
    <3> QED BY <3>1, <3>2
  <2>2. reserved[r] # 0
    BY <1>0, <2>1 DEF NoncesAgree
  <2>3. Verdicts' = [Verdicts EXCEPT ![r] = Verdict(opState'[r])] /\ Verdicts[r] = Verdict(opState[r])
    BY <1>0, <1>1 DEF Verdicts, TypeOK
  <2>4. Mode = "live" /\ opState'[r] \in {"ACCEPTED", "RECONCILED"} => r \in Published
    <3> SUFFICES ASSUME Mode = "live", opState'[r] \in {"ACCEPTED", "RECONCILED"}
                 PROVE  [request |-> r, nonce |-> opNonce[r]] \in stored
      BY DEF Published
    <3> QED BY <1>3, SettledTrue DEF InRoom
  <2>5. opState'[r] = "FAILED_FINAL" => r \notin Published
    BY <1>0, <1>3, SettledTrue DEF OneMessage, Nowhere, Published
  <2>6. Mode = "live" /\ opState'[r] = "FAILED_FINAL" => opState[r] # "UNKNOWN"
    BY <1>3, SettledTrue
  <2>7. CASE opState'[r] = "UNKNOWN"
    <3>1. attempts[r] = 1 /\ opState[r] = "SUBMISSION_STARTED"
      BY <1>0, <2>1, <2>7 DEF Resolve, StateFor, SentThen
    <3>2. Promise!LoseTrack(r)
      BY <1>0, <2>3, <2>7, <3>1 DEF Promise!LoseTrack, Verdicts, Verdict
    <3> QED BY <3>2
  <2>8. CASE opState'[r] \in {"ACCEPTED", "RECONCILED"}
    <3>1. attempts[r] = 1
      BY <1>0, <2>1, <2>8 DEF Resolve, StateFor, SentThen
    <3>2. Promise!Accept(r)
      BY <1>0, <2>1, <2>3, <2>4, <2>8, <3>1 DEF Promise!Accept, Verdicts, Verdict, Published
    <3> QED BY <3>2
  <2>9. CASE opState'[r] = "FAILED_FINAL"
    <3>1. Promise!Fail(r)
      BY <1>0, <2>1, <2>2, <2>3, <2>5, <2>6, <2>9 DEF Promise!Fail, Verdicts, Verdict, Published
    <3> QED BY <3>1
  <2> QED BY <2>1, <2>7, <2>8, <2>9 DEF StateFor
<1> QED BY <1>2, <1>3

\* Steps that do not reserve, send, store or settle are not seen at all.
LEMMA UnseenSteps ==
    ASSUME Inv, [Next]_vars,
           \A w \in Workers : ~ReserveNonce(w) /\ ~Submit(w) /\ ~Resolve(w) /\ ~MarkReconciled(w),
           \A p \in wire : ~RoomStores(p)
    PROVE  UNCHANGED Promise!wvars
<1>1. UNCHANGED <<reserved, attempts, stored>>
  <2>1. ASSUME NEW w \in Workers, Run(w) PROVE UNCHANGED <<reserved, attempts, stored>>
    BY <2>1
      DEF Run, Execute, Transmit, Reconcile, CreateOperation, ResumeOperation, ReturnRecorded,
          ReuseReservation, NonceExhausted, BindNonce, RecordSignature, MarkSigned, MarkStarted,
          Transition, RefuseRoom, ReadReceipt, ReadRefusal, GiveUp, AppendEvidence, QueryRoom,
          QueryInconclusive, nonceVars, netVars
  <2>2. ASSUME NEW w \in Workers, NEW r \in Requests, ExecuteRoom(w, r) \/ ReconcileRoom(w, r)
        PROVE  UNCHANGED <<reserved, attempts, stored>>
    BY <2>2 DEF ExecuteRoom, ReconcileRoom, nonceVars, netVars
  <2>3. CASE Room \/ (\E ws \in SUBSET Workers : Abort(ws)) \/ (\E l \in Lanes : SignRoom(l))
             \/ UNCHANGED vars
    BY <2>3 DEF Room, RoomRefuses, Abort, SignRoom, vars, nonceVars, netVars
  <2> QED BY <2>1, <2>2, <2>3 DEF Next
<1>2. UNCHANGED Verdicts
  BY VerdictKept
<1> QED BY <1>1, <1>2 DEF Promise!wvars, Verdicts, Verdict

\* Every step is a step of the abstract write, or not seen by it.
LEMMA StepImplements ==
    ASSUME Inv, TruthInv, SentThen, [Next]_vars
    PROVE  Promise!WNext \/ UNCHANGED Promise!wvars
<1> USE DEF Promise!WNext
<1>0. /\ TypeOK /\ CallsRun /\ CopiesFresh /\ OneOwner /\ OneMessage /\ NoncesAgree /\ SentLate
      /\ VerdictTrue
  BY DEF Inv, TruthInv
<1>1. ASSUME NEW w \in Workers, ReserveNonce(w) PROVE Promise!WNext
  <2>1. /\ req[w] \in Requests /\ reserved[req[w]] = 0 /\ NextNonce(w) \in Nonces
        /\ reserved' = [reserved EXCEPT ![req[w]] = NextNonce(w)]
        /\ UNCHANGED <<attempts, stored>>
    <3>1. req[w] \in Requests /\ LaneOf[req[w]] \in Lanes
      BY <1>0, <1>1, LaneAssumption DEF ReserveNonce, CallsRun
    <3>2. NextNonce(w) \in Nonces
      BY <1>0, <1>1, <3>1, NonceAssumption DEF ReserveNonce, NextNonce, TypeOK
    <3> QED BY <1>1, <3>1, <3>2 DEF ReserveNonce, Take, netVars
  <2>2. \A q \in Requests : LaneOf[q] = LaneOf[req[w]] => reserved[q] # NextNonce(w)
    <3>1. \A q \in Requests : /\ reserved[q] <= counter[LaneOf[q]] /\ reserved[q] \in 0..MaxNonce
                             /\ counter[LaneOf[q]] \in 0..MaxNonce
      BY <1>0, LaneAssumption DEF NoncesAgree, TypeOK
    <3> QED BY <2>1, <3>1, NonceAssumption DEF NextNonce
  <2>3. UNCHANGED Verdicts
    BY <1>1 DEF ReserveNonce, Take, opVars, Verdicts
  <2>4. Promise!Assign(req[w])
    BY <2>1, <2>2, <2>3 DEF Promise!Assign, Verdicts, Verdict
  <2> QED BY <2>1, <2>4
<1>2. ASSUME NEW w \in Workers, Submit(w) PROVE Promise!WNext \/ UNCHANGED Promise!wvars
  <2>1. /\ req[w] \in Requests /\ attempts[req[w]] = 0 /\ reserved[req[w]] # 0
        /\ opState[req[w]] = "SUBMISSION_STARTED"
        /\ UNCHANGED <<reserved, stored, opState>>
    BY <1>0, <1>2
      DEF Submit, Post, RecordOffline, CallsRun, SentLate, OneOwner, CopiesFresh, Signing, Owning,
          nonceVars, opVars
  <2>2. UNCHANGED Verdicts
    BY <2>1 DEF Verdicts
  <2>3. CASE UNCHANGED attempts
    BY <2>1, <2>2, <2>3 DEF Promise!wvars, Verdicts, Verdict
  <2>4. CASE attempts' = [attempts EXCEPT ![req[w]] = 1]
    <3>1. Verdicts[req[w]] = "open"
      BY <2>1 DEF Verdicts, Verdict
    <3>2. Promise!Send(req[w])
      BY <2>1, <2>2, <2>4, <3>1 DEF Promise!Send, Verdicts, Verdict
    <3> QED BY <2>1, <3>2
  <2> QED BY <1>0, <1>2, <2>1, <2>3, <2>4 DEF Submit, Post, RecordOffline, TypeOK
<1>3. ASSUME NEW p \in wire, RoomStores(p) PROVE Promise!WNext
  <2>1. /\ p.request \in Requests /\ UNCHANGED <<reserved, attempts, opState>>
        /\ stored' = stored \cup {[request |-> p.request, nonce |-> p.nonce]}
    BY <1>0, <1>3 DEF RoomStores, TypeOK, Posts, nonceVars, opVars
  <2>2. attempts[p.request] = 1
    <3>1. ~Nowhere(p.request)
      BY <1>3 DEF Nowhere
    <3>2. attempts[p.request] # 0
      BY <1>0, <2>1, <3>1 DEF OneMessage
    <3>3. attempts[p.request] \in Nat /\ attempts[p.request] <= 1
      BY <1>0, <2>1 DEF SentLate, TypeOK
    <3> QED BY <3>2, <3>3
  <2>3. Mode = "live" /\ opState[p.request] # "FAILED_FINAL"
    BY <1>0, <2>1, ModeAssumption DEF OneMessage, VerdictTrue
  <2>4. Published' = Published \cup {p.request} /\ UNCHANGED Verdicts
    <3> DEFINE x == [request |-> p.request, nonce |-> p.nonce]
    <3>1. x.request = p.request /\ stored' = stored \cup {x}
      BY <2>1
    <3> HIDE DEF x
    <3>2. Published' = Published \cup {p.request}
      BY <3>1 DEF Published
    <3> QED BY <2>1, <3>2 DEF Verdicts
  <2>5. Verdicts[p.request] # "failed"
    BY <2>1, <2>3 DEF Verdicts, Verdict
  <2>6. Promise!Publish(p.request)
    BY <2>1, <2>2, <2>4, <2>5 DEF Promise!Publish, Published, Verdicts, Verdict
  <2> QED BY <2>1, <2>6
<1>4. ASSUME NEW w \in Workers, Resolve(w) \/ MarkReconciled(w)
      PROVE  Promise!WNext \/ UNCHANGED Promise!wvars
  <2>1. req[w] \in Requests
    BY <1>0, <1>4 DEF Resolve, MarkReconciled, CallsRun
  <2> QED BY <1>4, <2>1, SettleImplements
<1> QED BY <1>1, <1>2, <1>3, <1>4, UnseenSteps

\* The signed-write path implements the abstract write, for any requests,
\* threads, rooms and nonces, under crashes and late answers, in both modes.
THEOREM ImplementsPromise == Spec => KeepsPromise
<1>1. Init => Promise!WInit
  BY DEF Init, Promise!WInit
<1>2. Inv /\ TruthInv /\ SentThen /\ [Next]_vars =>
        SentThen' /\ [Promise!WNext]_(Promise!wvars)
  BY SentThenStep, StepImplements
<1>3. Init => SentThen
  BY SentThenStep
<1> QED BY <1>1, <1>2, <1>3, TruthInvariance, PTL DEF Spec, KeepsPromise, Promise!WSpec
=============================================================================
