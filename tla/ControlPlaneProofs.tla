------------------------- MODULE ControlPlaneProofs -------------------------
(* Proofs about ControlPlane: it uses Signer, and spends authority first. *)
EXTENDS ControlPlane, SignerProofs

-----------------------------------------------------------------------------
(***************************************************************************)
(* The control plane is a client of Signer.                                *)
(***************************************************************************)

\* A step of the control plane is a step of the signer or leaves it alone.
LEMMA StepIsSignerStep ==
    ASSUME CInv, [CNext]_cvars PROVE [Next]_vars
<1>1. CASE SignerStep
  BY <1>1 DEF SignerStep, Next
<1>2. ASSUME NEW ws \in SUBSET Workers, CAbort(ws) PROVE [Next]_vars
  BY <1>2 DEF CAbort, Next
<1>3. ASSUME NEW w \in Workers, HandOver(w) PROVE [Next]_vars
  <2>1. task[w] \in Requests /\ ExecuteRoom(w, task[w])
    BY <1>3 DEF HandOver, CInv, DraftCopySound
  <2> QED BY <2>1 DEF Next
<1>4. ASSUME NEW w \in Workers, ApproveStep(w), ~HandOver(w) PROVE UNCHANGED vars
  BY <1>4 DEF ApproveStep, FindApproval, FindNoApproval, CreateApproval, ApproveDraft,
     ConsumeApproval, KeepConsumed, RetireDraft, HandOverRefused
<1>5. ASSUME NEW d \in Requests, SubmitDraft(d) \/ Reject(d) PROVE UNCHANGED vars
  BY <1>5 DEF SubmitDraft, Reject
<1>6. ASSUME NEW w \in Workers, NEW d \in Requests, ReadDraft(w, d) PROVE UNCHANGED vars
  BY <1>6 DEF ReadDraft
<1>7. CASE UNCHANGED cvars
  BY <1>7 DEF cvars
<1> QED BY <1>1, <1>2, <1>3, <1>4, <1>5, <1>6, <1>7 DEF CNext, CalmCNext, Fault

-----------------------------------------------------------------------------
(***************************************************************************)
(* Lemmas about the approval store.                                        *)
(***************************************************************************)

\* Consuming approval i changes its status and nothing else in the store.
LEMMA ConsumedStore ==
    ASSUME approvals \in Seq(Approvals), NEW i \in Ids,
           approvals' = [approvals EXCEPT ![i].status = "CONSUMED"]
    PROVE  /\ approvals' \in Seq(Approvals)
           /\ Len(approvals') = Len(approvals)
           /\ approvals'[i].status = "CONSUMED"
           /\ \A j \in Ids : /\ approvals'[j].draft = approvals[j].draft
                             /\ j # i => approvals'[j] = approvals[j]
<1> DEFINE a == [approvals[i] EXCEPT !.status = "CONSUMED"]
<1>1. approvals[i] \in Approvals
  BY DEF Ids
<1>2. a \in Approvals /\ a.status = "CONSUMED" /\ a.draft = approvals[i].draft
  BY <1>1 DEF Approvals, ApprovalKinds
<1>3. approvals' = [approvals EXCEPT ![i] = a]
  OBVIOUS
<1> HIDE DEF a
<1> QED BY <1>2, <1>3 DEF Ids

\* Creating an approval leaves the ones there are.
LEMMA GrownStore ==
    ASSUME approvals \in Seq(Approvals), NEW a \in Approvals,
           approvals' = Append(approvals, a)
    PROVE  /\ approvals' \in Seq(Approvals)
           /\ Len(approvals') = Len(approvals) + 1
           /\ approvals'[Len(approvals) + 1] = a
           /\ \A j \in Ids : approvals'[j] = approvals[j]
BY DEF Ids

\* What is derived from the store stays while the store stays.
LEMMA SameStore ==
    ASSUME approvals' = approvals
    PROVE  /\ Ids' = Ids
           /\ \A d \in Requests : IdsOf(d)' = IdsOf(d)
           /\ \A d \in Requests : Consumed(d)' <=> Consumed(d)
BY DEF Ids, IdsOf, Consumed

-----------------------------------------------------------------------------
(***************************************************************************)
(* The inductive invariant.                                                *)
(***************************************************************************)

\* The signer reaches a request only when a thread hands it over: its own
\* steps neither start a request nor record one that nobody runs.
Reached(d) == opState[d] # "ABSENT" \/ \E w \in Workers : req[w] = d

LEMMA SignerReachesNothingNew ==
    ASSUME Inv, NEW d \in Requests, Reached(d)',
           SignerStep \/ \E ws \in SUBSET Workers : Abort(ws)
    PROVE  Reached(d)
<1> USE DEF Reached, Inv, TypeOK, CallsRun
<1> USE SentinelAssumption
<1>1. ASSUME NEW w \in Workers, Return(w), opState' = opState PROVE Reached(d)
  BY <1>1 DEF Return
<1>2. ASSUME NEW w \in Workers, Execute(w) PROVE Reached(d)
  BY <1>2 DEF Execute, Transmit, CreateOperation, ResumeOperation, ReturnRecorded,
     ReserveNonce, ReuseReservation, NonceExhausted, Take, BindNonce,
     RecordSignature, MarkSigned, MarkStarted, Transition, CanMove, RefuseRoom,
     Submit, Post, RecordOffline, ReadReceipt, ReadRefusal, GiveUp, Learn, Resolve,
     Settle, AppendEvidence, Return, Goto, opVars, callVars
<1>3. ASSUME NEW w \in Workers, Reconcile(w) PROVE Reached(d)
  BY <1>3 DEF Reconcile, QueryRoom, QueryInconclusive, MarkReconciled, Settle,
     CanMove, Return, Goto, opVars
<1>4. ASSUME NEW w \in Workers, NEW r \in Requests, ReconcileRoom(w, r) PROVE Reached(d)
  BY <1>4 DEF ReconcileRoom, Call, opVars
<1>5. CASE Room
  BY <1>5 DEF Room, RoomStores, RoomRefuses, opVars
<1>6. ASSUME NEW ws \in SUBSET Workers, Abort(ws) PROVE Reached(d)
  BY <1>6 DEF Abort, opVars
<1> QED BY <1>2, <1>3, <1>4, <1>5, <1>6 DEF SignerStep, Run

\* Nothing is submitted, approved or running at first.
LEMMA InitCInv == CInit => CInv
BY SentinelAssumption, DraftAssumption
   DEF CInit, Init, CInv, CTypeOK, ApprovalCopySound, DraftCopySound, SpentWhenApproved,
       SpentBeforeRetired, NothingUnapproved, Consumed, IdsOf, Ids, DraftStates,
       ApprovalCopy, ApprovalKinds, NoApproval, storeVars, taskVars

\* A call that ends between two store calls leaves nothing to keep.
LEMMA CReturnKeepsCInv ==
    ASSUME CInv, NEW w \in Workers, CReturn(w), UNCHANGED <<vars, storeVars>>
    PROVE  CInv'
<1> USE DEF CInv, CTypeOK
<1>1. CTypeOK'
  BY DraftAssumption DEF CReturn, CGoto, DraftStates, ApprovalCopy, NoApproval, storeVars
<1>2. ApprovalCopySound'
  BY DEF ApprovalCopySound, CReturn, CGoto, NoApproval, IdsOf, Ids, storeVars
<1>3. DraftCopySound'
  BY DEF DraftCopySound, CReturn, CGoto, storeVars
<1>4. SpentWhenApproved' /\ SpentBeforeRetired' /\ NothingUnapproved'
  BY SameStore DEF SpentWhenApproved, SpentBeforeRetired, NothingUnapproved,
     CReturn, CGoto, storeVars, vars, callVars, opVars
<1> QED BY <1>1, <1>2, <1>3, <1>4

\* So does the death of any of the calls.
LEMMA CAbortKeepsCInv ==
    ASSUME Inv, CInv, NEW ws \in SUBSET Workers, CAbort(ws)
    PROVE  CInv'
<1> USE DEF CInv, CTypeOK
<1>1. CTypeOK'
  BY DraftAssumption DEF CAbort, DraftStates, ApprovalCopy, NoApproval, storeVars
<1>2. ApprovalCopySound'
  BY DEF ApprovalCopySound, CAbort, NoApproval, IdsOf, Ids, storeVars
<1>3. DraftCopySound'
  BY DEF DraftCopySound, CAbort, storeVars
<1>4. SpentWhenApproved' /\ SpentBeforeRetired' /\ NothingUnapproved'
  <2>1. \A d \in Requests : Reached(d)' => Reached(d)
    BY SignerReachesNothingNew DEF CAbort
  <2> QED BY <2>1, SameStore DEF SpentWhenApproved, SpentBeforeRetired, NothingUnapproved,
          Reached, CAbort, storeVars
<1> QED BY <1>1, <1>2, <1>3, <1>4

\* The signer's steps keep it.
LEMMA SignerStepKeepsCInv ==
    ASSUME Inv, CInv, SignerStep, UNCHANGED <<storeVars, taskVars>>
    PROVE  CInv'
<1>1. \A d \in Requests : Reached(d)' => Reached(d)
  BY SignerReachesNothingNew
<1> QED
  BY <1>1 DEF CInv, CTypeOK, ApprovalCopySound, DraftCopySound, SpentWhenApproved,
     SpentBeforeRetired, NothingUnapproved, Reached, Consumed, IdsOf, Ids,
     storeVars, taskVars

\* Every step of the control plane keeps it.
LEMMA StepCInv == Inv /\ CInv /\ [CNext]_cvars => CInv'
<1> SUFFICES ASSUME Inv, CInv, [CNext]_cvars PROVE CInv'
  OBVIOUS
<1> USE DEF CInv, CTypeOK, ApprovalCopySound, DraftCopySound, SpentWhenApproved,
            SpentBeforeRetired, NothingUnapproved, Consumed, IdsOf, Ids
<1>1. ASSUME NEW d \in Requests, SubmitDraft(d) \/ Reject(d) PROVE CInv'
  <2>1. /\ draft' \in [Requests -> DraftStates]
        /\ draft[d] \in {"ABSENT", "PENDING"} /\ draft'[d] \notin {"ABSENT", "CONSUMED"}
        /\ \A e \in Requests : e # d => draft'[e] = draft[e]
        /\ UNCHANGED <<vars, approvals, taskVars>>
    BY <1>1 DEF SubmitDraft, Reject, DraftStates
  <2>2. CTypeOK' /\ ApprovalCopySound'
    BY <2>1 DEF taskVars
  <2>3. DraftCopySound'
    BY <1>1, <2>1 DEF SubmitDraft, Reject, taskVars
  <2>4. SpentWhenApproved' /\ SpentBeforeRetired' /\ NothingUnapproved'
    <3> HIDE DEF Consumed
    <3> QED BY <2>1, SameStore DEF taskVars, vars, callVars, opVars
  <2> QED BY <2>2, <2>3, <2>4
<1>2. ASSUME NEW w \in Workers, NEW d \in Requests, ReadDraft(w, d) PROVE CInv'
  BY <1>2 DEF ReadDraft, CGoto, ControlSteps, vars, callVars, opVars, storeVars
<1>3. ASSUME NEW w \in Workers, FindApproval(w) PROVE CInv'
  <2>1. PICK i \in Latest(task[w]) : appr' = [appr EXCEPT ![w] = Copy(i)]
    BY <1>3 DEF FindApproval
  <2>2. i \in IdsOf(task[w])
    BY <2>1 DEF Latest
  <2>3. approvals[i] \in Approvals /\ i \in 0..MaxApprovals
    BY <2>2, DraftAssumption
  <2>4. Copy(i) \in ApprovalCopy /\ Copy(i).id = i /\ Copy(i).status = approvals[i].status
    BY <2>3 DEF Copy, ApprovalCopy, Approvals
  <2> QED
    BY <1>3, <2>1, <2>2, <2>4 DEF FindApproval, CGoto, ControlSteps, vars, callVars, opVars, storeVars
<1>4. ASSUME NEW w \in Workers, FindNoApproval(w) PROVE CInv'
  <2>1. CASE snap[w] = "PENDING"
    BY <1>4, <2>1 DEF FindNoApproval, CGoto, ControlSteps, vars, callVars, opVars, storeVars
  <2>2. CASE snap[w] # "PENDING"
    BY <1>4, <2>2, CReturnKeepsCInv DEF FindNoApproval
  <2> QED BY <2>1, <2>2
<1>5. ASSUME NEW w \in Workers, CreateApproval(w) PROVE CInv'
  <2>1. CASE \E i \in IdsOf(task[w]) : approvals[i].status # "CONSUMED"
    BY <1>5, <2>1, CReturnKeepsCInv DEF CreateApproval, storeVars
  <2>2. CASE ~\E i \in IdsOf(task[w]) : approvals[i].status # "CONSUMED"
    <3>1. PICK now \in 0..Len(approvals) :
            approvals' = Append(approvals, [draft |-> task[w], at |-> now, status |-> "APPROVED"])
      BY <1>5, <2>2 DEF CreateApproval
    <3>2. [draft |-> task[w], at |-> now, status |-> "APPROVED"] \in Approvals
      BY <1>5 DEF CreateApproval, Approvals, ApprovalKinds
    <3>3. /\ approvals' \in Seq(Approvals)
          /\ Len(approvals') = Len(approvals) + 1
          /\ approvals'[Len(approvals) + 1].draft = task[w]
          /\ approvals'[Len(approvals) + 1].status = "APPROVED"
          /\ \A j \in Ids : approvals'[j] = approvals[j]
      BY <3>1, <3>2, GrownStore
    <3>4. /\ appr' = [appr EXCEPT ![w] = [id |-> Len(approvals) + 1, status |-> "APPROVED"]]
          /\ Len(approvals) < MaxApprovals
          /\ cpc' = [cpc EXCEPT ![w] = "approve"]
          /\ UNCHANGED <<vars, draft, task, snap>>
      BY <1>5, <2>2 DEF CreateApproval, CGoto
    <3>5. CTypeOK'
      BY <3>3, <3>4, DraftAssumption DEF ControlSteps, ApprovalCopy, ApprovalKinds
    <3>6. ASSUME NEW d \in Requests PROVE Consumed(d)' <=> Consumed(d)
      <4>1. ASSUME NEW i \in Ids, approvals[i].draft = d, approvals[i].status = "CONSUMED"
            PROVE  Consumed(d)'
        <5>1. i \in Ids' /\ approvals'[i] = approvals[i]
          BY <3>3
        <5> QED BY <4>1, <5>1
      <4>2. ASSUME NEW i \in Ids', approvals'[i].draft = d, approvals'[i].status = "CONSUMED"
            PROVE  Consumed(d)
        <5>1. i \in Ids /\ approvals'[i] = approvals[i]
          BY <3>3, <4>2
        <5> QED BY <4>2, <5>1
      <4> QED BY <4>1, <4>2
    <3>7. SpentWhenApproved' /\ SpentBeforeRetired' /\ NothingUnapproved'
      <4> HIDE DEF Consumed
      <4> QED BY <3>4, <3>6 DEF vars, callVars, opVars
    <3>8. ApprovalCopySound'
      <4>1. /\ Ids \subseteq Ids' /\ Len(approvals) + 1 \in Ids'
            /\ \A v \in Workers : IdsOf(task[v]) \subseteq IdsOf(task[v])'
            /\ Len(approvals) + 1 \in IdsOf(task[w])'
        BY <3>3, <3>4
      <4>2. ASSUME NEW v \in Workers, appr[v].status = "CONSUMED"
            PROVE  approvals'[appr[v].id] = approvals[appr[v].id]
        BY <3>3, <4>2 DEF NoApproval
      <4>3. task' = task /\ NoApproval' = NoApproval
        BY <3>4 DEF NoApproval
      <4> HIDE DEF Ids, IdsOf
      <4> QED BY <3>4, <4>1, <4>2, <4>3
    <3>9. DraftCopySound'
      BY <3>4, <1>5 DEF CreateApproval
    <3> QED BY <3>5, <3>7, <3>8, <3>9
  <2> QED BY <2>1, <2>2
<1>6. ASSUME NEW w \in Workers, ApproveDraft(w) PROVE CInv'
  <2>1. CASE draft[task[w]] = "PENDING"
    <3>1. /\ cpc[w] = "approve" /\ task[w] \in Requests
          /\ draft' = [draft EXCEPT ![task[w]] = "APPROVED"]
          /\ snap' = [snap EXCEPT ![w] = "APPROVED"]
          /\ cpc' = [cpc EXCEPT ![w] = "consume"]
          /\ UNCHANGED <<vars, approvals, task, appr>>
      BY <1>6, <2>1 DEF ApproveDraft, CGoto
    <3>2. CTypeOK'
      BY <3>1 DEF DraftStates, ControlSteps
    <3>3. ApprovalCopySound' /\ DraftCopySound'
      BY <2>1, <3>1
    <3>4. SpentWhenApproved' /\ SpentBeforeRetired' /\ NothingUnapproved'
      <4> HIDE DEF Consumed
      <4> QED BY <2>1, <3>1, SameStore DEF vars, callVars, opVars
    <3> QED BY <3>2, <3>3, <3>4
  <2>2. CASE draft[task[w]] # "PENDING"
    BY <1>6, <2>2, CReturnKeepsCInv DEF ApproveDraft, storeVars
  <2> QED BY <2>1, <2>2
<1>7. ASSUME NEW w \in Workers, ConsumeApproval(w) PROVE CInv'
  <2>1. CASE Consumable(w)
    <3>1. appr[w].id \in Ids /\ approvals[appr[w].id].draft = task[w]
      BY <1>7 DEF ConsumeApproval
    <3>2. /\ approvals' = [approvals EXCEPT ![appr[w].id].status = "CONSUMED"]
          /\ appr' = [appr EXCEPT ![w].status = "CONSUMED"]
          /\ cpc' = [cpc EXCEPT ![w] = "retire"]
          /\ cpc[w] = "consume"
          /\ UNCHANGED <<vars, draft, task, snap>>
      BY <1>7, <2>1 DEF ConsumeApproval, CGoto
    <3>3. /\ approvals' \in Seq(Approvals)
          /\ Len(approvals') = Len(approvals)
          /\ approvals'[appr[w].id].status = "CONSUMED"
          /\ \A j \in Ids : /\ approvals'[j].draft = approvals[j].draft
                            /\ j # appr[w].id => approvals'[j] = approvals[j]
      BY <3>1, <3>2, ConsumedStore
    <3>4. appr' \in [Workers -> ApprovalCopy] /\ appr'[w].id = appr[w].id /\ appr'[w].status = "CONSUMED"
      <4>1. appr \in [Workers -> ApprovalCopy] /\ appr[w] \in ApprovalCopy
        BY DEF CTypeOK
      <4>2. [appr[w] EXCEPT !.status = "CONSUMED"] \in ApprovalCopy
        BY <4>1 DEF ApprovalCopy, ApprovalKinds
      <4>3. appr' = [appr EXCEPT ![w] = [appr[w] EXCEPT !.status = "CONSUMED"]]
        BY <3>2
      <4>4. appr'[w] = [appr[w] EXCEPT !.status = "CONSUMED"]
        BY <4>1, <4>3
      <4>5. appr' \in [Workers -> ApprovalCopy]
        BY <4>1, <4>2, <4>3
      <4>6. appr'[w].id = appr[w].id /\ appr'[w].status = "CONSUMED"
        BY <4>1, <4>4 DEF ApprovalCopy
      <4> QED BY <4>5, <4>6
    <3>5. CTypeOK'
      BY <3>2, <3>3, <3>4 DEF ControlSteps
    <3>6. ASSUME NEW d \in Requests PROVE Consumed(d)' <=> (d = task[w] \/ Consumed(d))
      <4>1. ASSUME NEW i \in Ids, approvals[i].draft = d, approvals[i].status = "CONSUMED"
            PROVE  Consumed(d)'
        <5>1. i \in Ids' /\ approvals'[i].draft = d /\ approvals'[i].status = "CONSUMED"
          BY <3>3, <4>1
        <5> QED BY <5>1
      <4>2. ASSUME NEW i \in Ids', approvals'[i].draft = d, approvals'[i].status = "CONSUMED"
            PROVE  d = task[w] \/ Consumed(d)
        <5>1. i \in Ids /\ (i # appr[w].id => approvals'[i] = approvals[i])
          BY <3>3
        <5> QED BY <3>1, <3>3, <4>2, <5>1
      <4>3. d = task[w] => Consumed(d)'
        <5>1. appr[w].id \in Ids' /\ approvals'[appr[w].id].draft = task[w]
          BY <3>1, <3>3
        <5> QED BY <3>3, <5>1
      <4> QED BY <4>1, <4>2, <4>3
    <3>7. draft[task[w]] \in {"APPROVED", "CONSUMED"}
      BY <2>1, <3>2 DEF Consumable
    <3>8. SpentWhenApproved' /\ SpentBeforeRetired' /\ NothingUnapproved'
      <4> HIDE DEF Consumed
      <4> QED BY <3>2, <3>6, <3>7 DEF vars, callVars, opVars
    <3>9. ApprovalCopySound'
      BY <3>1, <3>2, <3>3, <3>4
    <3>10. DraftCopySound'
      BY <3>2
    <3> QED BY <3>5, <3>8, <3>9, <3>10
  <2>2. CASE ~Consumable(w)
    BY <1>7, <2>2, CReturnKeepsCInv DEF ConsumeApproval, storeVars
  <2> QED BY <2>1, <2>2
<1>8. ASSUME NEW w \in Workers, KeepConsumed(w) PROVE CInv'
  BY <1>8 DEF KeepConsumed, CGoto, ControlSteps, vars, callVars, opVars, storeVars
<1>9. ASSUME NEW w \in Workers, RetireDraft(w) PROVE CInv'
  <2>1. cpc[w] = "retire" /\ task[w] \in Requests /\ Consumed(task[w]) /\ snap[w] \in DraftStates
    BY <1>9 DEF RetireDraft
  <2>2. CASE snap[w] # "APPROVED"
    <3>1. draft[task[w]] = "CONSUMED"
      BY <2>1, <2>2 DEF DraftStates
    <3> QED
      BY <1>9, <2>1, <2>2, <3>1 DEF RetireDraft, CGoto, ControlSteps, vars, callVars, opVars
  <2>3. CASE snap[w] = "APPROVED" /\ draft[task[w]] = "APPROVED"
    <3>1. /\ draft' = [draft EXCEPT ![task[w]] = "CONSUMED"]
          /\ cpc' = [cpc EXCEPT ![w] = "handOver"]
          /\ UNCHANGED <<vars, approvals, task, snap, appr>>
      BY <1>9, <2>3 DEF RetireDraft, CGoto
    <3>2. CTypeOK'
      BY <3>1 DEF DraftStates, ControlSteps
    <3>3. ApprovalCopySound' /\ DraftCopySound'
      BY <2>1, <2>3, <3>1
    <3>4. SpentWhenApproved' /\ SpentBeforeRetired' /\ NothingUnapproved'
      <4> HIDE DEF Consumed
      <4> QED BY <2>1, <3>1, SameStore DEF vars, callVars, opVars
    <3> QED BY <3>2, <3>3, <3>4
  <2>4. CASE snap[w] = "APPROVED" /\ draft[task[w]] # "APPROVED"
    BY <1>9, <2>4, CReturnKeepsCInv DEF RetireDraft, storeVars
  <2> QED BY <2>2, <2>3, <2>4
<1>10. ASSUME NEW w \in Workers, HandOver(w) PROVE CInv'
  <2>1. /\ task[w] \in Requests /\ draft[task[w]] = "CONSUMED" /\ Consumed(task[w])
        /\ opState' = opState /\ req' = [req EXCEPT ![w] = task[w]]
        /\ CReturn(w) /\ UNCHANGED storeVars
    BY <1>10 DEF HandOver, ExecuteRoom, Call, opVars
  <2>2. CTypeOK' /\ ApprovalCopySound' /\ DraftCopySound'
    BY <2>1, DraftAssumption
       DEF CReturn, CGoto, storeVars, DraftStates, ApprovalCopy, NoApproval
  <2>3. SpentWhenApproved' /\ SpentBeforeRetired' /\ NothingUnapproved'
    <3> HIDE DEF Consumed
    <3> QED BY <2>1, SameStore DEF CReturn, CGoto, storeVars, Inv, TypeOK
  <2> QED BY <2>2, <2>3
<1>11. ASSUME NEW w \in Workers, HandOverRefused(w) PROVE CInv'
  BY <1>11, CReturnKeepsCInv DEF HandOverRefused
<1>12. CASE SignerStep
  BY <1>12, SignerStepKeepsCInv DEF SignerStep
<1>13. ASSUME NEW ws \in SUBSET Workers, CAbort(ws) PROVE CInv'
  BY <1>13, CAbortKeepsCInv
<1>14. CASE UNCHANGED cvars
  BY <1>14 DEF cvars, vars, callVars, opVars, storeVars, taskVars
<1> QED
  BY <1>1, <1>2, <1>3, <1>4, <1>5, <1>6, <1>7, <1>8, <1>9, <1>10, <1>11, <1>12,
     <1>13, <1>14
  DEF CNext, CalmCNext, Fault, ApproveStep

-----------------------------------------------------------------------------
(***************************************************************************)
(* The theorems.                                                           *)
(***************************************************************************)

\* Both inductive invariants hold together: the signer's needs the control
\* plane to call it with requests, the control plane's needs the signer to
\* reach only what it was handed.
THEOREM ControlInvariance == CSpec => [](Inv /\ CInv)
<1>1. CInit => Inv /\ CInv
  BY InitInv, InitCInv DEF CInit
<1>2. Inv /\ CInv /\ [CNext]_cvars => (Inv /\ CInv)'
  BY StepInv, StepCInv, StepIsSignerStep
<1> QED BY <1>1, <1>2, PTL DEF CSpec

\* The control plane on top of the signer is a behaviour of the signer.
THEOREM ControlUsesSigner == CSpec => UsesSigner
<1>1. CInit => Init
  BY DEF CInit
<1>2. CInv /\ [CNext]_cvars => [Next]_vars
  BY StepIsSignerStep
<1> QED BY <1>1, <1>2, ControlInvariance, PTL DEF CSpec, UsesSigner, Spec

\* Through it every theorem about the signer holds of the whole: an approved
\* draft leaves at most once, however it is approved and retried.
THEOREM ApprovedAtMostOnce == CSpec => []SentAtMostOnce
BY ControlUsesSigner, AtMostOnce, PTL DEF UsesSigner

\* And what was approved ends in records that are true of the live room, and
\* in a ledger that repeats them once each.
THEOREM ApprovedRecordsTrue == CSpec => [](VerdictTrue /\ LedgerAgrees)
BY ControlUsesSigner, VerdictsTrue, LedgerAgreesAlways, PTL DEF UsesSigner

\* So the control plane, its signer and its stores implement the abstract write.
THEOREM ApprovedKeepsPromise == CSpec => KeepsPromise
BY ControlUsesSigner, ImplementsPromise, PTL DEF UsesSigner

\* Type correctness of the control plane.
THEOREM ControlTypeCorrect == CSpec => []CTypeOK
<1>1. CInv => CTypeOK
  BY DEF CInv
<1> QED BY <1>1, ControlInvariance, PTL

\* Nothing reaches the signer without spent authority.
THEOREM OnlyApproved == CSpec => []NothingUnapproved
<1>1. CInv => NothingUnapproved
  BY DEF CInv
<1> QED BY <1>1, ControlInvariance, PTL

\* What is on its way to the room, in the room or in the ledger.
Left == {m.request : m \in wire \cup stored} \cup {ledger[i].request : i \in 1..Len(ledger)}

\* The promise of the whole: no message leaves and no evidence is written that
\* a human did not approve, and the approval is spent before it does.
THEOREM OnlyApprovedLeaves == CSpec => [](\A d \in Left : draft[d] = "CONSUMED" /\ Consumed(d))
<1>1. TypeOK /\ LoggedBeforeSent /\ LedgerAgrees /\ NothingUnapproved
        => \A d \in Left : draft[d] = "CONSUMED" /\ Consumed(d)
  <2> SUFFICES ASSUME TypeOK, LoggedBeforeSent, LedgerAgrees, NothingUnapproved, NEW d \in Left
               PROVE  d \in Requests /\ opState[d] # "ABSENT"
    BY DEF NothingUnapproved
  <2>1. ASSUME NEW m \in wire \cup stored PROVE m.request \in Requests /\ opState[m.request] # "ABSENT"
    BY <2>1 DEF TypeOK, Posts, Messages, LoggedBeforeSent
  <2>2. ASSUME NEW i \in 1..Len(ledger)
        PROVE  ledger[i].request \in Requests /\ opState[ledger[i].request] # "ABSENT"
    <3>1. ledger[i] \in Entries
      BY DEF TypeOK
    <3> DEFINE e == ledger[i]
    <3>2. e = [request |-> e.request, nonce |-> opNonce[e.request],
               result |-> opState[e.request], receipt |-> opReceipt[e.request]]
      BY DEF LedgerAgrees
    <3> HIDE DEF e
    <3>3. e.result = opState[e.request]
      BY <3>2
    <3> QED BY <3>1, <3>3 DEF e, Entries, Terminal
  <2> QED BY <2>1, <2>2 DEF Left
<1>2. CSpec => [](TypeOK /\ LoggedBeforeSent /\ LedgerAgrees)
  BY ControlUsesSigner, TypeCorrect, WriteAhead, LedgerAgreesAlways, PTL DEF UsesSigner
<1> QED BY <1>1, <1>2, OnlyApproved, PTL

\* A rejection that succeeded holds for good.
THEOREM RejectedIsFinal == CSpec => []RejectionHolds
<1>1. CInv => RejectionHolds
  BY DEF CInv, CTypeOK, SpentWhenApproved, NothingUnapproved, RejectionHolds
<1> QED BY <1>1, ControlInvariance, PTL

\* Authority is spent before the draft is retired, and that before the signer.
THEOREM SpentFirst == CSpec => []SpentBeforeRetired
<1>1. CInv => SpentBeforeRetired
  BY DEF CInv
<1> QED BY <1>1, ControlInvariance, PTL

\* Neither a consumption nor the end of a draft is ever undone.
THEOREM NeverReturned == CSpec => AuthorityNeverReturns
<1> DEFINE Kept(i) == approvals[i].status = "CONSUMED" => approvals'[i] = approvals[i]
           Final(d) == draft[d] \in {"CONSUMED", "REJECTED"} => draft'[d] = draft[d]
           A == (\A i \in Ids : Kept(i)) /\ (\A d \in Requests : Final(d))
<1>1. ASSUME CInv, [CNext]_cvars PROVE A
  <2> USE DEF CInv, CTypeOK
  <2>1. ASSUME NEW d \in Requests, SubmitDraft(d) \/ Reject(d) PROVE A
    BY <1>1, <2>1 DEF SubmitDraft, Reject
  <2>2. ASSUME NEW w \in Workers, CreateApproval(w) PROVE A
    <3>1. CASE approvals' = approvals
      BY <2>2, <3>1 DEF CreateApproval
    <3>2. CASE approvals' # approvals
      <4>1. PICK now \in 0..Len(approvals) :
              approvals' = Append(approvals, [draft |-> task[w], at |-> now, status |-> "APPROVED"])
        BY <2>2, <3>2 DEF CreateApproval
      <4>2. [draft |-> task[w], at |-> now, status |-> "APPROVED"] \in Approvals
        BY <1>1, <2>2 DEF CreateApproval, DraftCopySound, Approvals, ApprovalKinds
      <4> QED BY <1>1, <2>2, <4>1, <4>2, GrownStore DEF CreateApproval
    <3> QED BY <3>1, <3>2
  <2>3. ASSUME NEW w \in Workers, ApproveDraft(w) \/ RetireDraft(w) PROVE A
    BY <1>1, <2>3 DEF ApproveDraft, RetireDraft, DraftCopySound
  <2>4. ASSUME NEW w \in Workers, ConsumeApproval(w) PROVE A
    <3>1. CASE Consumable(w)
      <4>1. /\ appr[w].id \in Ids /\ approvals[appr[w].id].status = "APPROVED"
            /\ approvals' = [approvals EXCEPT ![appr[w].id].status = "CONSUMED"]
            /\ draft' = draft
        BY <1>1, <2>4, <3>1 DEF ConsumeApproval, Consumable, ApprovalCopySound, IdsOf
      <4> QED BY <1>1, <4>1, ConsumedStore
    <3>2. CASE ~Consumable(w)
      BY <2>4, <3>2 DEF ConsumeApproval
    <3> QED BY <3>1, <3>2
  <2>5. CASE UNCHANGED storeVars
    BY <2>5 DEF storeVars
  <2>6. ASSUME NEW w \in Workers,
               FindApproval(w) \/ FindNoApproval(w) \/ KeepConsumed(w)
                 \/ HandOver(w) \/ HandOverRefused(w)
        PROVE  UNCHANGED storeVars
    BY <2>6 DEF FindApproval, FindNoApproval, KeepConsumed, HandOver, HandOverRefused, storeVars
  <2>7. ASSUME NEW w \in Workers, NEW d \in Requests, ReadDraft(w, d) PROVE UNCHANGED storeVars
    BY <2>7 DEF ReadDraft
  <2>8. SignerStep \/ Fault => UNCHANGED storeVars
    BY DEF SignerStep, Fault, CAbort
  <2> QED
    BY <1>1, <2>1, <2>2, <2>3, <2>4, <2>5, <2>6, <2>7, <2>8
    DEF CNext, CalmCNext, Fault, ApproveStep, cvars
<1>2. CInv /\ [CNext]_cvars => [A]_cvars
  BY <1>1
<1> QED BY <1>2, ControlInvariance, PTL DEF CSpec, AuthorityNeverReturns
=============================================================================
