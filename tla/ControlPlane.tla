---------------------------- MODULE ControlPlane ----------------------------
(***************************************************************************)
(* The trusted control plane: the draft store filled by untrusted clients, *)
(* the approval store, and ControlPlane.reject and approve_and_execute run *)
(* by the request threads of the loopback web server on top of Signer.     *)
(*                                                                         *)
(* A request of Signer is a draft here: execute_room is called with the    *)
(* draft id.  approve_and_execute is cut at every store call, because      *)
(* another thread, a rejection or a crash can fall between any two of      *)
(* them while the thread goes on with the draft and the approval it read.  *)
(* The operator's session and passphrase are taken as given: a call that   *)
(* fails them changes nothing here.                                        *)
(***************************************************************************)
EXTENDS Signer

CONSTANTS
    Malformed,    \* drafts whose room DraftStore takes and canonical_message refuses
    MaxApprovals  \* bound on the number of approvals ever created

ASSUME DraftAssumption ==
    /\ Malformed \subseteq Requests
    /\ MaxApprovals \in Nat

VARIABLES
    draft,      \* drafts.json: status of each draft, "ABSENT" before create
    approvals,  \* approvals.json, in order of creation; an id is a position
    cpc,        \* the next step of the thread's approve_and_execute
    task,       \* its draft
    snap,       \* the draft status of the thread's copy
    appr        \* the thread's approval: id and status as read, id 0 for none

storeVars == <<draft, approvals>>
taskVars  == <<cpc, task, snap, appr>>
cvars     == <<vars, storeVars, taskVars>>

DraftStates   == {"ABSENT", "PENDING", "APPROVED", "REJECTED", "CONSUMED"}
ApprovalKinds == {"APPROVED", "CONSUMED"}
Approvals     == [draft : Requests, at : Nat, status : ApprovalKinds]
ApprovalCopy  == [id : 0..MaxApprovals, status : ApprovalKinds \cup {"NONE"}]
ControlSteps  == {"lookUp", "create", "approve", "consume", "retire", "handOver"}

NoApproval == [id |-> 0, status |-> "NONE"]
Ids        == 1..Len(approvals)
IdsOf(d)   == {i \in Ids : approvals[i].draft = d}

\* for_draft: the latest approval; time.time() may give two the same instant.
Latest(d) == {i \in IdsOf(d) : \A j \in IdsOf(d) : approvals[j].at <= approvals[i].at}
Copy(i)   == [id |-> i, status |-> approvals[i].status]

CInit ==
    /\ Init
    /\ draft     = [d \in Requests |-> "ABSENT"]
    /\ approvals = <<>>
    /\ cpc       = [w \in Workers |-> "idle"]
    /\ task      = [w \in Workers |-> NoRequest]
    /\ snap      = [w \in Workers |-> "ABSENT"]
    /\ appr      = [w \in Workers |-> NoApproval]

CGoto(w, label) == cpc' = [cpc EXCEPT ![w] = label]

CReturn(w) ==
    /\ CGoto(w, "idle")
    /\ task' = [task EXCEPT ![w] = NoRequest]
    /\ snap' = [snap EXCEPT ![w] = "ABSENT"]
    /\ appr' = [appr EXCEPT ![w] = NoApproval]

-----------------------------------------------------------------------------
\* DraftStore.create for a new external id; a repeat of the same content
\* finds the draft and changes nothing.
SubmitDraft(d) ==
    /\ draft[d] = "ABSENT"
    /\ draft' = [draft EXCEPT ![d] = "PENDING"]
    /\ UNCHANGED <<vars, approvals, taskVars>>

\* Mutant: a draft can be rejected after its approval.
RejectLate(d) ==
    /\ draft[d] \in {"PENDING", "APPROVED"}
    /\ draft' = [draft EXCEPT ![d] = "REJECTED"]
    /\ UNCHANGED <<vars, approvals, taskVars>>

\* ControlPlane.reject.
Reject(d) ==
    /\ draft[d] = "PENDING"
    /\ draft' = [draft EXCEPT ![d] = "REJECTED"]
    /\ UNCHANGED <<vars, approvals, taskVars>>

\* approve_and_execute reads the draft.
ReadDraft(w, d) ==
    /\ cpc[w] = "idle"
    /\ pc[w] = "idle"
    /\ draft[d] # "ABSENT"
    /\ task' = [task EXCEPT ![w] = d]
    /\ snap' = [snap EXCEPT ![w] = draft[d]]
    /\ CGoto(w, "lookUp")
    /\ UNCHANGED <<vars, storeVars, appr>>

\* approvals.for_draft finds one.
FindApproval(w) ==
    /\ cpc[w] = "lookUp"
    /\ \E i \in Latest(task[w]) : appr' = [appr EXCEPT ![w] = Copy(i)]
    /\ CGoto(w, IF snap[w] = "PENDING" THEN "approve" ELSE "consume")
    /\ UNCHANGED <<vars, storeVars, task, snap>>

\* It finds none: a pending draft gets a new approval, any other one raises.
FindNoApproval(w) ==
    /\ cpc[w] = "lookUp"
    /\ IdsOf(task[w]) = {}
    /\ IF snap[w] = "PENDING"
         THEN CGoto(w, "create") /\ UNCHANGED <<task, snap, appr>>
         ELSE CReturn(w)
    /\ UNCHANGED <<vars, storeVars>>

\* approvals.create, refused while the draft has an unconsumed approval.
CreateApproval(w) ==
    /\ cpc[w] = "create"
    /\ IF \E i \in IdsOf(task[w]) : approvals[i].status # "CONSUMED"
         THEN CReturn(w) /\ UNCHANGED approvals
         ELSE /\ Len(approvals) < MaxApprovals
              /\ \E now \in 0..Len(approvals) :
                   /\ \A i \in Ids : approvals[i].at <= now
                   /\ approvals' = Append(approvals,
                        [draft |-> task[w], at |-> now, status |-> "APPROVED"])
              /\ appr' = [appr EXCEPT ![w] =
                            [id |-> Len(approvals) + 1, status |-> "APPROVED"]]
              /\ CGoto(w, "approve")
              /\ UNCHANGED <<task, snap>>
    /\ UNCHANGED <<vars, draft>>

\* Mutant: the draft is approved whatever has become of it.
ApproveDraftBlindly(w) ==
    /\ cpc[w] = "approve"
    /\ draft' = [draft EXCEPT ![task[w]] = "APPROVED"]
    /\ snap'  = [snap EXCEPT ![w] = "APPROVED"]
    /\ CGoto(w, "consume")
    /\ UNCHANGED <<vars, approvals, task, appr>>

\* drafts.transition to APPROVED, which only a pending draft allows.
ApproveDraft(w) ==
    /\ cpc[w] = "approve"
    /\ IF draft[task[w]] = "PENDING"
         THEN /\ draft' = [draft EXCEPT ![task[w]] = "APPROVED"]
              /\ snap'  = [snap EXCEPT ![w] = "APPROVED"]
              /\ CGoto(w, "consume")
              /\ UNCHANGED <<task, appr>>
         ELSE CReturn(w) /\ UNCHANGED draft
    /\ UNCHANGED <<vars, approvals>>

\* approvals.consume succeeds on an unconsumed approval and an approved copy.
Consumable(w) ==
    /\ approvals[appr[w].id].status = "APPROVED"
    /\ snap[w] = "APPROVED"
    /\ approvals[appr[w].id].draft = task[w]

\* Mutant: only the thread's copy of the approval changes.
ConsumeApprovalLater(w) ==
    /\ cpc[w] = "consume"
    /\ appr[w].status = "APPROVED"
    /\ Consumable(w)
    /\ appr' = [appr EXCEPT ![w].status = "CONSUMED"]
    /\ CGoto(w, "retire")
    /\ UNCHANGED <<vars, storeVars, task, snap>>

\* An approval read as unconsumed is consumed, or the call raises.
ConsumeApproval(w) ==
    /\ cpc[w] = "consume"
    /\ appr[w].status = "APPROVED"
    /\ IF Consumable(w)
         THEN /\ approvals' = [approvals EXCEPT ![appr[w].id].status = "CONSUMED"]
              /\ appr' = [appr EXCEPT ![w].status = "CONSUMED"]
              /\ CGoto(w, "retire")
              /\ UNCHANGED <<task, snap>>
         ELSE CReturn(w) /\ UNCHANGED approvals
    /\ UNCHANGED <<vars, draft>>

\* One read as consumed is used as it is: an earlier call consumed it.
KeepConsumed(w) ==
    /\ cpc[w] = "consume"
    /\ appr[w].status = "CONSUMED"
    /\ CGoto(w, "retire")
    /\ UNCHANGED <<vars, storeVars, task, snap, appr>>

\* Mutants: the draft is handed over before it is retired, or never is.
RetireDraftLater(w) ==
    /\ cpc[w] = "retire"
    /\ CGoto(w, "handOver")
    /\ UNCHANGED <<vars, storeVars, task, snap, appr>>
RetireDraftOnly(w) ==
    /\ cpc[w] = "retire"
    /\ draft' = [draft EXCEPT ![task[w]] = "CONSUMED"]
    /\ CReturn(w)
    /\ UNCHANGED <<vars, approvals>>

\* drafts.transition to CONSUMED for a copy that says APPROVED.
RetireDraft(w) ==
    /\ cpc[w] = "retire"
    /\ IF snap[w] # "APPROVED"
         THEN CGoto(w, "handOver") /\ UNCHANGED <<draft, task, snap, appr>>
         ELSE IF draft[task[w]] = "APPROVED"
         THEN /\ draft' = [draft EXCEPT ![task[w]] = "CONSUMED"]
              /\ CGoto(w, "handOver")
              /\ UNCHANGED <<task, snap, appr>>
         ELSE CReturn(w) /\ UNCHANGED draft
    /\ UNCHANGED <<vars, approvals>>

\* validate_consumed and the binding check of execute_room.
Authorised(w) ==
    /\ approvals[appr[w].id].status = "CONSUMED"
    /\ appr[w].status = "CONSUMED"
    /\ approvals[appr[w].id].draft = task[w]

\* Mutant: a retry starts from a clean operation record.
HandOverAfresh(w) ==
    /\ cpc[w] = "handOver"
    /\ Authorised(w)
    /\ Call(w, task[w], "create")
    /\ opState' = [opState EXCEPT ![task[w]] = "ABSENT"]
    /\ CReturn(w)
    /\ UNCHANGED <<nonceVars, opNonce, opSig, opReceipt, ledger, netVars, held, storeVars>>

\* execute_room: from here on the thread is in Signer.
HandOver(w) ==
    /\ cpc[w] = "handOver"
    /\ Authorised(w)
    /\ task[w] \notin Malformed
    /\ ExecuteRoom(w, task[w])
    /\ CReturn(w)
    /\ UNCHANGED storeVars

\* The approval is not valid, or canonical_message refuses the room.
HandOverRefused(w) ==
    /\ cpc[w] = "handOver"
    /\ ~Authorised(w) \/ task[w] \in Malformed
    /\ CReturn(w)
    /\ UNCHANGED <<vars, storeVars>>

\* Calls die, between two store calls or in the signer.
CAbort(ws) ==
    /\ Abort(ws)
    /\ cpc'  = [w \in Workers |-> IF w \in ws THEN "idle" ELSE cpc[w]]
    /\ task' = [w \in Workers |-> IF w \in ws THEN NoRequest ELSE task[w]]
    /\ snap' = [w \in Workers |-> IF w \in ws THEN "ABSENT" ELSE snap[w]]
    /\ appr' = [w \in Workers |-> IF w \in ws THEN NoApproval ELSE appr[w]]
    /\ UNCHANGED storeVars

-----------------------------------------------------------------------------
ApproveStep(w) ==
    \/ FindApproval(w) \/ FindNoApproval(w) \/ CreateApproval(w)
    \/ ApproveDraft(w) \/ ConsumeApproval(w) \/ KeepConsumed(w)
    \/ RetireDraft(w) \/ HandOver(w) \/ HandOverRefused(w)

\* Signer's own steps; reconcile_room is called on an idle thread.
SignerStep ==
    /\ \/ \E w \in Workers : Run(w)
       \/ \E w \in Workers, r \in Requests : cpc[w] = "idle" /\ ReconcileRoom(w, r)
       \/ Room
    /\ UNCHANGED <<storeVars, taskVars>>

Fault == \E ws \in SUBSET Workers : CAbort(ws)

CalmCNext ==
    \/ \E d \in Requests : SubmitDraft(d) \/ Reject(d)
    \/ \E w \in Workers, d \in Requests : ReadDraft(w, d)
    \/ \E w \in Workers : ApproveStep(w)
    \/ SignerStep

CNext == CalmCNext \/ Fault

CSpec == CInit /\ [][CNext]_cvars

\* Without faults, threads that have begun keep going.
CalmCSpec ==
    /\ CInit /\ [][CalmCNext]_cvars
    /\ \A w \in Workers : WF_cvars(ApproveStep(w))
    /\ \A w \in Workers : WF_cvars(Run(w) /\ UNCHANGED <<storeVars, taskVars>>)

-----------------------------------------------------------------------------
\* Every variable of the control plane has the shape its store gives it.
CTypeOK ==
    /\ draft     \in [Requests -> DraftStates]
    /\ approvals \in Seq(Approvals)
    /\ Len(approvals) <= MaxApprovals
    /\ cpc  \in [Workers -> ControlSteps \cup {"idle"}]
    /\ task \in [Workers -> Requests \cup {NoRequest}]
    /\ snap \in [Workers -> DraftStates]
    /\ appr \in [Workers -> ApprovalCopy]

Consumed(d) == \E i \in IdsOf(d) : approvals[i].status = "CONSUMED"

\* Nothing reaches the signer without authority: a request that a thread
\* executes or that has an operation record belongs to a draft that is
\* CONSUMED and has a consumed approval of its own.
NothingUnapproved ==
    \A d \in Requests :
        (opState[d] # "ABSENT" \/ \E w \in Workers : req[w] = d)
            => draft[d] = "CONSUMED" /\ Consumed(d)

\* A rejection that succeeded holds, even against threads that read the draft
\* or created an approval before it: no approval of the draft is ever
\* consumed and it has no operation.
RejectionHolds ==
    \A d \in Requests : draft[d] = "REJECTED" => ~Consumed(d) /\ opState[d] = "ABSENT"

\* The order of the durable writes: authority is spent before the draft is
\* retired, and the draft is retired before the signer is reached
\* ("Consumption is durable before signer access").
SpentBeforeRetired ==
    /\ \A d \in Requests : draft[d] = "CONSUMED" => Consumed(d)
    /\ \A w \in Workers : cpc[w] = "handOver" => draft[task[w]] = "CONSUMED"

\* An approval is consumed once and for all, and a retired or rejected draft
\* is never revived.
AuthorityNeverReturns ==
    [][ /\ \A i \in Ids : approvals[i].status = "CONSUMED" => approvals'[i] = approvals[i]
        /\ \A d \in Requests : draft[d] \in {"CONSUMED", "REJECTED"} => draft'[d] = draft[d] ]_cvars

\* When nothing fails, an approved draft is executed, whichever of several
\* approving threads wins each step.
ApprovalExecutes ==
    \A d \in Requests \ Malformed : draft[d] = "APPROVED" ~> opState[d] # "ABSENT"

\* Seen without its drafts and approvals, the control plane is a client of
\* Signer like any other, so every theorem about Signer holds of it.
UsesSigner == Spec

-----------------------------------------------------------------------------
(***************************************************************************)
(* The inductive invariant: what a thread's stale copies still say about   *)
(* the stores.                                                             *)
(***************************************************************************)

\* From the approval on, the thread's approval exists and is for its draft;
\* a copy that says CONSUMED is right, for nothing undoes a consumption.
ApprovalCopySound ==
    \A w \in Workers :
        /\ cpc[w] \in {"approve", "consume", "retire", "handOver"} =>
               appr[w].id \in IdsOf(task[w])
        /\ cpc[w] \in {"retire", "handOver"} => appr[w].status = "CONSUMED"
        /\ appr[w] # NoApproval => appr[w].id \in Ids
        /\ appr[w].status = "CONSUMED" => approvals[appr[w].id].status = "CONSUMED"

\* The thread's draft exists, and the copy of its status is right up to the
\* moves that are still open: a pending copy can be stale in any way, an
\* approved one only by a retirement, a final one not at all.
DraftCopySound ==
    \A w \in Workers : cpc[w] # "idle" =>
        /\ task[w] \in Requests
        /\ snap[w] # "ABSENT"
        /\ cpc[w] \in {"consume", "retire", "handOver"} => snap[w] # "PENDING"
        /\ snap[w] = "APPROVED" => draft[task[w]] \in {"APPROVED", "CONSUMED"}
        /\ snap[w] \in {"CONSUMED", "REJECTED"} => draft[task[w]] = snap[w]

\* Authority is spent only for drafts that were approved.
SpentWhenApproved ==
    \A d \in Requests : Consumed(d) => draft[d] \in {"APPROVED", "CONSUMED"}

CInv ==
    /\ CTypeOK
    /\ ApprovalCopySound
    /\ DraftCopySound
    /\ SpentWhenApproved
    /\ SpentBeforeRetired
    /\ NothingUnapproved
=============================================================================
