------------------------------- MODULE Signer -------------------------------
(***************************************************************************)
(* The trusted signed-write path: Signer.execute_room and reconcile_room   *)
(* run by concurrent threads over the durable NonceStore, the durable      *)
(* OperationStore, the transport and the evidence ledger.                  *)
(*                                                                         *)
(* One store call is one step: every store method runs under the store's   *)
(* thread lock and file lock and publishes with os.replace.  Between two   *)
(* store calls the threads interleave freely, and each thread goes on with *)
(* the copies it read.  A request id stands for one approved draft: its    *)
(* room and cleaned text are bound to the id by the approval fingerprint,  *)
(* so LaneOf is a function and the content conflict of                     *)
(* OperationStore.create cannot arise.                                     *)
(***************************************************************************)
EXTENDS Integers, Sequences, FiniteSets

CONSTANTS
    Requests,     \* request ids (draft ids) that may be executed
    Workers,      \* threads that call the signer
    Lanes,        \* rooms accepted by canonical_message
    Addressable,  \* rooms that match ROOM_PATTERN
    LaneOf,       \* the room of each request
    MaxNonce,     \* the largest nonce; 10^19 - 1 in the code
    Mode,         \* "live": TechnocoreTransport, "offline": RecordingTransport
    NoRequest     \* sentinel: the worker runs no request

ASSUME LaneAssumption ==
    /\ Addressable \subseteq Lanes
    /\ LaneOf \in [Requests -> Lanes]
ASSUME NonceAssumption == MaxNonce \in Nat \ {0}
ASSUME ModeAssumption == Mode \in {"live", "offline"}
ASSUME SentinelAssumption == NoRequest \notin Requests

VARIABLES
    \* nonces.json
    counter,      \* last nonce given out in each lane
    reserved,     \* the nonce reserved for each request id
    \* operations.json
    opState,      \* lifecycle state of the record, "ABSENT" before create
    opNonce,      \* the record's nonce
    opSig,        \* the nonce the recorded signature covers
    opReceipt,    \* does the record hold a receipt
    \* evidence ledger
    ledger,       \* entries, in append order
    \* the network and the remote room (external)
    wire,         \* posts on their way to the room
    stored,       \* messages the room has stored
    attempts,     \* history: posts sent or recorded per request
    \* one call per thread
    pc,           \* the next step of the thread's call
    req,          \* the request of the call
    held,         \* the thread's local copy of the nonce
    outcome,      \* the transport's verdict, once known
    reply         \* the HTTP reply waiting on the thread's connection

nonceVars == <<counter, reserved>>
opVars    == <<opState, opNonce, opSig, opReceipt>>
netVars   == <<wire, stored, attempts>>
callVars  == <<pc, req, held, outcome, reply>>
vars      == <<nonceVars, opVars, ledger, netVars, callVars>>

-----------------------------------------------------------------------------
NoNonce == 0
Nonces  == 1..MaxNonce

OpStates == {"ALLOCATED", "SIGNED", "SUBMISSION_STARTED", "ACCEPTED",
             "UNKNOWN", "RECONCILED", "FAILED_FINAL"}
Terminal == {"ACCEPTED", "RECONCILED", "FAILED_FINAL"}

ExecuteSteps   == {"create", "reserve", "bind", "sign", "markSigned",
                   "markStarted", "submit", "await", "resolve"}
ReconcileSteps == {"query", "markReconciled"}
Steps          == ExecuteSteps \cup ReconcileSteps \cup {"evidence"}

Outcomes == {"accepted", "rejected", "unknown", "failed_before_send"}
Messages == [request : Requests, nonce : Nonces]
Posts    == [request : Requests, nonce : Nonces, by : Workers]
Entries  == [request : Requests, nonce : Nonces, result : Terminal,
             receipt : BOOLEAN]

\* The lifecycle table of OperationStore.transition.
Allowed == [s \in OpStates |->
    CASE s = "ALLOCATED"          -> {"SIGNED", "FAILED_FINAL"}
      [] s = "SIGNED"             -> {"SUBMISSION_STARTED", "FAILED_FINAL"}
      [] s = "SUBMISSION_STARTED" -> {"ACCEPTED", "UNKNOWN", "FAILED_FINAL"}
      [] s = "UNKNOWN"            -> {"RECONCILED", "FAILED_FINAL"}
      [] OTHER                    -> {}]

\* Mutant: an unknown outcome is taken for a failure.
StateForPessimist(o) == IF o = "accepted" THEN "ACCEPTED" ELSE "FAILED_FINAL"

\* The lifecycle state execute_room gives an outcome.
StateFor(o) ==
    CASE o = "accepted" -> "ACCEPTED"
      [] o = "unknown"  -> "UNKNOWN"
      [] OTHER          -> "FAILED_FINAL"

\* Mutant: transition without its table.
CanMoveAnyhow(r, s) == opState[r] \in OpStates

CanMove(r, s) == opState[r] \in OpStates /\ s \in Allowed[opState[r]]

\* A receipt comes only from the live transport's "accepted".
HasReceipt(o) == Mode = "live" /\ o = "accepted"

-----------------------------------------------------------------------------
\* No request has been executed; an earlier release may have used the lanes.
Init ==
    /\ counter   \in [Lanes -> 0..MaxNonce]
    /\ reserved  = [r \in Requests |-> NoNonce]
    /\ opState   = [r \in Requests |-> "ABSENT"]
    /\ opNonce   = [r \in Requests |-> NoNonce]
    /\ opSig     = [r \in Requests |-> NoNonce]
    /\ opReceipt = [r \in Requests |-> FALSE]
    /\ ledger    = <<>>
    /\ wire      = {}
    /\ stored    = {}
    /\ attempts  = [r \in Requests |-> 0]
    /\ pc        = [w \in Workers |-> "idle"]
    /\ req       = [w \in Workers |-> NoRequest]
    /\ held      = [w \in Workers |-> NoNonce]
    /\ outcome   = [w \in Workers |-> "none"]
    /\ reply     = [w \in Workers |-> "none"]

Goto(w, label) == pc' = [pc EXCEPT ![w] = label]

\* The call ends: its locals and its connection are gone.
Return(w) ==
    /\ Goto(w, "idle")
    /\ req'     = [req     EXCEPT ![w] = NoRequest]
    /\ held'    = [held    EXCEPT ![w] = NoNonce]
    /\ outcome' = [outcome EXCEPT ![w] = "none"]
    /\ reply'   = [reply   EXCEPT ![w] = "none"]

\* The call starts on request r.
Call(w, r, label) ==
    /\ pc[w] = "idle"
    /\ Goto(w, label)
    /\ req' = [req EXCEPT ![w] = r]
    /\ UNCHANGED <<outcome, reply>>

-----------------------------------------------------------------------------
(***************************************************************************)
(* execute_room, up to the transport.                                      *)
(***************************************************************************)

\* The approval has been validated and binds to this operation.
ExecuteRoom(w, r) ==
    /\ Call(w, r, "create")
    /\ UNCHANGED <<nonceVars, opVars, ledger, netVars, held>>

\* operations.create writes a new ALLOCATED record without a nonce.
CreateOperation(w) ==
    /\ pc[w] = "create"
    /\ opState[req[w]] = "ABSENT"
    /\ opState' = [opState EXCEPT ![req[w]] = "ALLOCATED"]
    /\ Goto(w, "reserve")
    /\ UNCHANGED <<nonceVars, opNonce, opSig, opReceipt, ledger, netVars,
                   req, held, outcome, reply>>

\* operations.create finds an ALLOCATED record: an earlier call stopped
\* before signing, or another thread is at work.  The copy's nonce decides.
ResumeOperation(w) ==
    /\ pc[w] = "create"
    /\ opState[req[w]] = "ALLOCATED"
    /\ held' = [held EXCEPT ![w] = opNonce[req[w]]]
    /\ Goto(w, IF opNonce[req[w]] = NoNonce THEN "reserve" ELSE "sign")
    /\ UNCHANGED <<nonceVars, opVars, ledger, netVars, req, outcome, reply>>

\* The record is SIGNED or later: return it, never resubmit implicitly.
ReturnRecorded(w) ==
    /\ pc[w] = "create"
    /\ opState[req[w]] \notin {"ABSENT", "ALLOCATED"}
    /\ Return(w)
    /\ UNCHANGED <<nonceVars, opVars, ledger, netVars>>

NextNonce(w) == counter[LaneOf[req[w]]] + 1

\* Mutant: the lane's counter is not written back.
TakeForgetful(w) ==
    /\ reserved' = [reserved EXCEPT ![req[w]] = NextNonce(w)]
    /\ held'     = [held EXCEPT ![w] = NextNonce(w)]
    /\ Goto(w, "bind")
    /\ UNCHANGED <<counter, opVars, ledger, netVars, req, outcome, reply>>

\* NonceStore.reserve gives the next nonce of the lane to the request id and
\* writes the counter and the reservation in one document.
Take(w) ==
    /\ counter'  = [counter EXCEPT ![LaneOf[req[w]]] = NextNonce(w)]
    /\ reserved' = [reserved EXCEPT ![req[w]] = NextNonce(w)]
    /\ held'     = [held EXCEPT ![w] = NextNonce(w)]
    /\ Goto(w, "bind")
    /\ UNCHANGED <<opVars, ledger, netVars, req, outcome, reply>>

\* Mutant: the bound of the lane is off by one.
ReserveNonceBeyond(w) ==
    /\ pc[w] = "reserve"
    /\ reserved[req[w]] = NoNonce
    /\ NextNonce(w) <= MaxNonce + 1
    /\ Take(w)

\* Mutant: a reservation the request id already has is not looked up.
ReserveNonceAgain(w) ==
    /\ pc[w] = "reserve"
    /\ NextNonce(w) <= MaxNonce
    /\ Take(w)

\* A request id without a reservation takes the next nonce.
ReserveNonce(w) ==
    /\ pc[w] = "reserve"
    /\ reserved[req[w]] = NoNonce
    /\ NextNonce(w) <= MaxNonce
    /\ Take(w)

\* NonceStore.reserve returns the reservation the request id already has.
ReuseReservation(w) ==
    /\ pc[w] = "reserve"
    /\ reserved[req[w]] # NoNonce
    /\ held' = [held EXCEPT ![w] = reserved[req[w]]]
    /\ Goto(w, "bind")
    /\ UNCHANGED <<nonceVars, opVars, ledger, netVars, req, outcome, reply>>

\* "nonce exhausted": the lane is used up and the call raises.
NonceExhausted(w) ==
    /\ pc[w] = "reserve"
    /\ reserved[req[w]] = NoNonce
    /\ NextNonce(w) > MaxNonce
    /\ Return(w)
    /\ UNCHANGED <<nonceVars, opVars, ledger, netVars>>

\* Signer.sign_room: a nonce without a request id, spent on a message that
\* this path neither records nor posts.
SignRoom(l) ==
    /\ counter[l] + 1 <= MaxNonce
    /\ counter' = [counter EXCEPT ![l] = @ + 1]
    /\ UNCHANGED <<reserved, opVars, ledger, netVars, callVars>>

\* operations.bind_nonce; a record bound to another nonce is an error.
BindNonce(w) ==
    /\ pc[w] = "bind"
    /\ IF opNonce[req[w]] \in {NoNonce, held[w]}
         THEN /\ opNonce' = [opNonce EXCEPT ![req[w]] = held[w]]
              /\ Goto(w, "sign")
              /\ UNCHANGED <<req, held, outcome, reply>>
         ELSE Return(w) /\ UNCHANGED opNonce
    /\ UNCHANGED <<nonceVars, opState, opSig, opReceipt, ledger, netVars>>

\* _sign_with_nonce and operations.update, which looks at no state.
RecordSignature(w) ==
    /\ pc[w] = "sign"
    /\ opSig' = [opSig EXCEPT ![req[w]] = held[w]]
    /\ Goto(w, "markSigned")
    /\ UNCHANGED <<nonceVars, opState, opNonce, opReceipt, ledger, netVars,
                   req, held, outcome, reply>>

\* operations.transition to state s without a receipt, for the thread at
\* label; a move the table refuses raises and ends the call.
Transition(w, label, s, nextLabel) ==
    /\ pc[w] = label
    /\ IF CanMove(req[w], s)
         THEN /\ opState' = [opState EXCEPT ![req[w]] = s]
              /\ Goto(w, nextLabel)
              /\ UNCHANGED <<req, held, outcome, reply>>
         ELSE Return(w) /\ UNCHANGED opState
    /\ UNCHANGED <<nonceVars, opNonce, opSig, opReceipt, ledger, netVars>>

\* Mutants: the submission start is not recorded, or recorded out of order.
MarkSignedOnly(w)    == Transition(w, "markSigned", "SIGNED", "submit")
MarkStartedFirst(w)  == Transition(w, "markSigned", "SUBMISSION_STARTED", "markStarted")

MarkSigned(w)  == Transition(w, "markSigned", "SIGNED", "markStarted")
MarkStarted(w) == Transition(w, "markStarted", "SUBMISSION_STARTED", "submit")

-----------------------------------------------------------------------------
(***************************************************************************)
(* The transports and the remote room.                                     *)
(***************************************************************************)

\* The call learns the transport's verdict.
Learn(w, o) ==
    /\ outcome' = [outcome EXCEPT ![w] = o]
    /\ reply'   = [reply EXCEPT ![w] = "none"]
    /\ Goto(w, "resolve")
    /\ UNCHANGED <<req, held>>

\* TechnocoreTransport.submit refuses a room outside ROOM_PATTERN unsent.
RefuseRoom(w) ==
    /\ Mode = "live"
    /\ pc[w] = "submit"
    /\ LaneOf[req[w]] \notin Addressable
    /\ Learn(w, "rejected")
    /\ UNCHANGED <<nonceVars, opVars, ledger, netVars>>

\* The POST leaves; the thread waits for the reply.
Post(w) ==
    /\ Mode = "live"
    /\ pc[w] = "submit"
    /\ LaneOf[req[w]] \in Addressable
    /\ wire' = wire \cup {[request |-> req[w], nonce |-> held[w], by |-> w]}
    /\ attempts' = [attempts EXCEPT ![req[w]] = @ + 1]
    /\ Goto(w, "await")
    /\ UNCHANGED <<nonceVars, opVars, ledger, stored, req, held, outcome, reply>>

\* RecordingTransport.submit answers at once, according to its mode.
RecordOffline(w) ==
    /\ Mode = "offline"
    /\ pc[w] = "submit"
    /\ \E o \in Outcomes :
         /\ Learn(w, o)
         /\ attempts' = IF o = "failed_before_send" THEN attempts
                        ELSE [attempts EXCEPT ![req[w]] = @ + 1]
    /\ UNCHANGED <<nonceVars, opVars, ledger, wire, stored>>

\* The thread that posted p still waits for its reply.
Listening(p) == pc[p.by] = "await" /\ req[p.by] = p.request

\* The room stores a post, now or long after its sender gave up.
RoomStores(p) ==
    /\ p \in wire
    /\ wire'   = wire \ {p}
    /\ stored' = stored \cup {[request |-> p.request, nonce |-> p.nonce]}
    /\ reply'  = [reply EXCEPT ![p.by] = IF Listening(p) THEN "stored" ELSE @]
    /\ UNCHANGED <<nonceVars, opVars, ledger, attempts, pc, req, held, outcome>>

\* The room refuses a post with a 4xx.
RoomRefuses(p) ==
    /\ p \in wire
    /\ wire'  = wire \ {p}
    /\ reply' = [reply EXCEPT ![p.by] = IF Listening(p) THEN "refused" ELSE @]
    /\ UNCHANGED <<nonceVars, opVars, ledger, stored, attempts,
                   pc, req, held, outcome>>

\* A 2xx that holds the exact receipt of this message.
ReadReceipt(w) ==
    /\ pc[w] = "await"
    /\ reply[w] = "stored"
    /\ Learn(w, "accepted")
    /\ UNCHANGED <<nonceVars, opVars, ledger, netVars>>

\* A 4xx other than 408, 425 and 429.
ReadRefusal(w) ==
    /\ pc[w] = "await"
    /\ reply[w] = "refused"
    /\ Learn(w, "rejected")
    /\ UNCHANGED <<nonceVars, opVars, ledger, netVars>>

\* Mutant: a timeout is taken for a rejection.
GiveUpRejected(w) ==
    /\ pc[w] = "await"
    /\ Learn(w, "rejected")
    /\ UNCHANGED <<nonceVars, opVars, ledger, netVars>>

\* Mutant: the request has no timeout.
GiveUpNever(w) ==
    /\ pc[w] = "await"
    /\ reply[w] # "none"
    /\ Learn(w, "unknown")
    /\ UNCHANGED <<nonceVars, opVars, ledger, netVars>>

\* Timeout, connection error, 408/425/429/5xx, or a reply without the exact
\* receipt: the post may or may not be stored, now or later.
GiveUp(w) ==
    /\ pc[w] = "await"
    /\ Learn(w, "unknown")
    /\ UNCHANGED <<nonceVars, opVars, ledger, netVars>>

-----------------------------------------------------------------------------
(***************************************************************************)
(* execute_room after the transport, and reconcile_room.                   *)
(***************************************************************************)

\* Mutant: only an accepted write goes on to the ledger.
SettleQuietly(w, s) ==
    IF CanMove(req[w], s)
      THEN /\ opState'   = [opState EXCEPT ![req[w]] = s]
           /\ opReceipt' = [opReceipt EXCEPT ![req[w]] =
                              IF HasReceipt(outcome[w]) THEN TRUE ELSE @]
           /\ IF s \in {"ACCEPTED", "RECONCILED"}
                THEN Goto(w, "evidence") /\ UNCHANGED <<req, held, outcome, reply>>
                ELSE Return(w)
      ELSE Return(w) /\ UNCHANGED <<opState, opReceipt>>

\* operations.transition with the transport's receipt; the terminal states
\* go on to the ledger, UNKNOWN returns.
Settle(w, s) ==
    IF CanMove(req[w], s)
      THEN /\ opState'   = [opState EXCEPT ![req[w]] = s]
           /\ opReceipt' = [opReceipt EXCEPT ![req[w]] =
                              IF HasReceipt(outcome[w]) THEN TRUE ELSE @]
           /\ IF s \in Terminal
                THEN Goto(w, "evidence") /\ UNCHANGED <<req, held, outcome, reply>>
                ELSE Return(w)
      ELSE Return(w) /\ UNCHANGED <<opState, opReceipt>>

Resolve(w) ==
    /\ pc[w] = "resolve"
    /\ Settle(w, StateFor(outcome[w]))
    /\ UNCHANGED <<nonceVars, opNonce, opSig, ledger, netVars>>

\* reconcile_room works only on a record it reads as UNKNOWN.
ReconcileRoom(w, r) ==
    /\ opState[r] = "UNKNOWN"
    /\ Call(w, r, "query")
    /\ held' = [held EXCEPT ![w] = opNonce[r]]
    /\ UNCHANGED <<nonceVars, opVars, ledger, netVars>>

\* Mutant: a message that was not observed counts as rejected.
FindingsHasty(r, n) ==
    IF [request |-> r, nonce |-> n] \in stored THEN {"accepted"} ELSE {"rejected"}

\* The verdicts transport.reconcile can reach: the live one finds the exact
\* message in the room's recent window or learns nothing; only the offline
\* one can claim a rejection.
Findings(r, n) ==
    IF Mode = "offline" THEN {"accepted", "rejected"}
    ELSE IF [request |-> r, nonce |-> n] \in stored THEN {"accepted"} ELSE {}

QueryRoom(w) ==
    /\ pc[w] = "query"
    /\ \E o \in Findings(req[w], held[w]) :
         outcome' = [outcome EXCEPT ![w] = o]
    /\ Goto(w, "markReconciled")
    /\ UNCHANGED <<nonceVars, opVars, ledger, netVars, req, held, reply>>

\* Not in the window, or the read failed: the record stays as it is.
QueryInconclusive(w) ==
    /\ pc[w] = "query"
    /\ Return(w)
    /\ UNCHANGED <<nonceVars, opVars, ledger, netVars>>

\* Mutant: the reconciled state is written without looking at the record.
MarkReconciledBlindly(w) ==
    /\ pc[w] = "markReconciled"
    /\ opState' = [opState EXCEPT ![req[w]] = "RECONCILED"]
    /\ opReceipt' = [opReceipt EXCEPT ![req[w]] = TRUE]
    /\ Goto(w, "evidence")
    /\ UNCHANGED <<nonceVars, opNonce, opSig, ledger, netVars, req, held,
                   outcome, reply>>

MarkReconciled(w) ==
    /\ pc[w] = "markReconciled"
    /\ Settle(w, IF outcome[w] = "accepted" THEN "RECONCILED" ELSE "FAILED_FINAL")
    /\ UNCHANGED <<nonceVars, opNonce, opSig, ledger, netVars>>

\* _append_evidence on the record the transition returned.
AppendEvidence(w) ==
    LET r == req[w] IN
    /\ pc[w] = "evidence"
    /\ ledger' = Append(ledger, [request |-> r, nonce |-> opNonce[r],
                                 result |-> opState[r], receipt |-> opReceipt[r]])
    /\ Return(w)
    /\ UNCHANGED <<nonceVars, opVars, netVars>>

\* Calls die between two steps: one when a store read or write fails or the
\* transport raises what submit does not catch, all of a process when it
\* crashes.  Durable state stays as it is and so does a post on the wire.
Abort(ws) ==
    /\ pc'      = [w \in Workers |-> IF w \in ws THEN "idle" ELSE pc[w]]
    /\ req'     = [w \in Workers |-> IF w \in ws THEN NoRequest ELSE req[w]]
    /\ held'    = [w \in Workers |-> IF w \in ws THEN NoNonce ELSE held[w]]
    /\ outcome' = [w \in Workers |-> IF w \in ws THEN "none" ELSE outcome[w]]
    /\ reply'   = [w \in Workers |-> IF w \in ws THEN "none" ELSE reply[w]]
    /\ UNCHANGED <<nonceVars, opVars, ledger, netVars>>

-----------------------------------------------------------------------------
\* A message leaves, or is recorded as if it had.
Submit(w) ==
    /\ pc[w] = "submit"
    /\ Post(w) \/ RecordOffline(w)

\* transport.submit, of whichever transport the service was started with.
Transmit(w) ==
    /\ pc[w] = "submit"
    /\ RefuseRoom(w) \/ Submit(w)

\* What a thread does by itself once it has been called.
Execute(w) ==
    \/ CreateOperation(w) \/ ResumeOperation(w) \/ ReturnRecorded(w)
    \/ ReserveNonce(w) \/ ReuseReservation(w) \/ NonceExhausted(w)
    \/ BindNonce(w) \/ RecordSignature(w) \/ MarkSigned(w) \/ MarkStarted(w)
    \/ Transmit(w) \/ ReadReceipt(w) \/ ReadRefusal(w) \/ GiveUp(w)
    \/ Resolve(w) \/ AppendEvidence(w)

Reconcile(w) == QueryRoom(w) \/ QueryInconclusive(w) \/ MarkReconciled(w)

Room == \E p \in wire : RoomStores(p) \/ RoomRefuses(p)

\* Everything but new calls and failures.
Run(w) == Execute(w) \/ Reconcile(w)

Next ==
    \/ \E w \in Workers, r \in Requests : ExecuteRoom(w, r) \/ ReconcileRoom(w, r)
    \/ \E w \in Workers : Run(w)
    \/ \E ws \in SUBSET Workers : Abort(ws)
    \/ \E l \in Lanes : SignRoom(l)
    \/ Room

Spec == Init /\ [][Next]_vars

\* A started call keeps running: its loop-free code and the transport's
\* timeout leave it nothing to wait for.  Failures are not ruled out.
FairSpec == Spec /\ \A w \in Workers : WF_vars(Run(w))

\* The same without failures, for what must happen when nothing breaks.
CalmNext ==
    \/ \E w \in Workers, r \in Requests : ExecuteRoom(w, r) \/ ReconcileRoom(w, r)
    \/ \E w \in Workers : Run(w)
    \/ \E l \in Lanes : SignRoom(l)
    \/ Room

CalmSpec == Init /\ [][CalmNext]_vars /\ \A w \in Workers : WF_vars(Run(w))
-----------------------------------------------------------------------------
(***************************************************************************)
(* Properties.                                                             *)
(***************************************************************************)

\* Every variable has the shape its store, its thread or the wire gives it.
TypeOK ==
    /\ counter   \in [Lanes -> 0..MaxNonce]
    /\ reserved  \in [Requests -> 0..MaxNonce]
    /\ opState   \in [Requests -> OpStates \cup {"ABSENT"}]
    /\ opNonce   \in [Requests -> 0..MaxNonce]
    /\ opSig     \in [Requests -> 0..MaxNonce]
    /\ opReceipt \in [Requests -> BOOLEAN]
    /\ ledger    \in Seq(Entries)
    /\ wire      \subseteq Posts
    /\ stored    \subseteq Messages
    /\ attempts  \in [Requests -> Nat]
    /\ pc        \in [Workers -> Steps \cup {"idle"}]
    /\ req       \in [Workers -> Requests \cup {NoRequest}]
    /\ held      \in [Workers -> 0..MaxNonce]
    /\ outcome   \in [Workers -> Outcomes \cup {"none"}]
    /\ reply     \in [Workers -> {"none", "stored", "refused"}]

\* A request is handed to the network at most once, whatever the threads
\* that execute it, the crashes between their steps and the calls repeated
\* after them ("An unknown network result is not retried automatically").
SentAtMostOnce == \A r \in Requests : attempts[r] <= 1

\* No two requests of one room are ever signed under the same nonce, however
\* reservations, crashes and the counter-only sign_room interleave.
NonceNeverShared ==
    \A r, q \in Requests :
        r # q /\ LaneOf[r] = LaneOf[q] /\ opSig[r] # NoNonce => opSig[r] # opSig[q]

\* Whatever is on the wire or in the room was recorded first: the operation
\* record is past SIGNED and holds the nonce and the signature that left.
LoggedBeforeSent ==
    \A m \in wire \cup stored :
        /\ opState[m.request] \notin {"ABSENT", "ALLOCATED", "SIGNED"}
        /\ opNonce[m.request] = m.nonce
        /\ opSig[m.request] = m.nonce

\* The message of request r, as the room would hold it.
MessageOf(r) == [request |-> r, nonce |-> opNonce[r]]

\* Live, the record never lies: ACCEPTED and RECONCILED mean the room stored
\* this very message and its receipt is kept; FAILED_FINAL means the room
\* neither holds it nor can still receive it.
VerdictTrue ==
    Mode = "live" => \A r \in Requests :
        /\ opState[r] \in {"ACCEPTED", "RECONCILED"} =>
               MessageOf(r) \in stored /\ opReceipt[r]
        /\ opState[r] = "FAILED_FINAL" =>
               \A m \in wire \cup stored : m.request # r

\* The evidence ledger never says more than the operation record: each entry
\* repeats the final record of its request, and no request has two entries.
LedgerAgrees ==
    /\ \A i \in 1..Len(ledger) : LET e == ledger[i] IN
         e = [request |-> e.request, nonce |-> opNonce[e.request],
              result |-> opState[e.request], receipt |-> opReceipt[e.request]]
    /\ \A i, j \in 1..Len(ledger) :
         ledger[i].request = ledger[j].request => i = j

\* Once taken, a nonce stays: no call or crash lowers a lane's counter, moves
\* a reservation, or rebinds a record; a final record is never changed.
NonceAndVerdictStable ==
    [][ /\ \A l \in Lanes : counter'[l] >= counter[l]
        /\ \A r \in Requests :
             /\ reserved[r] # NoNonce => reserved'[r] = reserved[r]
             /\ opNonce[r] # NoNonce => opNonce'[r] = opNonce[r]
             /\ opState[r] \in Terminal =>
                  opState'[r] = opState[r] /\ opReceipt'[r] = opReceipt[r] ]_vars

\* Reconciliation "cannot claim rejection merely because a message was not
\* observed": live, an UNKNOWN record can only become RECONCILED.
SilenceIsNotRejection ==
    [][ Mode = "live" => \A r \in Requests :
          opState[r] = "UNKNOWN" => opState'[r] \in {"UNKNOWN", "RECONCILED"} ]_vars

\* Every call ends, whatever the network and the other threads do.
CallReturns == \A w \in Workers : pc[w] # "idle" ~> pc[w] = "idle"

\* When nothing fails, a request some thread has begun to execute is resolved
\* even if its threads trip over each other, unless its lane is exhausted.
RunResolves ==
    \A r \in Requests :
        (\E w \in Workers : req[w] = r) ~>
            \/ opState[r] \in Terminal \cup {"UNKNOWN"}
            \/ counter[LaneOf[r]] = MaxNonce /\ reserved[r] = NoNonce

\* When nothing fails, every final record gets its evidence entry.
EvidenceFollows ==
    \A r \in Requests :
        opState[r] \in Terminal ~> \E i \in 1..Len(ledger) : ledger[i].request = r

-----------------------------------------------------------------------------
(***************************************************************************)
(* The inductive invariant behind the safety properties: what the durable  *)
(* records, the thread copies and the wire know about each other.          *)
(***************************************************************************)

\* A thread past the transition to SIGNED owns the submission of its request.
Owning  == {"markStarted", "submit", "await", "resolve"}
\* A thread at these steps holds a copy of the nonce its request is bound to.
Signing == {"sign", "markSigned"} \cup Owning
Unsent  == {"ABSENT", "ALLOCATED", "SIGNED"}

\* A running call has a request; one that reconciles has a record that was
\* UNKNOWN, one that writes evidence has a final record.
CallsRun ==
    \A w \in Workers :
        /\ pc[w] # "idle" => req[w] \in Requests
        /\ pc[w] \in ReconcileSteps => opState[req[w]] \in Terminal \cup {"UNKNOWN"}
        /\ pc[w] = "evidence" => opState[req[w]] \in Terminal

\* Reservations are distinct within a lane, and records repeat them.
NoncesAgree ==
    /\ \A r \in Requests :
         /\ reserved[r] <= counter[LaneOf[r]]
         /\ opNonce[r] \in {NoNonce, reserved[r]}
         /\ opSig[r] \in {NoNonce, opNonce[r]}
         /\ opState[r] \notin {"ABSENT", "ALLOCATED"} => opSig[r] # NoNonce
    /\ \A r, q \in Requests :
         r # q /\ LaneOf[r] = LaneOf[q] /\ reserved[r] # NoNonce
           => reserved[r] # reserved[q]

\* A thread's copy of the nonce is the durable one.
CopiesFresh ==
    \A w \in Workers :
        /\ pc[w] \in {"bind"} \cup Signing =>
               held[w] # NoNonce /\ held[w] = reserved[req[w]]
        /\ pc[w] \in Signing => opNonce[req[w]] = held[w]
        /\ pc[w] \in {"markSigned"} \cup Owning => opSig[req[w]] = held[w]

\* One owner per request, at the lifecycle state it has reached.
OneOwner ==
    /\ \A w \in Workers :
         /\ pc[w] = "markStarted" => opState[req[w]] = "SIGNED"
         /\ pc[w] \in {"submit", "await", "resolve"} =>
                opState[req[w]] = "SUBMISSION_STARTED"
    /\ \A v, w \in Workers :
         v # w /\ pc[v] \in Owning /\ pc[w] \in Owning => req[v] # req[w]

\* Nothing has been sent before SUBMISSION_STARTED, nor before its owner posts.
SentLate ==
    /\ \A r \in Requests :
         /\ attempts[r] <= 1
         /\ opState[r] \in Unsent => attempts[r] = 0
    /\ \A w \in Workers : pc[w] = "submit" => attempts[req[w]] = 0

Inv ==
    /\ TypeOK
    /\ CallsRun
    /\ NoncesAgree
    /\ CopiesFresh
    /\ OneOwner
    /\ SentLate
    /\ LoggedBeforeSent

\* The abstract write this path implements.
Promise == INSTANCE RoomWrite WITH
    nonce     <- reserved,
    sent      <- attempts,
    published <- {m.request : m \in stored},
    verdict   <- [r \in Requests |->
                    CASE opState[r] \in {"ACCEPTED", "RECONCILED"} -> "accepted"
                      [] opState[r] = "FAILED_FINAL" -> "failed"
                      [] opState[r] = "UNKNOWN" -> "unknown"
                      [] OTHER -> "open"]

\* The threads, stores and network together keep the abstract promise.
KeepsPromise == Promise!WSpec
=============================================================================
