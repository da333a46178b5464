---------------------------- MODULE SignerOnFile ----------------------------
(***************************************************************************)
(* The signed-write path of Signer with its nonces in the real file:       *)
(* execute_room calls NonceStore.reserve, and everything StoreFile says of *)
(* locks, reads, renames, I/O errors and crashes happens inside that call, *)
(* while the other threads and the network of Signer run on.  Signer makes *)
(* the call one step; this module has the steps it stands for.  The other  *)
(* stores stay as Signer has them.                                         *)
(***************************************************************************)
EXTENDS NonceFile, Sequences

CONSTANTS
    Requests,    \* the request ids that are drafts
    Workers, Addressable, LaneOf, Mode, NoRequest  \* as in Signer

\* A worker reserves for its draft, in the draft's room; any other thread for
\* nobody, as sign_room does, or for an id that is no draft.
CallOf(r) == [lane |-> LaneOf[r], id |-> r]
ASSUME CallerAssumption ==
    /\ Requests \subseteq Ids /\ NoRequest \notin Requests
    /\ Workers \subseteq Threads
    /\ Addressable \subseteq Lanes /\ LaneOf \in [Requests -> Lanes]
    /\ \A r \in Requests : CallOf(r) \in Reserves
    /\ MaxNonce > 0
    /\ Mode \in {"live", "offline"}

VARIABLES opState, opNonce, opSig, opReceipt, ledger, wire, stored, attempts,
          pc, req, held, outcome, reply  \* as in Signer

callerVars == <<opState, opNonce, opSig, opReceipt, ledger, wire, stored, attempts,
                pc, req, held, outcome, reply>>
fileVars   == <<file, lock, mutex, step, op, copy, temp, answer>>
fvars      == <<fileVars, callerVars>>

\* Signer's steps, over the counters and reservations the file holds.
Counters == file.counters
Reserved == [r \in Requests |-> file.requests[r].nonce]
Caller   == INSTANCE Signer WITH counter <- Counters, reserved <- Reserved

FInit == SInit /\ Caller!Init

-----------------------------------------------------------------------------
\* execute_room calls reserve for its request.
CallReserve(w) ==
    /\ pc[w] = "reserve"
    /\ Begin(w, CallOf(req[w]))
    /\ UNCHANGED callerVars

\* So does another thread, for itself.
CallForItself(t, o) ==
    /\ o.id \notin Requests
    /\ Begin(t, o)
    /\ UNCHANGED callerVars

\* What happens inside reserve, out of the caller's sight.
InsideReserve(t) ==
    /\ \/ TakeMutex(t) \/ OpenLockFile(t) \/ TakeLock(t) \/ ReadDocument(t)
       \/ OpenTemp(t) \/ FlushTemp(t) \/ Replace(t) \/ IOFails(t) \/ Unlock(t)
    /\ UNCHANGED callerVars

\* reserve returns the nonce to execute_room.
ReserveReturns(w) ==
    /\ answer[w] # 0
    /\ Release(w)
    /\ held' = [held EXCEPT ![w] = answer[w]]
    /\ pc'   = [pc EXCEPT ![w] = "bind"]
    /\ UNCHANGED <<opState, opNonce, opSig, opReceipt, ledger, wire, stored, attempts,
                   req, outcome, reply>>

\* reserve raises and execute_room with it, perhaps with the nonce taken.
ReserveRaises(w) ==
    /\ OpenFails(w) \/ UnlockFails(w) \/ (answer[w] = 0 /\ Release(w))
    /\ Caller!Abort({w})

\* Another thread goes its own way with the nonce or the error.
CallEndsForItself(t) ==
    /\ OpenFails(t) \/ UnlockFails(t) \/ Release(t)
    /\ UNCHANGED callerVars

\* A process dies, in the middle of whatever its threads are doing.
ProcessDies(p) ==
    /\ Crash(p)
    /\ Caller!Abort({w \in Workers : ProcOf[w] = p})

\* The rest of Signer, which never looks at the file.
RunElsewhere(w) ==
    /\ pc[w] # "reserve"
    /\ UNCHANGED fileVars
    /\ \/ \E r \in Requests : Caller!ExecuteRoom(w, r) \/ Caller!ReconcileRoom(w, r)
       \/ Caller!Run(w)
       \/ Caller!Abort({w})

RoomElsewhere == UNCHANGED fileVars /\ Caller!Room

-----------------------------------------------------------------------------
FNext ==
    \/ \E w \in Workers : CallReserve(w) \/ InsideReserve(w) \/ ReserveReturns(w)
                            \/ ReserveRaises(w) \/ RunElsewhere(w)
    \/ \E t \in Threads \ Workers :
         (\E o \in Reserves : CallForItself(t, o)) \/ InsideReserve(t) \/ CallEndsForItself(t)
    \/ \E p \in Processes : ProcessDies(p)
    \/ RoomElsewhere

FSpec == FInit /\ [][FNext]_fvars

\* A running thread inside reserve goes on until the call has ended; nothing
\* makes a thread call, and nothing makes the caller or the network go on.
ProceedInFile(t) ==
    \/ step[t] \in Inside \cup {"open", "poll"} /\ InsideReserve(t)
    \/ t \in Workers /\ (ReserveReturns(t) \/ (step[t] = "release" /\ ReserveRaises(t)))
    \/ t \notin Workers /\ step[t] = "release" /\ CallEndsForItself(t)

FairFSpec == FSpec /\ \A t \in Threads : WF_fvars(ProceedInFile(t))

-----------------------------------------------------------------------------
\* A call that has its answer has, for Signer, taken its nonce.
SeenPc   == [w \in Workers |-> IF answer[w] # 0 THEN "bind" ELSE pc[w]]
SeenHeld == [w \in Workers |-> IF answer[w] # 0 THEN answer[w] ELSE held[w]]

Seen == INSTANCE Signer WITH counter <- Counters, reserved <- Reserved,
                             pc <- SeenPc, held <- SeenHeld

\* With the file underneath, the signed-write path is the one Signer
\* describes: no lock, rename, I/O error or crash inside reserve shows.
KeepsSigner == Seen!Spec

\* The inductive invariant, besides the store's and the signer's own: a call
\* of reserve belongs to a caller that waits for it, and a draft's reservation
\* is in the draft's room and in a file that parses.
CallsMatch ==
    /\ pc \in [Workers -> Caller!Steps \cup {"idle"}]
    /\ held \in [Workers -> 0..MaxNonce]
    /\ \A w \in Workers : step[w] # "idle" => pc[w] = "reserve" /\ op[w] = CallOf(req[w])
    /\ \A t \in Threads \ Workers : step[t] # "idle" => op[t].id \notin Requests

LanesMatch ==
    \A r \in Requests : file.requests[r] # NoRes =>
        file.requests[r].lane = LaneOf[r] /\ file.form = "unified"

\* A draft whose nonce was reserved before a crash gets it back: reserve never
\* refuses it, neither for its lane nor as exhausted.
RetryComesBack ==
    \A r \in Requests : file.requests[r] # NoRes =>
        ~RefusesReserve(file, CallOf(r)) /\ ReservedNonce(file, CallOf(r)) = Reserved[r]

FInv == SInv /\ Seen!Inv /\ CallsMatch /\ LanesMatch
=============================================================================
