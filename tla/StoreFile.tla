------------------------------ MODULE StoreFile ------------------------------
(***************************************************************************)
(* The file protocol of the JSON stores (nonces, operations, drafts,       *)
(* approvals): a thread lock of the store object, a lock file shared by    *)
(* all processes, a read, a temporary file that is flushed and then        *)
(* renamed over the document.  Threads, processes and failures interleave  *)
(* between any two of these.  What an operation does to the document is a  *)
(* parameter; NonceFile gives it for the nonces.                           *)
(***************************************************************************)
EXTENDS Naturals, FiniteSets

CONSTANTS
    Threads,
    Processes,
    ProcOf,         \* the process of each thread; each has its store object
    Paired,         \* TRUE: the two locks are taken by _StoreLock or
                    \* _ApprovalLock; FALSE: by two nested with statements
    Documents,      \* documents that parse
    Initial,        \* those a first start may find
    Operations,
    Refuses(_, _),  \* the operation raises on the document it reads
    Apply(_, _),    \* the document it leaves
    Answer(_, _),   \* the value it returns
    Answers,
    NoAnswer, NoOperation, NoThread,
    Torn            \* a document file that holds only part of a document

\* What an instance has to show of its constants.
StoreAssumption ==
    /\ ProcOf \in [Threads -> Processes]
    /\ Paired \in BOOLEAN
    /\ NoThread \notin Threads
    /\ Torn \notin Documents
    /\ Initial \subseteq Documents
    /\ \A d \in Documents, o \in Operations :
         ~Refuses(d, o) => Apply(d, o) \in Documents /\ Answer(d, o) \in Answers
    /\ NoAnswer \notin Answers

VARIABLES
    file,    \* what the document file holds
    lock,    \* the holder of the lock file
    mutex,   \* the holder of each process's thread lock
    step,    \* the next step of the thread's call
    op,      \* its operation
    copy,    \* the document it read
    temp,    \* its temporary file
    answer   \* the value it is about to return

svars == <<file, lock, mutex, step, op, copy, temp, answer>>

Writing == {"write", "flush", "replace"}      \* the document is being changed
Inside  == {"read", "unlock"} \cup Writing    \* the lock file is held
Holding == {"open", "poll", "release"} \cup Inside  \* the thread lock is held

SInit ==
    /\ file \in Initial
    /\ lock = NoThread
    /\ mutex  = [p \in Processes |-> NoThread]
    /\ step   = [t \in Threads |-> "idle"]
    /\ op     = [t \in Threads |-> NoOperation]
    /\ copy   = [t \in Threads |-> Torn]    \* nothing read
    /\ temp   = [t \in Threads |-> "none"]
    /\ answer = [t \in Threads |-> NoAnswer]

Go(t, s) == step' = [step EXCEPT ![t] = s]
FreeMutex(t) == mutex' = [mutex EXCEPT ![ProcOf[t]] = NoThread]

\* Calls end: they return their answers or raise, and their locals are gone.
End(ts) ==
    /\ step'   = [t \in Threads |-> IF t \in ts THEN "idle" ELSE step[t]]
    /\ op'     = [t \in Threads |-> IF t \in ts THEN NoOperation ELSE op[t]]
    /\ copy'   = [t \in Threads |-> IF t \in ts THEN Torn ELSE copy[t]]
    /\ temp'   = [t \in Threads |-> IF t \in ts THEN "none" ELSE temp[t]]
    /\ answer' = [t \in Threads |-> IF t \in ts THEN NoAnswer ELSE answer[t]]

-----------------------------------------------------------------------------
\* A call begins and waits for the thread lock.
Begin(t, o) ==
    /\ step[t] = "idle"
    /\ op' = [op EXCEPT ![t] = o]
    /\ Go(t, "mutex")
    /\ UNCHANGED <<file, lock, mutex, copy, temp, answer>>

\* Mutant: each call has a thread lock of its own.
TakeMutexNot(t) ==
    /\ step[t] = "mutex"
    /\ mutex' = [mutex EXCEPT ![ProcOf[t]] = t]
    /\ Go(t, "open")
    /\ UNCHANGED <<file, lock, op, copy, temp, answer>>

TakeMutex(t) ==
    /\ step[t] = "mutex"
    /\ mutex[ProcOf[t]] = NoThread
    /\ mutex' = [mutex EXCEPT ![ProcOf[t]] = t]
    /\ Go(t, "open")
    /\ UNCHANGED <<file, lock, op, copy, temp, answer>>

OpenLockFile(t) ==
    /\ step[t] = "open"
    /\ Go(t, "poll")
    /\ UNCHANGED <<file, lock, mutex, op, copy, temp, answer>>

\* Mutant: a store with nested with statements keeps the thread lock, too.
OpenFailsHeld(t) ==
    /\ step[t] = "open"
    /\ End({t})
    /\ UNCHANGED <<file, lock, mutex>>

\* The directory or the lock file cannot be opened.  A with statement frees
\* the thread lock; _StoreLock.__enter__ raises with it held, and its
\* __exit__ never runs.
OpenFails(t) ==
    /\ step[t] = "open"
    /\ End({t})
    /\ IF Paired THEN UNCHANGED mutex ELSE FreeMutex(t)
    /\ UNCHANGED <<file, lock>>

\* Mutant: the lock file is not locked.
TakeLockNot(t) ==
    /\ step[t] = "poll"
    /\ lock' = t
    /\ Go(t, "read")
    /\ UNCHANGED <<file, mutex, op, copy, temp, answer>>

\* msvcrt.locking without waiting, in a loop.
TakeLock(t) ==
    /\ step[t] = "poll"
    /\ lock = NoThread
    /\ lock' = t
    /\ Go(t, "read")
    /\ UNCHANGED <<file, mutex, op, copy, temp, answer>>

\* The document is read and the operation decided: refused, answered from the
\* document as it is, or to be written.
ReadDocument(t) ==
    /\ step[t] = "read"
    /\ copy' = [copy EXCEPT ![t] = file]
    /\ IF file = Torn \/ Refuses(file, op[t])
         THEN Go(t, "unlock") /\ UNCHANGED answer
         ELSE IF Apply(file, op[t]) = file
         THEN Go(t, "unlock") /\ answer' = [answer EXCEPT ![t] = Answer(file, op[t])]
         ELSE Go(t, "write") /\ UNCHANGED answer
    /\ UNCHANGED <<file, lock, mutex, op, temp>>

OpenTemp(t) ==
    /\ step[t] = "write"
    /\ temp' = [temp EXCEPT ![t] = "partial"]
    /\ Go(t, "flush")
    /\ UNCHANGED <<file, lock, mutex, op, copy, answer>>

FlushTemp(t) ==
    /\ step[t] = "flush"
    /\ temp' = [temp EXCEPT ![t] = "whole"]
    /\ Go(t, "replace")
    /\ UNCHANGED <<file, lock, mutex, op, copy, answer>>

\* os.replace: the operation takes effect here.
Replace(t) ==
    /\ step[t] = "replace"
    /\ file' = IF temp[t] = "whole" THEN Apply(copy[t], op[t]) ELSE Torn
    /\ temp' = [temp EXCEPT ![t] = "none"]
    /\ answer' = [answer EXCEPT ![t] = Answer(copy[t], op[t])]
    /\ Go(t, "unlock")
    /\ UNCHANGED <<lock, mutex, op, copy>>

\* An OSError while reading or writing: the temporary file goes, the call
\* raises and the locks are released.
IOFails(t) ==
    /\ step[t] \in {"read"} \cup Writing
    /\ temp' = [temp EXCEPT ![t] = "none"]
    /\ Go(t, "unlock")
    /\ UNCHANGED <<file, lock, mutex, op, copy, answer>>

Unlock(t) ==
    /\ step[t] = "unlock"
    /\ lock' = NoThread
    /\ Go(t, "release")
    /\ UNCHANGED <<file, mutex, op, copy, temp, answer>>

\* The unlock raises; closing the stream frees the lock file all the same.
UnlockFails(t) ==
    /\ step[t] = "unlock"
    /\ lock' = NoThread
    /\ End({t})
    /\ IF Paired THEN UNCHANGED mutex ELSE FreeMutex(t)
    /\ UNCHANGED file

\* The call returns its answer, or raises.
Release(t) ==
    /\ step[t] = "release"
    /\ FreeMutex(t)
    /\ End({t})
    /\ UNCHANGED <<file, lock>>

\* A process dies and starts again.  The system frees the lock file; what has
\* been renamed stays, temporary files are never looked at again.
Crash(p) ==
    LET dead == {t \in Threads : ProcOf[t] = p} IN
    /\ lock'   = IF lock \in dead THEN NoThread ELSE lock
    /\ mutex'  = [mutex EXCEPT ![p] = NoThread]
    /\ End(dead)
    /\ UNCHANGED file

-----------------------------------------------------------------------------
\* What a call does by itself once it holds the thread lock.
Proceed(t) ==
    \/ OpenLockFile(t) \/ TakeLock(t) \/ ReadDocument(t)
    \/ OpenTemp(t) \/ FlushTemp(t) \/ Replace(t) \/ Unlock(t) \/ Release(t)

SNext ==
    \/ \E t \in Threads : (\E o \in Operations : Begin(t, o)) \/ TakeMutex(t) \/ Proceed(t)
    \/ \E t \in Threads : OpenFails(t) \/ IOFails(t) \/ UnlockFails(t)
    \/ \E p \in Processes : Crash(p)

SSpec == SInit /\ [][SNext]_svars

-----------------------------------------------------------------------------
STypeOK ==
    /\ file   \in Documents \cup {Torn}
    /\ lock   \in Threads \cup {NoThread}
    /\ mutex  \in [Processes -> Threads \cup {NoThread}]
    /\ step   \in [Threads -> {"idle", "mutex"} \cup Holding]
    /\ op     \in [Threads -> Operations \cup {NoOperation}]
    /\ copy   \in [Threads -> Documents \cup {Torn}]
    /\ temp   \in [Threads -> {"none", "partial", "whole"}]
    /\ answer \in [Threads -> Answers \cup {NoAnswer}]

\* A reader never finds part of a document, wherever a writer dies.
NeverTorn == file # Torn

\* A write never undoes another one: from the read to the rename the thread's
\* copy is what the file holds, in whatever process the other writers are.
NothingLost ==
    \A t \in Threads : step[t] \in Writing => copy[t] = file

\* A call that has got its thread lock ends, however the other threads of its
\* process come and go; only another process can keep it waiting, by taking
\* the lock file.
CallEnds ==
    \A t \in Threads :
        step[t] \in Holding ~>
            step[t] = "idle" \/ \E u \in Threads : ProcOf[u] # ProcOf[t] /\ lock = u

\* The two locks exclude, and are given back: the lock file is held by the one
\* thread inside, the thread lock by the thread that got it or, Paired, by one
\* whose lock file failed.
LocksKept ==
    \A t \in Threads :
        /\ lock = t <=> step[t] \in Inside
        /\ step[t] \in Holding => mutex[ProcOf[t]] = t
        /\ \A p \in Processes : mutex[p] = t =>
               ProcOf[t] = p /\ (step[t] \in Holding \/ Paired)

-----------------------------------------------------------------------------
\* The inductive invariant: the thread inside has decided on the document the
\* file still holds, and renames only a flushed file.
Decided ==
    \A t \in Threads :
        /\ step[t] \in Writing \cup {"read"} => op[t] \in Operations /\ answer[t] = NoAnswer
        /\ step[t] \in {"idle", "mutex", "open", "poll"} => answer[t] = NoAnswer
        /\ step[t] \in {"mutex", "open", "poll"} => op[t] \in Operations
        /\ step[t] \in Writing => ~Refuses(copy[t], op[t])
        /\ step[t] = "replace" => temp[t] = "whole"

SInv == STypeOK /\ NeverTorn /\ NothingLost /\ LocksKept /\ Decided

Atomic == INSTANCE AtomicStore WITH doc <- file

\* Locks, renames, failures and crashes together keep the store atomic.
KeepsAtomic == Atomic!ASpec
=============================================================================
