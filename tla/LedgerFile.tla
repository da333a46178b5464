----------------------------- MODULE LedgerFile -----------------------------
(***************************************************************************)
(* The evidence ledger: evidence.jsonl, Ledger.append by the threads of    *)
(* the service and Ledger.read.  The file is the sequence of the pieces    *)
(* written to it; a piece without an end of line, left by an append that   *)
(* was cut short, makes one line with the piece behind it.                 *)
(***************************************************************************)
EXTENDS Naturals, Sequences, FiniteSets, Functions

CONSTANTS
    Records,   \* the records that may be appended, one per call
    Foreign,   \* lines of other origin, which read skips
    Threads,
    NoThread, NoRecord

ASSUME LedgerAssumption ==
    /\ Foreign \cap Records = {}
    /\ NoThread \notin Threads
    /\ NoRecord \notin Records

VARIABLES
    file,      \* the pieces in the file
    lock,      \* holder of the ledger's thread lock
    step,      \* the next step of each thread's append
    record,    \* its record
    begun,     \* history: records whose append has begun, in the order of the lock
    returned,  \* history: records whose append returned
    cut        \* history: records whose append was cut short while writing

lvars == <<file, lock, step, record, begun, returned, cut>>

\* A piece is a part of a record, all of it but the newline, or all of it.
Pieces == [of : Records \cup Foreign, form : {"torn", "bare", "ended"}]
Torn(r)  == [of |-> r, form |-> "torn"]
Bare(r)  == [of |-> r, form |-> "bare"]
Ended(r) == [of |-> r, form |-> "ended"]

\* Ledger.read: the lines that are one JSON object of known fields, in order;
\* the last one may lack its end.
Readable(i) ==
    /\ file[i].of \in Records /\ file[i].form # "torn"
    /\ i = 1 \/ file[i - 1].form = "ended"
    /\ i = Len(file) \/ file[i].form = "ended"
Kept == {i \in DOMAIN file : Readable(i)}
Read == {file[i].of : i \in Kept}

LInit ==
    /\ file \in {<<>>} \cup {<<Ended(f)>> : f \in Foreign}
    /\ lock = NoThread
    /\ step   = [t \in Threads |-> "idle"]
    /\ record = [t \in Threads |-> NoRecord]
    /\ begun = <<>> /\ returned = {} /\ cut = {}

Goto(t, s) == step' = [step EXCEPT ![t] = s]

\* The with statement is left: the lock is free again.
Leave(t) ==
    /\ lock' = NoThread
    /\ Goto(t, "idle")
    /\ record' = [record EXCEPT ![t] = NoRecord]

-----------------------------------------------------------------------------
\* append builds the record and waits for the lock.
Begin(t, r) ==
    /\ step[t] = "idle"
    /\ r \notin Range(begun) /\ \A u \in Threads : record[u] # r
    /\ record' = [record EXCEPT ![t] = r]
    /\ Goto(t, "lock")
    /\ UNCHANGED <<file, lock, begun, returned, cut>>

\* Mutant: the file is opened for writing.
OpenLedgerAfresh(t) ==
    /\ step[t] = "lock"
    /\ lock = NoThread
    /\ lock' = t
    /\ begun' = Append(begun, record[t])
    /\ file' = <<>>
    /\ Goto(t, "write")
    /\ UNCHANGED <<record, returned, cut>>

\* Mutant: the lock is not waited for.
OpenLedgerUnlocked(t) ==
    /\ step[t] = "lock"
    /\ lock' = t
    /\ begun' = Append(begun, record[t])
    /\ Goto(t, "write")
    /\ UNCHANGED <<file, record, returned, cut>>

\* The lock is taken and the file opened for appending.
OpenLedger(t) ==
    /\ step[t] = "lock"
    /\ lock = NoThread
    /\ lock' = t
    /\ begun' = Append(begun, record[t])
    /\ Goto(t, "write")
    /\ UNCHANGED <<file, record, returned, cut>>

\* The directory or the file cannot be opened: append raises before it writes.
OpenLedgerFails(t) ==
    /\ step[t] = "lock"
    /\ lock = NoThread
    /\ Leave(t)
    /\ UNCHANGED <<file, begun, returned, cut>>

\* flush writes the record and its newline.
WriteRecord(t) ==
    /\ step[t] = "write"
    /\ file' = Append(file, Ended(record[t]))
    /\ Goto(t, "sync")
    /\ UNCHANGED <<lock, record, begun, returned, cut>>

\* The disk is full: a part is written, perhaps all but the newline, perhaps
\* nothing, and flush raises.
WriteShort(t) ==
    /\ step[t] = "write"
    /\ \/ \E piece \in {Torn(record[t]), Bare(record[t])} : file' = Append(file, piece)
       \/ UNCHANGED file
    /\ cut' = cut \cup {record[t]}
    /\ Goto(t, "close")
    /\ UNCHANGED <<lock, record, begun, returned>>

\* The stream is closed by the with statement, which tries the rest again;
\* append raises in any case.
CloseWritesRest(t) ==
    /\ step[t] = "close"
    /\ file' = IF file # <<>> /\ file[Len(file)].of = record[t]
               THEN [file EXCEPT ![Len(file)] = Ended(record[t])]
               ELSE Append(file, Ended(record[t]))
    /\ Leave(t)
    /\ UNCHANGED <<begun, returned, cut>>

CloseFails(t) ==
    /\ step[t] = "close"
    /\ Leave(t)
    /\ UNCHANGED <<file, begun, returned, cut>>

\* fsync fails: append raises although its line is there.
SyncFails(t) ==
    /\ step[t] = "sync"
    /\ Leave(t)
    /\ UNCHANGED <<file, begun, returned, cut>>

\* fsync succeeds and append returns the record.
ReturnRecord(t) ==
    /\ step[t] = "sync"
    /\ returned' = returned \cup {record[t]}
    /\ Leave(t)
    /\ UNCHANGED <<file, begun, cut>>

\* The process dies, in a write or between two steps, and starts again.
Crash ==
    /\ \/ UNCHANGED <<file, cut>>
       \/ \E t \in Threads :
            /\ step[t] = "write"
            /\ \E piece \in {Torn(record[t]), Bare(record[t])} : file' = Append(file, piece)
            /\ cut' = cut \cup {record[t]}
    /\ lock' = NoThread
    /\ step'   = [t \in Threads |-> "idle"]
    /\ record' = [t \in Threads |-> NoRecord]
    /\ UNCHANGED <<begun, returned>>

LNext ==
    \/ \E t \in Threads, r \in Records : Begin(t, r)
    \/ \E t \in Threads :
         \/ OpenLedger(t) \/ OpenLedgerFails(t) \/ WriteRecord(t) \/ WriteShort(t) \/ CloseWritesRest(t)
         \/ CloseFails(t) \/ SyncFails(t) \/ ReturnRecord(t)
    \/ Crash

LSpec == LInit /\ [][LNext]_lvars

-----------------------------------------------------------------------------
\* Every variable has its type.
LTypeOK ==
    /\ file \in Seq(Pieces)
    /\ lock \in Threads \cup {NoThread}
    /\ step \in [Threads -> {"idle", "lock", "write", "close", "sync"}]
    /\ record \in [Threads -> Records \cup {NoRecord}]
    /\ begun \in Seq(Records)
    /\ returned \subseteq Records /\ cut \subseteq Records

\* read invents nothing and loses little: it returns each record at most once
\* and in the order of the appends, and of the records whose append returned
\* it misses at most one for each append that was cut short.
ReadTells ==
    /\ \A i, j \in Kept : i < j =>
         /\ file[i].of # file[j].of
         /\ \E m, n \in DOMAIN begun : m < n /\ begun[m] = file[i].of /\ begun[n] = file[j].of
    /\ Read \subseteq Range(begun)
    /\ Cardinality(returned \ Read) <= Cardinality(cut)

\* What can be read stays readable, wherever later appends fail; only a record
\* whose own append was cut short before its newline can be lost again.
ReadableStays == [][ \A r \in Read : r \in Read' \/ r \in cut ]_lvars
=============================================================================
