--------------------------- MODULE IdentityProofs ---------------------------
(* Proofs about Identity: what initialise, restore and backup keep when setup *)
(* commands do not overlap. *)
EXTENDS Identity, TLAPS

\* A restore that has found the state directory empty and may still undo.
Restoring(p) ==
    cmd[p] = "restore" /\ (created[p] # {} \/ pc[p] \in InState \ {"empty", "undo"})

\* A backup file that no running backup may still take back.
Settled(o) == \A p \in Procs : pc[p] = "chmod" => out[p] # o

HasCopy(k) == \E o \in Outputs : copies[o] = k /\ Settled(o)

\* At most one process changes the identity.
Alone == \A p, q \in Procs : pc[p] \in InState /\ pc[q] \in InState => p = q

\* What each step of a command knows of the command and of the files.
AtStep == \A p \in Procs :
    /\ cmd[p] = "init" => pc[p] \notin {"empty", "open", "undo"}
    /\ cmd[p] = "none" => pc[p] = "idle"
    /\ cmd[p] = "serve" => pc[p] \in {"serving", "load", "save", "saving"}
    /\ cmd[p] = "backup" => pc[p] \in InBackup
    /\ pc[p] \in {"idle", "empty"} => created[p] = {}
    /\ cmd[p] = "restore" => pc[p] \in InState \ {"check", "load", "compare"}
    /\ pc[p] \in InBackup => cmd[p] = "backup"
    /\ pc[p] \in InBackup \cup {"open"} \/ cmd[p] = "restore" => out[p] \in Outputs
    /\ pc[p] = "save" => identity = Absent /\ key[p] \in Keys
    /\ pc[p] = "saving" => identity = Torn /\ key[p] \in Keys
    /\ pc[p] \in {"compare", "mark", "marking", "report"} => identity = key[p] /\ key[p] \in Keys
    /\ pc[p] = "mark" => marker = Absent
    /\ pc[p] = "marking" => marker = Torn
    /\ pc[p] = "report" => marker = key[p]
    /\ pc[p] = "serving" => cmd[p] = "serve" /\ key[p] \in Keys

\* What a restore knows until it reports or has undone everything: it found
\* nothing installed, nothing reported, no service, and its key has a copy.
RestoreStep == \A p \in Procs : Restoring(p) =>
    /\ told = {}
    /\ \A q \in Procs : pc[q] # "serving"
    /\ pc[p] \in {"open", "prompt", "derive", "enroll"} => identity = Absent
    /\ pc[p] \in {"open", "prompt", "derive", "enroll", "save", "saving"} =>
         marker = Absent /\ "identity" \notin created[p]
    /\ pc[p] \notin {"open", "undo"} => HasCopy(key[p]) /\ key[p] \in Keys
    /\ "identity" \in created[p] => identity = key[p] /\ HasCopy(key[p]) /\ key[p] \in Keys

\* What is known of keys and of the backups being made.
BackupStep ==
    /\ identity \in Keys => identity \in saved
    /\ \A p \in Procs : pc[p] \in {"link", "chmod"} => key[p] \in saved
    /\ \A p \in Procs : pc[p] = "chmod" => copies[out[p]] = key[p] /\ backed[out[p]] = Absent
    /\ \A p, q \in Procs : pc[p] = "chmod" /\ pc[q] = "chmod" /\ out[p] = out[q] => p = q

SavedKept == \A k \in saved : identity = k \/ HasCopy(k)

IdInv ==
    /\ IdTypeOK /\ Alone /\ AtStep /\ RestoreStep
    /\ BackupStep /\ SavedKept /\ ReportedStays /\ SignsAsStored /\ BackupsStay

\* The invariant holds at first.
LEMMA InitIdInv == IdInit => IdInv
BY IdentityAssumption
   DEF IdInit, IdInv, IdTypeOK, Alone, AtStep, RestoreStep, Restoring, BackupStep, SavedKept,
       ReportedStays, SignsAsStored, BackupsStay, Commands, InState, InBackup, Targets

\* A command that ends takes its locals along.
LEMMA LeaveKeeps ==
    ASSUME IdInv, NEW p \in Procs, Leave(p), UNCHANGED <<files, copies, used, histories>>
    PROVE  IdInv'
BY IdentityAssumption, SMTT(30)
   DEF IdInv, IdTypeOK, Alone, AtStep, RestoreStep, Restoring, BackupStep, SavedKept,
       ReportedStays, SignsAsStored, BackupsStay, Commands, InState, InBackup, Targets,
       HasCopy, Settled, Goto, Hold, Leave, files, histories

\* An exception ends a command, but a restore keeps its locals for the undo.
LEMMA RaiseKeeps ==
    ASSUME IdInv, NEW p \in Procs, pc[p] \in (InState \cup InBackup) \ {"undo"}, Raise(p),
           UNCHANGED <<files, copies, used, histories>>
    PROVE  IdInv'
<1>1. CASE cmd[p] = "restore"
  BY <1>1, IdentityAssumption, SMTT(30)
  DEF IdInv, IdTypeOK, Alone, AtStep, RestoreStep, Restoring, BackupStep, SavedKept,
      ReportedStays, SignsAsStored, BackupsStay, Commands, InState, InBackup, Targets,
      HasCopy, Settled, Goto, Raise, files, histories
<1>2. CASE cmd[p] # "restore"
  BY <1>2, LeaveKeeps DEF Raise
<1> QED BY <1>1, <1>2

\* Every step keeps it when setup commands take turns.
LEMMA StepIdInv == OneAtATime /\ IdInv /\ [IdNext]_idvars => IdInv'
<1> SUFFICES ASSUME OneAtATime, IdInv, [IdNext]_idvars PROVE IdInv'
  OBVIOUS
<1> USE IdentityAssumption
<1> USE DEF IdInv, IdTypeOK, Alone, AtStep, RestoreStep, Restoring, BackupStep, SavedKept,
       ReportedStays, SignsAsStored, BackupsStay, Commands, InState, InBackup, Targets,
       HasCopy, Settled, Goto, Hold, Made, Leave, Raise, files, locals, histories
<1>0. ASSUME NEW p \in Procs, NEW c \in Commands, NEW o \in Outputs, Start(p, c, o) PROVE IdInv'
  <2>1. IdTypeOK'
    BY <1>0, SMTT(30) DEF Start, Starts
  <2>2. Alone'
    BY <1>0, SMTT(30) DEF Start, Starts
  <2>3. AtStep'
    BY <1>0, SMTT(30) DEF Start, Starts
  <2>4. RestoreStep'
    BY <1>0, SMTT(30) DEF Start, Starts
  <2>5. BackupStep'
    BY <1>0, SMTT(30) DEF Start, Starts
  <2>6. SavedKept'
    BY <1>0, SMTT(30) DEF Start, Starts
  <2>7. ReportedStays' /\ SignsAsStored' /\ BackupsStay'
    BY <1>0, SMTT(30) DEF Start, Starts
  <2> QED
    BY <2>1, <2>2, <2>3, <2>4, <2>5, <2>6, <2>7 DEF IdInv
<1>1. ASSUME NEW p \in Procs, CheckPartial(p) PROVE IdInv'
  BY <1>1, LeaveKeeps, SMTT(30) DEF CheckPartial
<1>2. ASSUME NEW p \in Procs, CheckEmpty(p) PROVE IdInv'
  BY <1>2, LeaveKeeps, SMTT(30) DEF CheckEmpty
<1>3. ASSUME NEW p \in Procs, OpenBackup(p) PROVE IdInv'
  BY <1>3, SMTT(30) DEF OpenBackup
<1>4. ASSUME NEW p \in Procs, CheckConfigured(p) PROVE IdInv'
  BY <1>4, RaiseKeeps, SMTT(30) DEF CheckConfigured
<1>5. ASSUME NEW p \in Procs, OpenCredential(p) PROVE IdInv'
  BY <1>5, SMTT(30) DEF OpenCredential
<1>6. ASSUME NEW p \in Procs, WriteCredential(p) PROVE IdInv'
  BY <1>6, SMTT(30) DEF WriteCredential
<1>7. ASSUME NEW p \in Procs, LoadOrCreate(p) PROVE IdInv'
  <2>1. IdTypeOK'
    BY <1>7, SMTT(30) DEF LoadOrCreate, Loaded
  <2>2. Alone'
    BY <1>7, SMTT(30) DEF LoadOrCreate, Loaded
  <2>3. AtStep'
    BY <1>7, SMTT(30) DEF LoadOrCreate, Loaded
  <2>4. RestoreStep'
    BY <1>7, SMTT(30) DEF LoadOrCreate, Loaded
  <2>5. BackupStep'
    BY <1>7, SMTT(30) DEF LoadOrCreate, Loaded
  <2>6. SavedKept'
    BY <1>7, SMTT(30) DEF LoadOrCreate, Loaded
  <2>7. ReportedStays' /\ SignsAsStored' /\ BackupsStay'
    BY <1>7, SMTT(30) DEF LoadOrCreate, Loaded
  <2> QED
    BY <2>1, <2>2, <2>3, <2>4, <2>5, <2>6, <2>7 DEF IdInv
<1>8. ASSUME NEW p \in Procs, OpenIdentity(p) PROVE IdInv'
  BY <1>8, SMTT(30) DEF OpenIdentity
<1>9. ASSUME NEW p \in Procs, WriteIdentity(p) PROVE IdInv'
  <2>1. IdTypeOK'
    BY <1>9, SMTT(30) DEF WriteIdentity, Loaded
  <2>2. Alone'
    BY <1>9, SMTT(30) DEF WriteIdentity, Loaded
  <2>3. AtStep'
    BY <1>9, SMTT(30) DEF WriteIdentity, Loaded
  <2>4. RestoreStep'
    BY <1>9, SMTT(30) DEF WriteIdentity, Loaded
  <2>5. BackupStep'
    BY <1>9, SMTT(30) DEF WriteIdentity, Loaded
  <2>6. SavedKept'
    BY <1>9, SMTT(30) DEF WriteIdentity, Loaded
  <2>7. ReportedStays' /\ SignsAsStored' /\ BackupsStay'
    BY <1>9, SMTT(30) DEF WriteIdentity, Loaded
  <2> QED
    BY <2>1, <2>2, <2>3, <2>4, <2>5, <2>6, <2>7 DEF IdInv
<1>10. ASSUME NEW p \in Procs, CompareMarker(p) PROVE IdInv'
  BY <1>10, SMTT(30) DEF CompareMarker
<1>11. ASSUME NEW p \in Procs, OpenMarker(p) PROVE IdInv'
  BY <1>11, SMTT(30) DEF OpenMarker
<1>12. ASSUME NEW p \in Procs, WriteMarker(p) PROVE IdInv'
  BY <1>12, SMTT(30) DEF WriteMarker
<1>13. ASSUME NEW p \in Procs, Report(p) PROVE IdInv'
  BY <1>13, SMTT(30) DEF Report
<1>14. ASSUME NEW p \in Procs, Undo(p) PROVE IdInv'
  BY <1>14, SMTT(30) DEF Undo, Newest
<1>15. ASSUME NEW p \in Procs, Undone(p) PROVE IdInv'
  BY <1>15, SMTT(30) DEF Undone
<1>16. ASSUME NEW p \in Procs, Serve(p) PROVE IdInv'
  BY <1>16, SMTT(30) DEF Serve
<1>17. ASSUME NEW p \in Procs, LookForOutput(p) PROVE IdInv'
  BY <1>17, LeaveKeeps, SMTT(30) DEF LookForOutput
<1>18. ASSUME NEW p \in Procs, ReadIdentity(p) PROVE IdInv'
  BY <1>18, SMTT(30) DEF ReadIdentity
<1>19. ASSUME NEW p \in Procs, Publish(p) PROVE IdInv'
  <2>1. IdTypeOK'
    BY <1>19, SMTT(30) DEF Publish
  <2>2. Alone'
    BY <1>19, SMTT(30) DEF Publish
  <2>3. AtStep'
    BY <1>19, SMTT(30) DEF Publish
  <2>4. RestoreStep'
    <3>1. ASSUME NEW k \in Keys, HasCopy(k) PROVE HasCopy(k)'
      BY <1>19, <3>1, SMTT(30) DEF Publish
    <3> QED
      BY <1>19, <3>1, SMTT(30) DEF Publish
  <2>5. BackupStep'
    BY <1>19, SMTT(30) DEF Publish
  <2>6. SavedKept'
    BY <1>19, SMTT(30) DEF Publish
  <2>7. ReportedStays' /\ SignsAsStored' /\ BackupsStay'
    BY <1>19, SMTT(30) DEF Publish
  <2> QED
    BY <2>1, <2>2, <2>3, <2>4, <2>5, <2>6, <2>7 DEF IdInv
<1>20. ASSUME NEW p \in Procs, Unpublish(p) PROVE IdInv'
  BY <1>20, SMTT(30) DEF Unpublish
<1>21. ASSUME NEW p \in Procs, ReportBackup(p) PROVE IdInv'
  BY <1>21, SMTT(30) DEF ReportBackup
<1>22. ASSUME NEW p \in Procs, Fails(p) PROVE IdInv'
  BY <1>22, RaiseKeeps DEF Fails
<1>23. ASSUME NEW p \in Procs, Die(p) PROVE IdInv'
  BY <1>23, LeaveKeeps DEF Die
<1>24. CASE UNCHANGED idvars
  BY <1>24, SMTT(30) DEF idvars
<1> HIDE DEF IdInv, IdTypeOK, Alone, AtStep, RestoreStep, Restoring, BackupStep, SavedKept,
       ReportedStays, SignsAsStored, BackupsStay, Commands, InState, InBackup, Targets,
       HasCopy, Settled, Goto, Hold, Made, Leave, Raise, files, locals, histories
<1> QED
  BY <1>0, <1>1, <1>2, <1>3, <1>4, <1>5, <1>6, <1>7, <1>8, <1>9, <1>10, <1>11, <1>12, <1>13,
     <1>14, <1>15, <1>16, <1>17, <1>18, <1>19, <1>20, <1>21, <1>22, <1>23, <1>24
  DEF IdNext

\* A key file is only opened where there is none and written where it is torn.
LEMMA StepOverwrites ==
    IdInv /\ [IdNext]_idvars => [(identity \in Keys) => (identity' \in {identity, Absent})]_idvars
<1> SUFFICES ASSUME IdInv, IdNext, identity \in Keys, identity' # identity PROVE identity' = Absent
  BY DEF idvars, files
<1> PICK p \in Procs :
        \/ OpenIdentity(p) \/ WriteIdentity(p) \/ Undo(p)
  BY DEF IdNext, Start, CheckPartial, CheckEmpty, OpenBackup, CheckConfigured, OpenCredential,
     WriteCredential, LoadOrCreate, CompareMarker, OpenMarker, WriteMarker, Report, Undone, Serve,
     LookForOutput, ReadIdentity, Publish, Unpublish, ReportBackup, Fails, Die, files
<1> QED
  BY IdentityAssumption DEF IdInv, AtStep, OpenIdentity, WriteIdentity, Undo

-----------------------------------------------------------------------------
\* The invariant holds for any processes, keys and backup files.
THEOREM IdInvariance == ASSUME OneAtATime PROVE IdSpec => []IdInv
<1>1. IdInv /\ [IdNext]_idvars => IdInv'
  BY StepIdInv
<1> QED BY <1>1, InitIdInv, PTL DEF IdSpec

\* Type correctness.
THEOREM IdTypeCorrect == ASSUME OneAtATime PROVE IdSpec => []IdTypeOK
<1>1. IdInv => IdTypeOK
  BY DEF IdInv
<1> QED BY <1>1, IdInvariance, PTL

\* A saved key stays installed or in a backup file.
THEOREM KeysAreKept == ASSUME OneAtATime PROVE IdSpec => []KeyKept
<1>1. IdInv => KeyKept
  BY DEF IdInv, SavedKept, HasCopy, KeyKept
<1> QED BY <1>1, IdInvariance, PTL

\* The DID that was reported stays the one of the key file and the marker.
THEOREM ReportsAreFinal == ASSUME OneAtATime PROVE IdSpec => []ReportedStays
<1>1. IdInv => ReportedStays
  BY DEF IdInv
<1> QED BY <1>1, IdInvariance, PTL

\* The service signs with the key that is on disk.
THEOREM ServiceSignsAsStored == ASSUME OneAtATime PROVE IdSpec => []SignsAsStored
<1>1. IdInv => SignsAsStored
  BY DEF IdInv
<1> QED BY <1>1, IdInvariance, PTL

\* A reported backup is never replaced or removed.
THEOREM BackupsAreFinal == ASSUME OneAtATime PROVE IdSpec => []BackupsStay
<1>1. IdInv => BackupsStay
  BY DEF IdInv
<1> QED BY <1>1, IdInvariance, PTL

\* What overlapping commands break, commands that take turns keep: no command
\* writes over a key file that holds a key.
THEOREM TurnsNeverOverwrite == ASSUME OneAtATime PROVE IdSpec => NeverOverwritten
BY StepOverwrites, IdInvariance, PTL DEF IdSpec, NeverOverwritten

\* In particular restore_identity keeps its promise then: where it opens or
\* writes the key file, that file holds no key.
THEOREM TurnsRestoreRefuses == ASSUME OneAtATime PROVE IdSpec => RestoreRefuses
<1>1. ASSUME IdInv, NEW p \in Procs, cmd[p] = "restore", OpenIdentity(p) \/ WriteIdentity(p)
      PROVE  identity \notin Keys
  BY <1>1, IdentityAssumption DEF IdInv, AtStep, OpenIdentity, WriteIdentity
<1>2. IdInv => \A p \in Procs :
                 cmd[p] = "restore" /\ (OpenIdentity(p) \/ WriteIdentity(p)) => identity \notin Keys
  BY <1>1
<1> QED BY <1>2, IdInvariance, PTL DEF IdSpec, RestoreRefuses
=============================================================================
