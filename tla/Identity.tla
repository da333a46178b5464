------------------------------ MODULE Identity ------------------------------
(***************************************************************************)
(* The life of the signing identity on disk: the commands that initialise, *)
(* restore and back up the local state, and the start of the service.  A   *)
(* command works on operator.json, identity.dpapi and local-install.json   *)
(* with plain writes and without a lock, may be interrupted anywhere, and  *)
(* only restore takes back what it created.                                *)
(***************************************************************************)
EXTENDS FiniteSets

CONSTANTS
    Procs,
    Keys,         \* the keys that can exist, one per DID
    Elsewhere,    \* keys of other machines, of which there are backups
    Outputs,      \* names of backup files
    OneAtATime,   \* initialise, restore and starting the service never overlap
    NoOutput, Absent, Torn, Whole

ASSUME IdentityAssumption ==
    /\ Elsewhere \subseteq Keys
    /\ OneAtATime \in BOOLEAN
    /\ Absent \notin Keys /\ Torn \notin Keys /\ Absent # Torn
    /\ NoOutput \notin Outputs
    /\ Whole \notin {Absent, Torn}

VARIABLES
    operator,   \* operator.json
    identity,   \* identity.dpapi: the key it protects
    marker,     \* local-install.json: the DID it names
    rest,       \* there are other files in the state directory
    copies,     \* the backup files
    used,       \* keys generated so far, here or elsewhere
    cmd, pc,    \* the command each process runs and its next step
    key, out,   \* the key it holds, the backup file it was given
    created,    \* the files a restore would take back
    saved,      \* history: keys that were whole in identity.dpapi
    told,       \* history: keys that init or restore reported as installed
    backed      \* history: the backups reported as made

files     == <<operator, identity, marker, rest>>
locals    == <<cmd, pc, key, out, created>>
histories == <<saved, told, backed>>
idvars    == <<files, copies, used, locals, histories>>

Targets  == {"operator", "identity", "marker"}
Commands == {"init", "restore", "serve", "backup"}
InState  == {"check", "empty", "open", "prompt", "derive", "enroll", "load", "save",
             "saving", "compare", "mark", "marking", "report", "undo"}
InBackup == {"look", "read", "link", "chmod"}

IdInit ==
    /\ operator = Absent /\ identity = Absent /\ marker = Absent
    /\ rest = FALSE
    /\ copies \in [Outputs -> Elsewhere \cup {Absent}]
    /\ used = Elsewhere
    /\ cmd = [p \in Procs |-> "none"]
    /\ pc  = [p \in Procs |-> "idle"]
    /\ key = [p \in Procs |-> Absent]
    /\ out = [p \in Procs |-> NoOutput]
    /\ created = [p \in Procs |-> {}]
    /\ saved = {} /\ told = {}
    /\ backed = [o \in Outputs |-> Absent]

Goto(p, s) == pc' = [pc EXCEPT ![p] = s]
Hold(p, k) == key' = [key EXCEPT ![p] = k]
Made(p, f) == created' = [created EXCEPT ![p] = @ \cup {f}]

\* The command returns, raises or dies.
Leave(p) ==
    /\ Goto(p, "idle")
    /\ cmd' = [cmd EXCEPT ![p] = "none"]
    /\ Hold(p, Absent)
    /\ out' = [out EXCEPT ![p] = NoOutput]
    /\ created' = [created EXCEPT ![p] = {}]

\* An exception: restore undoes what it did, the others leave it.
Raise(p) ==
    IF cmd[p] = "restore" THEN Goto(p, "undo") /\ UNCHANGED <<cmd, key, out, created>>
    ELSE Leave(p)

-----------------------------------------------------------------------------
Starts == [init |-> "check", restore |-> "empty", serve |-> "load", backup |-> "look"]

\* Somebody starts a command.  The service wants an operator.json to be there.
Start(p, c, o) ==
    /\ pc[p] = "idle"
    /\ c = "serve" => operator # Absent
    /\ OneAtATime /\ c # "backup" => \A q \in Procs : pc[q] \notin InState
    /\ cmd' = [cmd EXCEPT ![p] = c]
    /\ out' = [out EXCEPT ![p] = IF c \in {"restore", "backup"} THEN o ELSE NoOutput]
    /\ Goto(p, Starts[c])
    /\ UNCHANGED <<files, copies, used, key, created, histories>>

\* initialize_local_identity: without a marker only the partial state of an
\* earlier attempt is accepted; an operator credential is never replaced.
CheckPartial(p) ==
    /\ pc[p] = "check"
    /\ IF marker = Absent /\ rest THEN Leave(p)
       ELSE /\ Goto(p, IF operator = Absent THEN "prompt" ELSE "load")
            /\ UNCHANGED <<cmd, key, out, created>>
    /\ UNCHANGED <<files, copies, used, histories>>

\* restore_identity: the state directory must be empty.
CheckEmpty(p) ==
    /\ pc[p] = "empty"
    /\ IF operator = Absent /\ identity = Absent /\ marker = Absent /\ ~rest
         THEN Goto(p, "open") /\ UNCHANGED <<cmd, key, out, created>>
         ELSE Leave(p)
    /\ UNCHANGED <<files, copies, used, histories>>

\* The backup is read and decrypted.
OpenBackup(p) ==
    /\ pc[p] = "open"
    /\ copies[out[p]] # Absent
    /\ Hold(p, copies[out[p]])
    /\ Goto(p, "prompt")
    /\ UNCHANGED <<files, copies, used, cmd, out, created, histories>>

\* OperatorAuth.enroll: checked here, written after the key derivation.
CheckConfigured(p) ==
    /\ pc[p] = "prompt"
    /\ IF operator = Absent
         THEN Goto(p, "derive") /\ UNCHANGED <<cmd, key, out, created>>
         ELSE Raise(p)
    /\ UNCHANGED <<files, copies, used, histories>>

OpenCredential(p) ==
    /\ pc[p] = "derive"
    /\ operator' = Torn
    /\ Goto(p, "enroll")
    /\ UNCHANGED <<identity, marker, rest, copies, used, cmd, key, out, created, histories>>

WriteCredential(p) ==
    /\ pc[p] = "enroll"
    /\ operator' = Whole
    /\ Made(p, "operator")
    /\ Goto(p, IF cmd[p] = "restore" THEN "save" ELSE "load")
    /\ UNCHANGED <<identity, marker, rest, copies, used, cmd, key, out, histories>>

Loaded(p) == IF cmd[p] = "serve" THEN "serving" ELSE "compare"

\* Mutant: a key file that does not load is replaced by a new key.
LoadOrCreateAnyway(p) ==
    /\ pc[p] = "load"
    /\ \/ /\ \E k \in Keys \ used : Hold(p, k) /\ used' = used \cup {k}
          /\ Goto(p, "save")
       \/ /\ identity \in Keys
          /\ Hold(p, identity)
          /\ Goto(p, Loaded(p))
          /\ UNCHANGED used
    /\ UNCHANGED <<files, copies, cmd, out, created, histories>>

\* DPAPIKeyProvider.load_or_create: a missing file means a new key, whatever
\* the marker says; a torn one does not decrypt.
LoadOrCreate(p) ==
    /\ pc[p] = "load"
    /\ \/ /\ identity = Absent
          /\ \E k \in Keys \ used : Hold(p, k) /\ used' = used \cup {k}
          /\ Goto(p, "save")
          /\ UNCHANGED <<cmd, out, created>>
       \/ /\ identity \in Keys
          /\ Hold(p, identity)
          /\ Goto(p, Loaded(p))
          /\ UNCHANGED <<used, cmd, out, created>>
       \/ identity = Torn /\ Leave(p) /\ UNCHANGED used
    /\ UNCHANGED <<files, copies, histories>>

\* dpapi.save: write_bytes truncates whatever is there.
OpenIdentity(p) ==
    /\ pc[p] = "save"
    /\ identity' = Torn
    /\ Goto(p, "saving")
    /\ UNCHANGED <<operator, marker, rest, copies, used, cmd, key, out, created, histories>>

WriteIdentity(p) ==
    /\ pc[p] = "saving"
    /\ identity' = key[p]
    /\ saved' = saved \cup {key[p]}
    /\ Made(p, "identity")
    /\ Goto(p, IF cmd[p] = "restore" THEN "mark" ELSE Loaded(p))
    /\ UNCHANGED <<operator, marker, rest, copies, used, cmd, key, out, told, backed>>

\* Mutant: an existing marker is not compared with the key.
CompareMarkerNot(p) ==
    /\ pc[p] = "compare"
    /\ Goto(p, IF marker = Absent THEN "mark" ELSE "report")
    /\ UNCHANGED <<files, copies, used, cmd, key, out, created, histories>>

\* An existing marker must name the key that was loaded.
CompareMarker(p) ==
    /\ pc[p] = "compare"
    /\ IF marker \in {Absent, key[p]}
         THEN /\ Goto(p, IF marker = Absent THEN "mark" ELSE "report")
              /\ UNCHANGED <<cmd, key, out, created>>
         ELSE Leave(p)
    /\ UNCHANGED <<files, copies, used, histories>>

\* init opens the marker with "x", restore with write_text.
OpenMarker(p) ==
    /\ pc[p] = "mark"
    /\ IF cmd[p] = "init" /\ marker # Absent
         THEN Leave(p) /\ UNCHANGED marker
         ELSE /\ marker' = Torn
              /\ Goto(p, "marking")
              /\ UNCHANGED <<cmd, key, out, created>>
    /\ UNCHANGED <<operator, identity, rest, copies, used, histories>>

WriteMarker(p) ==
    /\ pc[p] = "marking"
    /\ marker' = key[p]
    /\ Made(p, "marker")
    /\ Goto(p, "report")
    /\ UNCHANGED <<operator, identity, rest, copies, used, cmd, key, out, histories>>

\* The command prints its DID.
Report(p) ==
    /\ pc[p] = "report"
    /\ told' = told \cup {key[p]}
    /\ Leave(p)
    /\ UNCHANGED <<files, copies, used, saved, backed>>

\* The exception handler of restore: newest file first, and a file that
\* cannot be unlinked stays.
Newest(fs) == IF "marker" \in fs THEN "marker" ELSE IF "identity" \in fs THEN "identity" ELSE "operator"
Undo(p) ==
    LET f == Newest(created[p]) IN
    /\ pc[p] = "undo"
    /\ created[p] # {}
    /\ created' = [created EXCEPT ![p] = @ \ {f}]
    /\ \/ /\ operator' = IF f = "operator" THEN Absent ELSE operator
          /\ identity' = IF f = "identity" THEN Absent ELSE identity
          /\ marker'   = IF f = "marker"   THEN Absent ELSE marker
       \/ UNCHANGED <<operator, identity, marker>>
    /\ UNCHANGED <<rest, copies, used, cmd, pc, key, out, histories>>

Undone(p) ==
    /\ pc[p] = "undo"
    /\ created[p] = {}
    /\ Leave(p)
    /\ UNCHANGED <<files, copies, used, histories>>

\* The running service writes its stores into the state directory.
Serve(p) ==
    /\ pc[p] = "serving"
    /\ ~rest
    /\ rest' = TRUE
    /\ UNCHANGED <<operator, identity, marker, copies, used, locals, histories>>

-----------------------------------------------------------------------------
\* backup_identity.
LookForOutput(p) ==
    /\ pc[p] = "look"
    /\ IF identity # Absent /\ copies[out[p]] = Absent
         THEN Goto(p, "read") /\ UNCHANGED <<cmd, key, out, created>>
         ELSE Leave(p)
    /\ UNCHANGED <<files, copies, used, histories>>

ReadIdentity(p) ==
    /\ pc[p] = "read"
    /\ IF identity \in Keys
         THEN Hold(p, identity) /\ Goto(p, "link") /\ UNCHANGED <<cmd, out, created>>
         ELSE Leave(p)
    /\ UNCHANGED <<files, copies, used, histories>>

\* Mutant: the finished file is renamed over the output.
PublishOver(p) ==
    /\ pc[p] = "link"
    /\ copies' = [copies EXCEPT ![out[p]] = key[p]]
    /\ Goto(p, "chmod")
    /\ UNCHANGED <<files, used, cmd, key, out, created, histories>>

\* os.link of the flushed temporary file: fails if the name is taken by now.
Publish(p) ==
    /\ pc[p] = "link"
    /\ IF copies[out[p]] = Absent
         THEN /\ copies' = [copies EXCEPT ![out[p]] = key[p]]
              /\ Goto(p, "chmod")
              /\ UNCHANGED <<cmd, key, out, created>>
         ELSE Leave(p) /\ UNCHANGED copies
    /\ UNCHANGED <<files, used, histories>>

\* The last chmod of the published file fails: it is unlinked again, if it can.
Unpublish(p) ==
    /\ pc[p] = "chmod"
    /\ \/ copies' = [copies EXCEPT ![out[p]] = Absent]
       \/ UNCHANGED copies
    /\ Leave(p)
    /\ UNCHANGED <<files, used, histories>>

ReportBackup(p) ==
    /\ pc[p] = "chmod"
    /\ backed' = [backed EXCEPT ![out[p]] = key[p]]
    /\ Leave(p)
    /\ UNCHANGED <<files, copies, used, saved, told>>

-----------------------------------------------------------------------------
\* A wrong passphrase, an ACL that cannot be set, a full disk.
Fails(p) ==
    /\ pc[p] \in (InState \ {"undo"}) \cup {"look", "read", "link"}
    /\ Raise(p)
    /\ UNCHANGED <<files, copies, used, histories>>

\* The process is killed, or interrupted at a prompt: nothing is undone.
Die(p) ==
    /\ pc[p] # "idle"
    /\ Leave(p)
    /\ UNCHANGED <<files, copies, used, histories>>

IdNext ==
    \E p \in Procs :
        \/ \E c \in Commands, o \in Outputs : Start(p, c, o)
        \/ CheckPartial(p) \/ CheckEmpty(p) \/ OpenBackup(p)
        \/ CheckConfigured(p) \/ OpenCredential(p) \/ WriteCredential(p)
        \/ LoadOrCreate(p) \/ OpenIdentity(p) \/ WriteIdentity(p)
        \/ CompareMarker(p) \/ OpenMarker(p) \/ WriteMarker(p) \/ Report(p)
        \/ Undo(p) \/ Undone(p) \/ Serve(p)
        \/ LookForOutput(p) \/ ReadIdentity(p) \/ Publish(p) \/ Unpublish(p) \/ ReportBackup(p)
        \/ Fails(p) \/ Die(p)

IdSpec == IdInit /\ [][IdNext]_idvars

-----------------------------------------------------------------------------
\* Every variable has its type.
IdTypeOK ==
    /\ operator \in {Absent, Torn, Whole}
    /\ identity \in Keys \cup {Absent, Torn}
    /\ marker \in Keys \cup {Absent, Torn}
    /\ rest \in BOOLEAN
    /\ copies \in [Outputs -> Keys \cup {Absent}]
    /\ used \subseteq Keys
    /\ cmd \in [Procs -> Commands \cup {"none"}]
    /\ pc \in [Procs -> {"idle", "serving"} \cup InState \cup InBackup]
    /\ key \in [Procs -> Keys \cup {Absent}]
    /\ out \in [Procs -> Outputs \cup {NoOutput}]
    /\ created \in [Procs -> SUBSET Targets]
    /\ saved \subseteq Keys /\ told \subseteq Keys
    /\ backed \in [Outputs -> Keys \cup {Absent}]

\* A key that was once saved is never lost: it is still installed or it is in
\* the backup it came from, wherever initialising or restoring was cut short.
KeyKept ==
    \A k \in saved : identity = k \/ \E o \in Outputs : copies[o] = k

\* The DID that initialise or restore reported is from then on the one the
\* key file holds and the marker names, so there is only ever one.
ReportedStays == \A k \in told : identity = k /\ marker = k

\* A running service signs with the key that is on disk: a restart, or a
\* backup taken from its control center, is the same DID.
SignsAsStored == \A p \in Procs : pc[p] = "serving" => identity = key[p]

\* A backup that was reported is never replaced or removed, although several
\* backups of one second write to one name and a failing one unlinks it.
BackupsStay == \A o \in Outputs : backed[o] # Absent => copies[o] = backed[o]

\* No command writes over a key file that holds a key; only the undo of a
\* restore takes one away.
NeverOverwritten == [][(identity \in Keys) => (identity' \in {identity, Absent})]_idvars

\* "Restore refuses to overwrite any existing local identity": when a restore
\* opens or writes the key file, that file holds no key.
RestoreRefuses ==
    [][\A p \in Procs :
          cmd[p] = "restore" /\ (OpenIdentity(p) \/ WriteIdentity(p)) => identity \notin Keys]_idvars
=============================================================================
