# Verification of the Technocore agent hub

This directory models the parts of the repository that keep state and have to
survive concurrency, crashes and an unreliable network: the signed-write path of
the local agent, the approvals in front of it, the JSON files under it, the
service process with its operator sessions and request threads, the life of the
signing identity, and the observation indexer. TLC checks the models on
small instances; TLAPS proves the most important properties for every instance.
`PROJECT.json` lists the components, the runs, the mutants that show each
property can fail, the source lines every definition stands for, the hazards and
the theorems.

To repeat a check: `tlc -config MCSignerLive.cfg MCSigner`, and so on for each
configuration; `tlapm SignerProofs.tla` for a proof.

## Inventory

The local agent (`local-agent/src/technocore_agent`) is a Windows-local signing
service. An untrusted client submits drafts over a loopback socket; an operator
approves them in a loopback web page; the control plane consumes the approval,
retires the draft and hands it to the signer; the signer reserves a nonce,
signs, writes ahead, and posts the message to a remote room; the verdict goes to
the operation record and to the evidence ledger. The indexer polls public rooms
into SQLite, and the dashboard shows rooms and the index.

| Component | State it keeps | Operations | Talks to |
| --- | --- | --- | --- |
| Signer (`signer/service.py`) | none of its own | `execute_room`, `reconcile_room`, `sign_room` | NonceStore, OperationStore, transport, ledger, ApprovalStore |
| NonceStore, OperationStore (`storage/nonce.py`) | `nonces.json`, `operations.json` | `reserve`; `create`, `bind_nonce`, `update`, `transition` | file system, under a thread lock and a lock file |
| Transport (`policy/transport.py`) | none; the remote room has | `submit`, `reconcile` | the remote room, or nobody (recording transport) |
| Ledger (`evidence/ledger.py`) | `evidence.jsonl` | `append`, `read` | file system |
| Control plane (`control/service.py`) | none of its own | `reject`, `approve_and_execute`, submit, backup, proof | DraftStore, ApprovalStore, Signer |
| DraftStore, ApprovalStore (`control/`) | `drafts.json`, `approvals.json` | `create`, `transition`; `create`, `consume`, `validate_consumed` | file system, paired locks |
| OperatorAuth (`control/operator.py`) | `operator.json`; sessions and back-off in memory | `enroll`, `unlock`, `reauthenticate`, `validate`, `logout` | control centre |
| Control centre (`control/web.py`) | none | one thread per request | OperatorAuth, control plane |
| Contribution proofs (`evidence/contribution.py`) | a file per commit | create exclusively, write, take back | control plane, file system |
| Service host (`service/windows_service.py`) | a status structure, a stop event | start, STOP handler, `_serve` | the Windows service manager, both servers |
| Draft IPC (`ipc/`, `service/runtime.py`) | none | `submit_draft`, `get_own_draft_status` | DraftStore |
| Identity (`service/local_init.py`, `identity_recovery.py`, `storage/dpapi.py`) | `operator.json`, `identity.dpapi`, `local-install.json`, backup files | initialise, restore, back up, `load_or_create` | file system, the operator |
| Indexer (`indexer/worker.py`) | SQLite: messages, coverage, worker state | `observe_once`, `ingest`, read-only HTTP | public rooms |
| Dashboard (`dashboard/app`) | what is on screen | `loadRoom`, `loadRooms`, search | upstream, indexer |

What is hard, and what makes each component correct:

- **Signer.** Threads execute one request at once, each going on with copies it
  read; the process may die between any two store calls; the network loses
  answers and delivers late. A message must be sent at most once, under a nonce
  no other message has, after it was recorded; a verdict must be true; silence
  must not be taken for a refusal; the ledger must agree with the record.
- **Control plane.** Approving, rejecting and retrying interleave on stale
  drafts and approvals. Nothing unapproved may reach the signer, a rejection must
  hold, spent authority must stay spent, and racing approvers must not make the
  approval fail altogether.
- **Stores.** Several threads and processes read, change and write one file, and
  fail or die anywhere. The store must be atomic and give its locks back.
- **Identity.** Three files are written one after the other, without a lock, by
  commands that may be cut short, and only restore takes back. A key that was
  saved must not be lost, and a DID that was reported must stay the installed one.
- **Indexer.** Pages, rings, restarts, dropped and unencodable messages. What was
  observed must stay, rows and cursor must agree, and the index must catch up.
- **Ledger.** Appends may be cut short anywhere and are never repaired. What can be
  read must stay readable, in order, and a record that was appended may be
  missing only for an append that was cut short.
- **Operator sessions and service host.** Any number of request threads check,
  wait for one lock and act later on what they checked; time passes during a key
  derivation; the process is stopped or killed under them. Guesses of the
  passphrase must be spaced by the whole back-off, every effect must be earned by
  its own request, the back-off must end for the operator, and a service told to
  stop must stop whatever its clients do.
- **Contribution proofs.** A proof once reported must stay whole, whatever later
  requests of that name do.
- **Dashboard feed.** Polls, clicks on Refresh and changes of rooms overtake each
  other. The page must come to rest on the chosen room, and a message may be counted
  as new only if it is.

## Modules

| Module | Role |
| --- | --- |
| `RoomWrite` | abstract: what a signed write promises about one request |
| `Signer` | the signed-write path, one action per store call; implements `RoomWrite` |
| `ControlPlane` | extends `Signer` with drafts, approvals and the calls of `approve_and_execute`; implements `Signer` |
| `AtomicStore` | abstract: a store whose operations take effect at once |
| `StoreFile` | locks, read, temporary file, flush, rename, for any document and operations; implements `AtomicStore` |
| `NonceFile` | `StoreFile` with the document and the operation of `NonceStore` |
| `SignerOnFile` | `Signer`'s threads with their nonces in `NonceFile`; implements `Signer` |
| `LedgerFile` | the pieces of the evidence ledger's lines, `append` by several threads, and `read` |
| `ControlCentre` | the service process: start and stop, request threads, sessions, back-off, proof files |
| `Identity` | the commands that create, restore, back up and use the identity |
| `Indexer` | upstream rooms, the worker's cycle, and its two tables |
| `HubFeed` | the dashboard's feed of the chosen room: timers, requests, the count of new messages |
| `SignerProofs`, `ControlPlaneProofs`, `StoreFileProofs`, `NonceFileProofs`, `IdentityProofs`, `PageProofs` (`ControlCentre` and `HubFeed`), `IndexerProofs`, `LedgerFileProofs` | proofs |
| `MC*` | small instances |

How they compose: `Signer` treats a store call as one step, and `StoreFile` is why
it may: the file protocol implements an atomic store, proved for every document
type and every operation. For the nonces `SignerOnFile` carries this through: the
call of `reserve` is taken apart into the steps of the file while the other threads
and the network run on, and every behaviour is still one of `Signer`, so of
`RoomWrite`. `ControlPlane` runs its threads into `Signer`'s
`ExecuteRoom`, and every behaviour of it is one of `Signer` when the drafts are
hidden, so `Signer`'s theorems carry over. `ControlCentre` is what decides that a
request gets that far: what the request then does is its opaque step `Act`, and is
`ControlPlane`'s or `Identity`'s subject.

### Signer

`counter` and `reserved` are `nonces.json`; `opState`, `opNonce`, `opSig` and
`opReceipt` are the record in `operations.json`; `ledger` is the sequence of
evidence entries; `wire` and `stored` are the network and the room. Each thread
has the step its call is at (`pc`), the request, its local copy of the nonce
(`held`), the transport's verdict (`outcome`) and a reply that waits to be read.

`execute_room` is `ExecuteRoom`, then `CreateOperation` or `ResumeOperation`,
`ReserveNonce`, `ReuseReservation` or `NonceExhausted`, `BindNonce`,
`RecordSignature`, `MarkSigned`, `MarkStarted`, then `Transmit`, which is `Post` or
`RefuseRoom` (live) or `RecordOffline`, then `Learn`, `Resolve` and `AppendEvidence`; `ReturnRecorded` is the
early return for records that are final or on their way. `reconcile_room` is
`ReconcileRoom`, `QueryRoom` or `QueryInconclusive`, `MarkReconciled`,
`AppendEvidence`. `Abort` ends calls anywhere, one by an exception of a store and all
of a process by a crash: what is on disk stays, the locals go. The lanes start
anywhere, since an earlier release may have used them. The room
(`RoomStores`, `RoomRefuses`) takes a post from the wire whenever it likes, also
after the caller has given up.

### ControlPlane

`draft` and `approvals` are the two stores. A thread of the web server has the
step of `approve_and_execute` it is at (`cpc`), the draft (`task`), and the copies
it read (`snap`, `appr`); the copies are why a thread can act on a draft that
somebody rejected meanwhile. `HandOver` passes to `Signer`; from there the thread
runs in `Signer`'s variables. Timestamps of approvals are an order with ties,
since `for_draft` takes a maximum of a clock.

### StoreFile and NonceFile

One document file, one lock file, one thread lock per process. A call takes the
thread lock, opens and locks the lock file, reads, decides (`Refuses`, `Apply`,
`Answer` are parameters), writes a temporary file, flushes, renames, unlocks.
Opening, reading, writing and unlocking may fail (`OpenFails`, `IOFails`,
`UnlockFails`), and a process may die (`Crash`), which frees the lock file but
not the document. `Paired` distinguishes the stores that nest two `with`
statements (nonces, operations) from those that hide both locks behind
`_StoreLock` or `_ApprovalLock` (drafts, approvals): in the latter an exception in
`__enter__` or `__exit__` leaves the thread lock held, and every later call of
the process waits. `LocksKept` states exactly that this is the only leak.

### SignerOnFile

The file and lock variables of `NonceFile` and all variables of `Signer` but its two
for the nonces, which are read off the file (`Counters`, `Reserved`). A worker at
`reserve` begins a call (`CallReserve`), the call takes its steps (`InsideReserve`) and
returns the nonce (`ReserveReturns`) or raises (`ReserveRaises`), perhaps after the
nonce was written, since the unlock may fail. Threads that are no workers reserve for
themselves, as `sign_room` does. A crash ends all calls of a process at once
(`ProcessDies`); `RunElsewhere` and `RoomElsewhere` are the rest of `Signer`, which does
not look at the file. The mapping to `Signer` is `SeenPc` and `SeenHeld`: a call takes
its nonce at the rename, or at the read when its request has one, and from then until
it returns `Signer` sees the worker at `bind` with the nonce in hand. A death in between
is `Signer`'s `Abort` of a worker at `bind`.

### LedgerFile

`file` is the sequence of the pieces written: a torn record, a whole one without its
newline, or an ended one; a piece that is not ended makes one line with what is
written behind it. `append` is `Begin`, `OpenLedger` under the thread lock,
`WriteRecord`, then `ReturnRecord` when fsync succeeds. A flush may be cut short
(`WriteShort`); the `with` statement then closes the stream, which writes the rest
(`CloseWritesRest`) or fails too (`CloseFails`), and `append` raises either way.
`Kept` are the pieces that are a line of their own and one whole record, the last
of which may lack its end; `Read` is what they hold. `begun`, `returned`
and `cut` are history. In `Signer` the ledger is the sequence of entries only, and
an append one step that may be missed.

### Identity

`operator`, `identity`, `marker` are the three files, absent, torn (a write was cut
short) or holding a key; `copies` are the backup files. `initialize_local_identity`
is `CheckPartial`, enrolment, `LoadOrCreate`, the save, `CompareMarker`, the marker;
`restore_identity` is `CheckEmpty`, `OpenBackup`, enrolment, the save, the marker,
and `Undo` for its exception handler; the service start is `LoadOrCreate` and
`Serve`; `backup_identity` is `LookForOutput` to `ReportBackup`. Any step may
raise (`Fails`) or the process may die (`Die`), which also stands for an interrupt
at a prompt, since the handler catches `Exception` only. `saved`, `told` and
`backed` are history: what was ever saved, and what was reported to the operator.

Two states the model reaches have no way out in the code and no property: a torn
`operator.json` counts as configured, so initialising again reports success while
no passphrase unlocks; and a torn `identity.dpapi` makes every later command fail.

### Indexer

`ring`, `top` and `gen` are an external room: it keeps the newest messages, and a
room that vanished starts again at 1. `messages` and `cover` are the tables.
`ListRooms`, `SelectRoom`, `FetchRoom`, then `Ingest` in one transaction, or
`IngestFails`, which commits the rows before the message that cannot be stored
together with the failure flag, or `FetchFails`. `error` says that `last_error` is set:
a failure sets it (`Failed`), a batch clears it (`Advanced`). A message is good, dropped by
`normalize_payload`, or poison for SQLite. `Evasive` lets a response leave out
`first_seq` and `gap`, which the code accepts. `main`'s loop records how each cycle
ended in `worker_state` (`RecordSuccess`, `RecordFailure`), in a transaction of its
own. `CycleFails` is every error `main` catches, also one while the success is being
recorded; `Break` is a death of the process or an error `main` does not catch. `detected`,
`listed`, `seen` and `missed` are history: what the last recorded success had left
out.

### HubFeed

`flight` holds the requests under way: asked, answered with a window's last number,
or failed. `latest` is the request id that counts, which the code numbers upwards and
the model names by a free slot: a slot is free only when nothing of its last use is
under way, so equality of names is equality of numbers. `loadRoom` is `Load` and,
after its awaits, `ShowWindow`, `ShowSample` or `DropStale`. Choosing a room
(`SelectRoom`) re-runs the effect: the interval of the old room is cleared and the
first poll of the new one is due (`initial`). Until it fires, an answer for the old
room is still the latest and is shown. `shown` stands for everything on the page that
comes from one answer. `total`, `told` and `grown` are history: what was really posted
between two answers that `fresh` compares. `InitialFires`, `Poll` and `Refresh` start
a request for the room chosen then, as the closures of the effect have it.

### ControlCentre

`main` is where `service_main` is, `control` where the STOP handler is, which runs in
another thread and writes the same status structure (`status`) before it tells the
manager (`scm`); `stop` is the event. `lock`, `failures`, `wait`, `issued` and `life` are
`OperatorAuth`. A request thread is at a `step` with the `form` it was sent: `Receive`
parses and dispatches, `CheckSession` is the handler's `_session`, `CheckAgain` the
control plane's own validation, `BeginDeriving` takes the authentication lock and
keeps it until `WrongPassphrase`, `RightPassphrase` or `CannotDerive`, and `Act`, `Logout`,
`CreateProof`, `AnswerAgent` are what the request does. The draft server's threads are
the same, with requests of kind `agent`.

Abstractions: time is counted down (`wait` and `life` are what is left), so a session
or back-off has no absolute date and the clock is not set back. A session token
that is traced is drawn once, and when all are drawn a new session is one no request
of the model uses. `Forms` gives a request any session, right or wrong token, right,
wrong or empty passphrase. A new start happens only after the old process ended, as
the service manager has it. `over`, `late`, `guesses` and `since` are history, set apart
from the state they judge: `guesses` counts wrong passphrases and `since` the time
since the clock was read for the last, where the code keeps `failures` and a date.

## Runs

| Run | Configuration | What it shows | Bounds |
| --- | --- | --- | --- |
| `signer_live` | MCSignerLive | the safety of the signed-write path under crashes, lost replies and late delivery; `Signer` implements `RoomWrite`; every call returns | 2 threads, 2 requests of one room, 3 nonces, which other calls may take |
| `control_race` | MCControlPlane | approvals, rejections and deaths in any order; the control plane implements `Signer` and so `RoomWrite` | 2 threads, 2 drafts, one malformed, one for a room outside `ROOM_PATTERN`, 2 approvals, 1 nonce |
| `control_calm` | MCControlCalm | over the recording transport and without faults an approved draft is executed, resolved and in the ledger | 3 threads, 1 draft, 2 approvals |
| `signer_on_file` | MCSignerOnFile | no nonce is given out twice or taken back, from any starting file; both locks exclude and are given back, and a call that has its thread lock ends; the signer with its file implements `Signer` | a process with 2 threads, one of which executes a draft, and one with 1, calls of 2 ids in one of 2 lanes, 2 nonces |
| `ledger_file` | MCLedgerFile | `read` stays in order and misses at most one returned record per append cut short; what was readable stays | 2 threads, 4 records, 1 foreign line |
| `indexer_hostile` | MCIndexer | observations stay, rows and cursor agree | 1 room, 4 messages, ring 3, pages of 2, one restart |
| `indexer_calm` | MCIndexerCalm | the index catches up | 2 rooms, 3 messages, ring 3, pages of 2 |
| `indexer_reasons` | MCIndexerReasons | finding: reasons are lost | 1 room, 4 messages, all good, ring 2, pages of 2, no faults, honest upstream |
| `hub_feed` | MCHubFeed | the page comes to rest on the chosen room, and counts as new only what is | 2 rooms, 2 requests at once, 3 messages in one room, which may start again |
| `control_centre` | MCControlCentre | guesses spaced, effects earned, proofs kept; the operator gets in; a stopped service stops | the operator's page and one other client, 1 traced session of one tick, back-off of 1 and 2 ticks, derivations of up to 1 tick, 1 proof name |
| `identity_alone` | MCIdentity | no key is lost, reported DIDs and backups stay | 3 processes, 3 keys, 2 backup files, symmetric |
| `identity_race` | MCIdentityRace | finding: restore writes over a key | 2 processes, 3 keys, 2 backup files |

`signer_on_file` runs `StoreFile` with nested `with` statements (`Paired = FALSE`); both values
of `Paired` are covered by the proofs of StoreFileProofs. Its calls all have an id and one lane;
calls without an id, and an id that comes back for another lane, are covered by the proofs of
NonceFileProofs, which hold for any set of calls.

Why the bounds are enough to be of use: every disagreement in the write path is
between two calls, or a call and its own repetition after a crash, so two threads
meet all of them, and the proofs cover more. Two requests of one room are what
sharing a nonce takes; the bound on nonces makes lanes run out. A second approval
is created only while a first one is consumed, and a third would be refused for
the same reason. Beneath the signer the two threads of one process contend for its
thread lock, and both processes for the lock file; the second lane is there for the
counters of an earlier release, which the first write must take over. Four appends are a
torn line, the one behind it and one on each side. A
ring shorter than the room's history and pages shorter than the ring give every
kind of gap. A draft for a room the transport
refuses ends like any other for the control plane; with the recording transport it ends
in `control_calm`. Two requests at once are one that overtakes and one
that is overtaken; three messages let a room that started again pass the number seen
before. Two keys generated here and one from elsewhere are what replacing
one identity by another takes. A guess needs a guesser and somebody whose request it
delays, and a session of one tick expires between any two steps of a request. Bounds that cut behaviour off: `MaxNonce` (a real
refusal in the code, at 10^19), `MaxApprovals` (creation is disabled beyond it),
`MaxSeq`, `MaxGen` and `MaxPosts` (upstream stops), `Polls` (a poll waits for a free
request), `Keys` (generation stops), `MaxFailures` (from
there on the back-off stays at its maximum, so counting on changes nothing).

### Fairness

- `FairSpec` (Signer): a thread that is inside a call keeps running. The calls
  are straight-line code with a socket timeout, so nothing but a crash stops
  them; nothing is assumed about the room or about anybody starting a call.
- `CalmCSpec` (ControlPlane): the same for the steps of `approve_and_execute`, without
  faults. It assumes no operator, no room that answers and no fairness between
  threads that race.
- `FairFSpec` (SignerOnFile): a thread that holds the thread lock of its store keeps going,
  through the return of its call, or through an exception. Who gets a contended lock is left open: the code polls, which is
  not fair. `CallEnds` therefore starts once the thread lock is held, and lets another
  process keep the caller waiting; that its own process cannot is what the thread lock
  is for: without it two threads of a process would poll, and one might never win.
- `CalmISpec` (Indexer): the worker's loop goes on and takes every listed room.
- `FairHSpec` (HubFeed): timers fire and requests end, since the route gives up on
  upstream after 6 s. `RoomShown` has a premise instead of a clock, `Prompt`: polls
  eventually do not overtake answers. The polls of the code are 12 s apart, so it
  takes a visitor who keeps pressing Refresh, or a slow line to the route, to break it.
- `FairCSpec` (ControlCentre): time passes, and what is started is run: the main
  thread, the STOP handler, and each request thread once it has read its request.
  Reading a request is not fair, since neither server sets a timeout on its
  connections. One assumption is about a person: the operator sends the right
  passphrase again and again (strong fairness of `Retry`), of use only once the
  guessing has stopped (`Quiet`).
  `StopEnds` speaks of a service that opens or serves: the failure of a start and a
  STOP that comes with it share the status structure (`windows_service.py:103`), and
  the one may report what the other wrote.

### Findings

1. `indexer_reasons`: the upsert keeps the first gap reason of a room for ever
   (`worker.py:198`). As rooms begin at sequence 1, nearly every room gets
   `history_before_initial_window_unknown` with its first batch, and the gaps
   detected later are not recorded: in the trace nothing fails, the ring passes the
   cursor, and `upstream_reported` is dropped. A failed observation can be read
   from `last_error`, which the property allows for, until the next good batch
   clears it.
2. `identity_race`: `restore_identity` looks once whether the directory is empty,
   before three prompts, and `dpapi.save` writes over whatever is there by then
   (`identity_recovery.py:160` and `:183`). In the trace the restore has written
   `operator.json`, which is all the service asks for; the service starts, finds no
   key file and makes a key, and the restore writes over it. `RestoreRefuses` speaks of
   restore's writes only. With the setup commands one at a time (`identity_alone`) no
   key is lost.

## What is proved

- **SignerProofs.** An inductive invariant relates the record, the reservation,
  each thread's local copies and the wire: which steps a thread may be at in
  which state of the record, that a thread's copy of the nonce is the
  reservation of its request, and that a post is out only for a record that was
  started. It is needed because the properties alone are not inductive: nothing
  in `SentAtMostOnce` says that a thread about to submit is the only one that got
  the record from SIGNED to SUBMISSION_STARTED. From it: type correctness
  (`TypeCorrect`), at most one submission (`AtMostOnce`), nonce uniqueness
  (`NonceUnique`), write-ahead (`WriteAhead`), for any requests, threads, lanes,
  nonce bound and either transport. A second invariant, on top of the first, is about
  what is known: `TruthInv` says what each answer that is on its way, was heard or
  was found by a query means for the room (`OneMessage`, `HeardTrue`, `LearntTrue`,
  `OneWitness`), and `RecordInv` what record and ledger say of it. `VerdictTrue` alone is
  not inductive, since a thread writes the verdict from a local it read steps
  before. From it: `VerdictsTrue`, `LedgerAgreesAlways`, `NoncesAndVerdictsStable`,
  `SilenceNeverRejects`. With both, `ImplementsPromise`: every step of `Signer` is one of
  `RoomWrite` or not seen by it.
- **ControlPlaneProofs.** `CInv` says what the copies a thread holds still imply
  about the stores: a copy that says consumed is of a consumed approval, a copy
  that says approved is of a draft that was approved, and a thread past consumption
  has a consumed approval. From it: `OnlyApproved`, `RejectedIsFinal`, `SpentFirst`,
  `NeverReturned`; `ControlUsesSigner` proves the refinement step by step, and
  `ApprovedAtMostOnce`, `ApprovedRecordsTrue` and `ApprovedKeepsPromise` are the signer's
  theorems through it. `OnlyApprovedLeaves` joins both halves into what the system is
  for: nothing is on its way, in the room or in the ledger without an approval that
  was spent before.
- **StoreFileProofs.** `SInv` adds to the locks that a writer's copy is what the
  file holds and that it renames only a flushed file. From it: `NeverTornHolds`,
  `NothingIsLost`, `LocksAreKept`, and `StoreIsAtomic`: every step is an operation
  of the abstract store or a stutter, for any documents, operations, threads and
  processes.
- **NonceFileProofs.** `StoreAssumed` shows that the nonce document meets what
  `StoreFile` assumes, so `SInv` holds of it (`NonceStoreInvariance`, by
  instantiating `StoreFileProofs`). With it a step that changes the file is one
  reservation in the document the file holds (`StepReserves`), and two lemmas about
  `ReserveIn` give `ReservationsAreDistinct` and `NoncesRise`, for any lanes,
  request ids, nonce bound, threads and processes.
  The second half is about `SignerOnFile`, on top of this and of SignerProofs. `PInv`
  joins the store's invariant, the signer's as it is seen, and two facts that neither
  has: a call of `reserve` belongs to a worker that waits for it, with that worker's
  room and request (`CallsMatch`), and a draft's reservation is in the draft's room
  (`LanesMatch`). `Signer` lets any call raise, so the refinement does not need the
  second; it is what `RetriesComeBack` needs: a draft whose nonce was reserved before a
  crash is given it again.
  `StepIsSigner` maps each step: only the one that fixes the answer is seen
  (`InsideIsSeenOnce`), as `ReserveNonce` or `ReuseReservation` of a worker
  (`AnswerForDraft`) or as `SignRoom` of another thread (`AnswerForItself`); a call that
  raises or dies is `Abort`; the rest is the same step of `Signer`. From it:
  `FileKeepsSigner`, the refinement; `FileKeepsPromises` and `FileImplementsWrite`,
  what SignerProofs proves, now with the real file beneath; and `FileKeepsStore`, since
  the callers use the store as any threads may.
- **IdentityProofs.** When setup commands take turns (`OneAtATime`), `IdInv` says what
  each step of a command knows of the files and, the part that is not obvious, that
  the key of a restore which may still undo has a copy in a *settled* backup file,
  one no running backup can take back; without it the undo and the last `chmod`
  of two backups could together lose a key. From it: `KeysAreKept`,
  `ReportsAreFinal`, `ServiceSignsAsStored`, `BackupsAreFinal`, and, when commands take
  turns, `TurnsRestoreRefuses`, the promise of finding 2, and `TurnsNeverOverwrite`, the
  same of every command.

- **PageProofs.** `CentreInv` has four concerns, with a lemma each that every
  step keeps it: types; *earning* (what a request at each step has shown, and
  that a session that is over stays over); *spacing* (one thread derives, and what is
  left of the back-off makes up for the time since the last guess); *writing* (a
  proof file being written has one writer). From it: `GuessesSpaced`, `EffectsEarned`,
  `ProofsAreKept`, for any clients, sessions, delays and derivation times.
  For the dashboard's feed `HInv` adds two facts. `CountsTrue`: whatever number the page
  saw last or an answer under way holds, the room's messages beyond it were really
  posted since, and the answer to the latest request is no older than what the page
  has seen of that room; the count of new messages is a difference of two such
  numbers, possibly across a room that started again. `Pending`: the latest request is
  for the chosen room once its first poll has gone. From it: `PulsesAreTrue`,
  `ComesToRest`, for any rooms, posts and number of requests under way.
- **IndexerProofs.** A ring and a response number their messages once
  (`RingsNumbered`), and a listed room is ahead, in hand or done (`InHand`). With the
  lemmas that the cursor only advances (`Advances`) and what an insert adds
  (`Inserts`): `RowsAreCovered`, `SuccessIsCovered`, `ObservationsStay`, for any rooms,
  bounds, and however evasive upstream is.
- **LedgerFileProofs.** The pieces lie in the order in which their appends took the
  lock, at most one for each, and one without its end was cut short (`InOrder`,
  `InProgress`, `CutShort`). `ReadIsTrue` then counts: each returned record that `read`
  misses lies behind a piece without its end, and no two behind the same one.
  `ReadableIsFinal` is the action property.

The assumptions are the named ones in each module: the shape of the constants,
sentinels outside their sets, and, for `StoreFile`, that operations map documents
to documents.

The theorems of StoreFileProofs have the assumption on the document as a hypothesis,
which NonceFileProofs shows for `nonces.json`; for the other stores it stays one.
`IdTypeOK`, `SignsAsStored`, `NeverOverwritten`, `CentreTypeOK`, `STypeOK` and the wholeness of a document file
are proved and in no run of their own.

Every safety property of a passing run is also a theorem. `KeepsAtomic` is a theorem
only: `signer_on_file` checks `KeepsSigner`, which rests on it. The type invariants of `ControlPlane`,
`Indexer` and `LedgerFile` are theorems only. Only model-checked is all liveness (the
prover has no fairness and no ENABLED): `CallReturns`, `ApprovalExecutes`,
`RunResolves`, `EvidenceFollows`, `CallEnds`, `CatchesUp`, `OperatorGetsIn`, `StopEnds`,
`RoomShown`. No model uses a RECURSIVE operator, and `Read` is defined by positions so
that what it returns can be proved without induction over sequences.

## What the models say that is easy to miss

- A crash after SIGNED or SUBMISSION_STARTED leaves the record there for good:
  `execute_room` returns it, `reconcile_room` takes only UNKNOWN. Nothing is sent
  twice, and nothing is resolved either.
- `reconcile_room` is not called by the service at all; a record stays UNKNOWN
  until somebody calls it.
- A ledger record appended behind a torn line is lost to `read` although `append`
  returned it and it is on disk: `append` does not look how the file ends.
- The ledger can lack an entry (a crash between the record and the append) but
  cannot contradict a record.
- A draft whose room or text `canonical_message` refuses is refused only after its
  approval is consumed and the draft retired.
- A second approval can be created for a draft that was rejected or consumed
  since it was read; it is never used.
- A service serves with a torn `operator.json`: it opens its ports and no passphrase
  unlocks it.
- A request that has passed its checks goes on after the session was locked or has
  expired; what it needs is that the session lived when it came.
- A visitor who presses Refresh faster than answers come sees nothing new: each
  request makes the one before it stale.
- A page in which every message is dropped keeps the indexer's cursor where it is.

## What is not modelled, and why

- Cryptography, canonical formatting and receipt parsing (abstracted to what they
  decide), the content policy and the schema checks of the draft protocol: pure
  functions.
- Native Windows calls, ACLs, pipes, diagnostics, the installer's proof mode, the
  proof server, and Ctrl-C in the console entry point; HTML.
- The indexer's HTTP queries (read-only), the length of its back-off and the age
  `/health` computes; a response in which upstream repeats a message.
- A clock that is set back, for sessions, back-off and approvals; in `ControlPlane`
  timestamps are an order with ties.
- The Stage 2A signer (reached by tests only).
- The dashboard's list of rooms and its search, which are one request each and keep
  no request ids, and rendering and parsing.
- A rename that a power failure takes back is outside the code. `EXPIRED` drafts do
  not occur: no code sets the status.

## Plan

1. **Ledger in the file**: `LedgerFile` beneath `Signer`'s ledger, as `SignerOnFile` does
   for the nonces.
2. **Transport verdicts** as operators: status codes, receipts and windows mapped to
   verdicts, against a reference definition.
3. **Drafts and approvals as documents** of `StoreFile`, as `NonceFile` does for the
   nonces, so that the hypothesis of StoreFileProofs is shown for them too.
