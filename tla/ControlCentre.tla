----------------------------- MODULE ControlCentre -----------------------------
(***************************************************************************)
(* The service process around the control plane: the Windows service that  *)
(* starts and stops it, the request threads of its two loopback servers,   *)
(* the operator's credential with sessions and back-off, and the file of a *)
(* contribution proof.  What a request does to drafts, approvals and the   *)
(* identity is the subject of ControlPlane and Identity; here it is the    *)
(* opaque step Act.  Time is counted down: `wait' and `life' hold what is  *)
(* left of a back-off and of a session.                                    *)
(***************************************************************************)
EXTENDS Integers

CONSTANTS
    Requests,     \* request threads
    Sessions,     \* session tokens that are traced; each is drawn once
    Commits,      \* names of proof files: the first twelve digits of a commit
    Kinds,        \* the requests that are sent
    Operator,     \* the request thread of the operator who keeps trying
    Sent,         \* the forms each request thread may be sent
    NoRequest, NoSession, NoCommit,
    TTL,          \* life of a session
    MaxKdf,       \* the longest a key derivation takes
    MaxBackoff,
    Delay,        \* back-off after so many wrong passphrases
    MaxFailures   \* from here on the back-off stays at MaxBackoff

ASSUME CentreAssumption ==
    /\ Operator \in Requests /\ NoRequest \notin Requests
    /\ NoSession \notin Sessions /\ NoCommit \notin Commits
    /\ Kinds \subseteq {"agent", "read", "change", "approve", "proof", "lock", "unlock"}
    /\ {TTL, MaxBackoff, MaxFailures} \subseteq Nat \ {0}
    /\ MaxKdf \in Nat
    /\ Delay \in [1..MaxFailures -> 1..MaxBackoff]

\* min(max_backoff, base_backoff * 2 ** (failures - 1)), which stays at
\* max_backoff once it is there: counting failures further changes nothing.
ASSUME DelayAssumption ==
    /\ \A k \in 1..(MaxFailures - 1) :
         Delay[k + 1] = IF 2 * Delay[k] < MaxBackoff THEN 2 * Delay[k] ELSE MaxBackoff
    /\ Delay[MaxFailures] = MaxBackoff

VARIABLES
    \* durable
    verifier,  \* operator.json: "none", "torn" or "whole"
    file,      \* the proof file of each name: "absent", "partial" or "whole"
    reported,  \* proofs the operator was told of
    \* the service host
    main,      \* where service_main is
    control,   \* where the handler of STOP is
    status,    \* the state in the status structure the two share
    scm,       \* the state the service control manager was last told
    stop,      \* the stop event
    \* OperatorAuth
    issued,    \* tokens drawn so far
    life,      \* what is left of each session; 0: none, or expired
    lock,      \* holder of the authentication lock, over several steps
    failures, wait,
    \* request threads
    step, form,
    age,       \* time since the thread read the clock for its derivation
    \* history
    over,      \* sessions that were locked, expired or lost in a restart
    late,      \* the request came when its session was over
    guesses,   \* wrong passphrases since the last right one
    since      \* time since the clock was read for the last wrong one

durable == <<verifier, file, reported>>
host    == <<main, control, status, scm, stop>>
auth    == <<issued, life, over, lock, failures, wait, guesses, since>>
threads == <<step, form, age, late>>
cvars   == <<durable, host, auth, threads>>

Fresh   == {"approve", "proof"}            \* need the passphrase again
Checked == {"read", "change", "lock"} \cup Fresh  \* need a session
Horizon == MaxBackoff + MaxKdf             \* `since' counts no further

\* A request as it is parsed: cookie, CSRF field, passphrase field, commit.
Forms ==
    {f \in [kind : Kinds, session : Sessions \cup {NoSession}, token : BOOLEAN,
            pass : {"right", "wrong", "empty"}, commit : Commits \cup {NoCommit}] :
        /\ f.kind \notin Checked => f.session = NoSession
        /\ f.token => f.session # NoSession
        /\ f.kind = "read" => f.token              \* a GET needs no CSRF field
        /\ f.kind \notin Fresh \cup {"unlock"} => f.pass = "empty"
        /\ (f.commit = NoCommit) = (f.kind # "proof")}
NoForm == [kind |-> "none", session |-> NoSession, token |-> FALSE,
           pass |-> "empty", commit |-> NoCommit]

ASSUME SentAssumption ==
    /\ Sent \in [Requests -> SUBSET Forms]
    /\ \E f \in Sent[Operator] : f.kind = "unlock" /\ f.pass = "right"

Forget ==  \* what a process has in memory when it begins
    /\ life' = [s \in Sessions |-> 0] /\ over' = issued
    /\ lock' = NoRequest
    /\ failures' = 0 /\ wait' = 0 /\ guesses' = 0 /\ since' = Horizon
    /\ step' = [r \in Requests |-> "idle"]
    /\ form' = [r \in Requests |-> NoForm]
    /\ age'  = [r \in Requests |-> 0]
    /\ late' = [r \in Requests |-> FALSE]
    /\ UNCHANGED issued

CInit ==
    /\ verifier = "none"
    /\ file = [c \in Commits |-> "absent"] /\ reported = {}
    /\ main = "down" /\ control = "idle" /\ status = "STOPPED" /\ scm = "STOPPED"
    /\ stop = FALSE
    /\ issued = {} /\ life = [s \in Sessions |-> 0] /\ over = {} /\ lock = NoRequest
    /\ failures = 0 /\ wait = 0 /\ guesses = 0 /\ since = Horizon
    /\ step = [r \in Requests |-> "idle"]
    /\ form = [r \in Requests |-> NoForm]
    /\ age  = [r \in Requests |-> 0]
    /\ late = [r \in Requests |-> FALSE]

-----------------------------------------------------------------------------
\* enroll writes operator.json, which exists before it is whole.  An enrolment
\* that dies in between leaves it torn.
BeginEnroll == verifier = "none" /\ verifier' = "torn"
EndEnroll   == verifier = "torn" /\ verifier' = "whole"
Enroll ==
    /\ BeginEnroll \/ EndEnroll
    /\ UNCHANGED <<file, reported, host, auth, threads>>

\* service_main: each publish writes the structure, then tells the manager.
Start ==
    /\ main = "down"
    /\ main' = "announce" /\ status' = "RUNNING"
    /\ UNCHANGED <<durable, control, scm, stop, auth, threads>>

Announce ==
    /\ main = "announce"
    /\ main' = "open" /\ scm' = status
    /\ UNCHANGED <<durable, control, status, stop, auth, threads>>

\* _serve: the stores, the key, the ports and the server threads.
Open ==
    /\ main = "open"
    /\ verifier # "none"
    /\ main' = "serving"
    /\ UNCHANGED <<durable, control, status, scm, stop, auth, threads>>

\* operator.json is missing, a store or the key cannot be used, a port is taken.
OpenFails ==
    /\ main = "open"
    /\ main' = "report" /\ status' = "STOPPED"
    /\ UNCHANGED <<durable, control, scm, stop, auth, threads>>

\* Mutant: server_close waits for the request threads.
ClosePolitely ==
    /\ main = "serving" /\ stop
    /\ \A r \in Requests : step[r] = "idle"
    /\ main' = "report" /\ status' = "STOPPED"
    /\ UNCHANGED <<durable, control, scm, stop, auth, threads>>

\* The stop event ends _serve: the server loops end and the sockets close; the
\* request threads are daemons and nobody waits for them.
Close ==
    /\ main = "serving" /\ stop
    /\ main' = "report" /\ status' = "STOPPED"
    /\ UNCHANGED <<durable, control, scm, stop, auth, threads>>

Report ==
    /\ main = "report"
    /\ main' = "ended" /\ scm' = status
    /\ UNCHANGED <<durable, control, status, stop, auth, threads>>

\* The handler of STOP runs in the dispatcher's thread, beside service_main.
StopControl ==
    /\ scm = "RUNNING" /\ control = "idle"
    /\ control' = "tell" /\ status' = "STOP_PENDING"
    /\ UNCHANGED <<durable, main, scm, stop, auth, threads>>

TellPending ==
    /\ control = "tell"
    /\ control' = "signal" /\ scm' = status
    /\ UNCHANGED <<durable, main, status, stop, auth, threads>>

SignalStop ==
    /\ control = "signal"
    /\ control' = "idle" /\ stop' = TRUE
    /\ UNCHANGED <<durable, main, status, scm, auth, threads>>

EndProcess ==
    /\ main' = "down" /\ control' = "idle" /\ status' = "STOPPED" /\ scm' = "STOPPED"
    /\ stop' = FALSE
    /\ Forget
    /\ UNCHANGED durable

\* The dispatcher returns once the manager knows that the service has stopped;
\* the process ends, and with it every request thread wherever it is.
Exit == main = "ended" /\ scm = "STOPPED" /\ control = "idle" /\ EndProcess

\* The process is killed, or the machine goes down.
Kill == main # "down" /\ EndProcess

-----------------------------------------------------------------------------
\* The steps of a request thread.  A read may last for ever: neither server
\* sets a timeout on its connections.
At(r, s) == main # "down" /\ step[r] = s

Go(r, s) ==
    /\ step' = [step EXCEPT ![r] = s]
    /\ UNCHANGED <<form, late>>

Done(r) ==
    /\ step' = [step EXCEPT ![r] = "idle"]
    /\ form' = [form EXCEPT ![r] = NoForm]
    /\ late' = [late EXCEPT ![r] = FALSE]

Connect(r) ==
    /\ main = "serving" /\ step[r] = "idle"
    /\ Go(r, "reading")
    /\ UNCHANGED <<durable, host, auth, age>>

\* do_GET and do_POST dispatch; the draft server reads one line.
Receive(r, f) ==
    /\ At(r, "reading")
    /\ form' = [form EXCEPT ![r] = f]
    /\ late' = [late EXCEPT ![r] = f.session \in over]
    /\ step' = [step EXCEPT ![r] =
                  IF f.kind = "agent" THEN "act"
                  ELSE IF f.kind = "unlock" THEN "passphrase"
                  ELSE "session"]
    /\ UNCHANGED <<durable, host, auth, age>>

\* Origin, length, encoding or a field is refused, or the client hangs up.
Refuse(r) ==
    /\ At(r, "reading")
    /\ Done(r)
    /\ UNCHANGED <<durable, host, auth, age>>

Live(s) == s # NoSession /\ life[s] > 0

\* The handler's _session: the session lives and the form carries its CSRF
\* token.  A page that is read needs no more.
CheckSession(r) ==
    /\ At(r, "session")
    /\ lock = NoRequest
    /\ IF Live(form[r].session) /\ form[r].token /\ form[r].kind # "read"
         THEN Go(r, IF form[r].kind = "lock" THEN "act" ELSE "control")
         ELSE Done(r)
    /\ UNCHANGED <<durable, host, auth, age>>

\* The control plane validates the session once more.
CheckAgain(r) ==
    /\ At(r, "control")
    /\ lock = NoRequest
    /\ IF Live(form[r].session)
         THEN Go(r, IF form[r].kind \in Fresh THEN "passphrase" ELSE "act")
         ELSE Done(r)
    /\ UNCHANGED <<durable, host, auth, age>>

-----------------------------------------------------------------------------
AuthRefuses(r) == form[r].pass = "empty" \/ wait > 0

\* Mutant: the derivation runs outside the lock.
BeginDerivingUnlocked(r) ==
    /\ At(r, "passphrase")
    /\ IF AuthRefuses(r)
         THEN Done(r) /\ UNCHANGED lock
         ELSE Go(r, "derive") /\ lock' = NoRequest
    /\ UNCHANGED <<durable, host, issued, life, over, failures, wait, guesses, since, age>>

\* Mutant: an attempt that comes too early begins the back-off anew.
BeginDerivingProlonging(r) ==
    /\ At(r, "passphrase")
    /\ lock = NoRequest
    /\ IF AuthRefuses(r)
         THEN /\ Done(r) /\ UNCHANGED lock
              /\ wait' = IF wait > 0 THEN Delay[failures] ELSE wait
         ELSE Go(r, "derive") /\ lock' = r /\ UNCHANGED wait
    /\ UNCHANGED <<durable, host, issued, life, over, failures, guesses, since, age>>

\* reauthenticate takes the lock; an empty passphrase or one that comes too
\* early is refused at once, or the clock is read and the derivation begins.
BeginDeriving(r) ==
    /\ At(r, "passphrase")
    /\ lock = NoRequest
    /\ IF AuthRefuses(r)
         THEN Done(r) /\ UNCHANGED lock
         ELSE Go(r, "derive") /\ lock' = r
    /\ UNCHANGED <<durable, host, issued, life, over, failures, wait, guesses, since, age>>

\* operator.json cannot be read: no attempt is counted.
CannotDerive(r) ==
    /\ At(r, "derive")
    /\ verifier # "whole"
    /\ Done(r)
    /\ lock' = NoRequest
    /\ age' = [age EXCEPT ![r] = 0]
    /\ UNCHANGED <<durable, host, issued, life, over, failures, wait, guesses, since>>

More(k) == IF k < MaxFailures THEN k + 1 ELSE k

\* The delay is added to the clock as it was before the derivation.
BackoffLeft(k, spent) == IF Delay[k] > spent THEN Delay[k] - spent ELSE 0

WrongPassphrase(r) ==
    /\ At(r, "derive")
    /\ verifier = "whole" /\ form[r].pass = "wrong"
    /\ failures' = More(failures)
    /\ wait' = BackoffLeft(More(failures), age[r])
    /\ guesses' = More(guesses) /\ since' = age[r]
    /\ Done(r)
    /\ lock' = NoRequest
    /\ age' = [age EXCEPT ![r] = 0]
    /\ UNCHANGED <<durable, host, issued, life, over>>

\* unlock draws a session in the same hold of the lock.  When every traced
\* token has been drawn, the session is one that no request here uses.
RightPassphrase(r) ==
    /\ At(r, "derive")
    /\ verifier = "whole" /\ form[r].pass = "right"
    /\ failures' = 0 /\ wait' = 0 /\ guesses' = 0 /\ since' = Horizon
    /\ IF form[r].kind = "unlock"
         THEN /\ Done(r)
              /\ \/ \E s \in Sessions \ issued :
                      issued' = issued \cup {s} /\ life' = [life EXCEPT ![s] = TTL]
                 \/ Sessions = issued /\ UNCHANGED <<issued, life>>
         ELSE Go(r, "act") /\ UNCHANGED <<issued, life>>
    /\ lock' = NoRequest
    /\ age' = [age EXCEPT ![r] = 0]
    /\ UNCHANGED <<durable, host, over>>

-----------------------------------------------------------------------------
\* handle_agent_request creates a draft or looks one up.
AnswerAgent(r) ==
    /\ At(r, "act")
    /\ form[r].kind = "agent"
    /\ Done(r)
    /\ UNCHANGED <<durable, host, auth, age>>

\* A field is refused: before the control plane is asked, but those of a proof
\* only when it is made.
RefuseField(r) ==
    /\ At(r, "control") \/ (At(r, "act") /\ form[r].kind = "proof")
    /\ Done(r)
    /\ UNCHANGED <<durable, host, auth, age>>

\* The request's effect on drafts, approvals or the identity.
Act(r) ==
    /\ At(r, "act")
    /\ form[r].kind \in {"change", "approve"}
    /\ Done(r)
    /\ UNCHANGED <<durable, host, auth, age>>

\* Mutant: the cookie is cleared and the session stays.
LogoutOfBrowser(r) ==
    /\ At(r, "act")
    /\ form[r].kind = "lock" /\ lock = NoRequest
    /\ over' = over \cup {form[r].session}
    /\ Done(r)
    /\ UNCHANGED <<durable, host, issued, life, lock, failures, wait, guesses, since, age>>

Logout(r) ==
    /\ At(r, "act")
    /\ form[r].kind = "lock" /\ lock = NoRequest
    /\ life' = [life EXCEPT ![form[r].session] = 0]
    /\ over' = over \cup {form[r].session}
    /\ Done(r)
    /\ UNCHANGED <<durable, host, issued, lock, failures, wait, guesses, since, age>>

\* Mutant: the proof file is opened for writing whether it exists or not.
CreateProofOver(r) ==
    /\ At(r, "act")
    /\ form[r].kind = "proof"
    /\ file' = [file EXCEPT ![form[r].commit] = "partial"] /\ Go(r, "write")
    /\ UNCHANGED <<verifier, reported, host, auth, age>>

\* The proof is signed, verified and its file created exclusively: a file of
\* that name, whole or not, is never touched.
CreateProof(r) ==
    /\ At(r, "act")
    /\ form[r].kind = "proof"
    /\ IF file[form[r].commit] = "absent"
         THEN file' = [file EXCEPT ![form[r].commit] = "partial"] /\ Go(r, "write")
         ELSE UNCHANGED file /\ Done(r)
    /\ UNCHANGED <<verifier, reported, host, auth, age>>

CommitProof(r) ==
    /\ At(r, "write")
    /\ file' = [file EXCEPT ![form[r].commit] = "whole"]
    /\ reported' = reported \cup {form[r].commit}
    /\ Done(r)
    /\ UNCHANGED <<verifier, host, auth, age>>

\* The write fails; so may the removal of what was written.
ProofFails(r) ==
    /\ At(r, "write")
    /\ \E left \in {"absent", "partial"} : file' = [file EXCEPT ![form[r].commit] = left]
    /\ Done(r)
    /\ UNCHANGED <<verifier, reported, host, auth, age>>

-----------------------------------------------------------------------------
Less(n) == IF n > 0 THEN n - 1 ELSE 0

Tick ==
    /\ main # "down"
    /\ \A r \in Requests : step[r] = "derive" => age[r] < MaxKdf
    /\ wait' = Less(wait)
    /\ life' = [s \in Sessions |-> Less(life[s])]
    /\ over' = over \cup {s \in issued : life[s] <= 1}
    /\ age'  = [r \in Requests |-> IF step[r] = "derive" THEN age[r] + 1 ELSE age[r]]
    /\ since' = IF since < Horizon THEN since + 1 ELSE since
    /\ UNCHANGED <<durable, host, issued, lock, failures, guesses, step, form, late>>

Serve(r) ==
    \/ CheckSession(r) \/ RefuseField(r) \/ CheckAgain(r)
    \/ BeginDeriving(r) \/ CannotDerive(r) \/ WrongPassphrase(r) \/ RightPassphrase(r)
    \/ AnswerAgent(r) \/ Act(r) \/ Logout(r) \/ CreateProof(r) \/ CommitProof(r) \/ ProofFails(r)

Run == Announce \/ Open \/ OpenFails \/ Close \/ Report \/ Exit
Stopping == TellPending \/ SignalStop

CNext ==
    \/ Enroll \/ Start \/ Run \/ StopControl \/ Stopping \/ Kill \/ Tick
    \/ \E r \in Requests :
         \/ Connect(r) \/ Refuse(r) \/ Serve(r)
         \/ \E f \in Sent[r] : Receive(r, f)

CSpec == CInit /\ [][CNext]_cvars

\* Time passes and what is started is run.  Starting, stopping, enrolling and
\* what clients send is left to the world, but for the operator, who tries again.
Retry == \E f \in Sent[Operator] : f.kind = "unlock" /\ f.pass = "right" /\ Receive(Operator, f)

FairCSpec ==
    /\ CSpec
    /\ WF_cvars(Tick) /\ WF_cvars(Run) /\ WF_cvars(Stopping)
    /\ \A r \in Requests : WF_cvars(Serve(r))
    /\ WF_cvars(Connect(Operator)) /\ SF_cvars(Retry)

-----------------------------------------------------------------------------
HostTypeOK ==
    /\ verifier \in {"none", "torn", "whole"}
    /\ file \in [Commits -> {"absent", "partial", "whole"}]
    /\ reported \subseteq Commits
    /\ main \in {"down", "announce", "open", "serving", "report", "ended"}
    /\ control \in {"idle", "tell", "signal"}
    /\ {status, scm} \subseteq {"STOPPED", "RUNNING", "STOP_PENDING"}
    /\ stop \in BOOLEAN

AuthTypeOK ==
    /\ over \subseteq issued /\ issued \subseteq Sessions
    /\ life \in [Sessions -> 0..TTL]
    /\ lock \in Requests \cup {NoRequest}
    /\ failures \in 0..MaxFailures /\ wait \in 0..MaxBackoff
    /\ since \in 0..Horizon

ThreadsTypeOK ==
    /\ step \in [Requests -> {"idle", "reading", "session", "control", "passphrase",
                              "derive", "act", "write"}]
    /\ form \in [Requests -> Forms \cup {NoForm}]
    /\ age  \in [Requests -> 0..MaxKdf]
    /\ late \in [Requests -> BOOLEAN]

CentreTypeOK ==
    HostTypeOK /\ AuthTypeOK /\ ThreadsTypeOK /\ guesses \in 0..MaxFailures

\* Guesses are spaced, however many clients send them and however long a
\* derivation takes: a passphrase is tested only when the clock it was admitted
\* by is the whole back-off later than the one the last wrong guess was.
GuessesAreSpaced ==
    \A r \in Requests :
        step[r] = "derive" /\ guesses > 0 => since - age[r] >= Delay[guesses]

\* What a client can make the operator's service do was earned by that very
\* request: the session was drawn and had not been locked, expired or lost in a
\* restart when it came, its CSRF token was right, and an approval or a proof
\* had the passphrase once more.
EffectsAreEarned ==
    \A r \in Requests :
        step[r] \in {"act", "write"} /\ form[r].kind # "agent" =>
            /\ form[r].session \in issued /\ ~late[r]
            /\ form[r].token
            /\ form[r].kind \in Fresh => form[r].pass = "right"

\* A proof the operator was told of is whole and stays so, whatever other
\* requests, failures and crashes do to a file of that name.
ProofKept == \A c \in reported : file[c] = "whole"

\* No guess is in flight, the service serves and the credential is whole.
Quiet ==
    /\ main = "serving" /\ ~stop /\ verifier = "whole"
    /\ \A r \in Requests : form[r].pass # "wrong"

\* Back-off ends: once the guessing stops for good, an operator who keeps trying
\* gets in, and again until every traced token is drawn.
OperatorGetsIn == <>[]Quiet => <>(issued = Sessions)

\* A service that is told to stop before or while it serves does stop, also with
\* clients that are connected and silent.
StopEnds == (stop /\ main \in {"open", "serving"}) ~> main = "down"
=============================================================================
