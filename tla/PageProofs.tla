----------------------------- MODULE PageProofs ------------------------------
(* Proofs about the two web pages.  ControlCentre: guesses stay spaced,      *)
(* effects stay earned and reported proofs stay whole, for any clients,      *)
(* sessions, delays and names.  HubFeed: its counts are true and it comes to *)
(* rest, for any rooms, posts and number of polls under way.                 *)
EXTENDS ControlCentre, HubFeed, TLAPS

\* What a request at each step is about.
StepForms == \A r \in Requests :
    /\ step[r] \in {"idle", "reading"} => form[r] = NoForm /\ ~late[r]
    /\ step[r] \notin {"idle", "reading"} => form[r] \in Forms
    /\ step[r] = "session" => form[r].kind \in Checked
    /\ step[r] = "control" => form[r].kind \in {"change"} \cup Fresh
    /\ step[r] \in {"passphrase", "derive"} => form[r].kind \in {"unlock"} \cup Fresh
    /\ step[r] = "act" => form[r].kind \in {"agent", "change", "lock"} \cup Fresh
    /\ step[r] = "write" => form[r].kind = "proof"

\* A session lives only once it is drawn and until it is over, for good.
DeadStayDead ==
    /\ \A s \in Sessions : life[s] > 0 => s \in issued /\ s \notin over
    /\ \A r \in Requests : late[r] => form[r].session \in over

\* What a request past its first check has shown, and past its passphrase.
Shown == \A r \in Requests :
    step[r] \in {"control", "passphrase", "derive", "act", "write"} /\ form[r].kind \in Checked =>
        form[r].session \in issued /\ ~late[r] /\ form[r].token
Present == \A r \in Requests :
    step[r] \in {"act", "write"} /\ form[r].kind \in Fresh => form[r].pass = "right"

\* The lock is held over several steps by the thread that derives, alone; and
\* what is left of the back-off makes up for the time since the last guess.
OneDerives ==
    /\ \A r \in Requests : step[r] = "derive" <=> lock = r
    /\ \A r \in Requests : step[r] # "derive" => age[r] = 0
    /\ lock # NoRequest => wait = 0
BackoffCounts ==
    /\ guesses = failures
    /\ failures > 0 => since + wait >= Delay[failures]

\* A proof being written has its file to itself.
OneWrites ==
    /\ \A r \in Requests : step[r] = "write" => file[form[r].commit] = "partial"
    /\ \A r, q \in Requests :
         step[r] = "write" /\ step[q] = "write" /\ form[r].commit = form[q].commit => r = q

\* The four concerns of the invariant.
CentreTypes == HostTypeOK /\ AuthTypeOK /\ ThreadsTypeOK
Earning     == StepForms /\ DeadStayDead /\ Shown /\ Present
Spacing     == OneDerives /\ BackoffCounts /\ GuessesAreSpaced
Writing     == OneWrites /\ ProofKept

CentreInv == CentreTypes /\ Earning /\ Spacing /\ Writing

-----------------------------------------------------------------------------
\* A back-off is a time within the bound.
LEMMA BackoffBounded ==
    /\ \A k \in 0..MaxFailures : More(k) \in 1..MaxFailures
    /\ \A k \in 1..MaxFailures, a \in 0..MaxKdf :
         BackoffLeft(k, a) \in 0..MaxBackoff /\ a + BackoffLeft(k, a) >= Delay[k]
    /\ \A k \in 1..MaxFailures : Delay[k] \in 1..MaxBackoff
    /\ Horizon \in Nat /\ Horizon = MaxBackoff + MaxKdf
    /\ {TTL, MaxKdf, MaxBackoff, MaxFailures} \subseteq Nat /\ TTL > 0
BY CentreAssumption DEF More, BackoffLeft, Horizon

\* The first state meets the invariant.
LEMMA InitCentreInv == CInit => CentreInv
<1> SUFFICES ASSUME CInit PROVE CentreInv
  OBVIOUS
<1>1. HostTypeOK
  BY DEF CInit, HostTypeOK
<1>2. AuthTypeOK
  BY BackoffBounded DEF CInit, AuthTypeOK
<1>3. ThreadsTypeOK
  BY BackoffBounded DEF CInit, ThreadsTypeOK
<1>4. Earning
  BY DEF CInit, Earning, StepForms, DeadStayDead, Shown, Present
<1>5. Spacing
  BY CentreAssumption DEF CInit, Spacing, OneDerives, BackoffCounts, GuessesAreSpaced
<1>6. Writing
  BY DEF CInit, Writing, OneWrites, ProofKept
<1> QED BY <1>1, <1>2, <1>3, <1>4, <1>5, <1>6 DEF CentreInv, CentreTypes

-----------------------------------------------------------------------------
\* Steps that begin and end no derivation keep the spacing of guesses.
LEMMA SpacingFrame ==
    ASSUME Spacing, UNCHANGED <<lock, failures, wait, guesses, since, age>>,
           \A q \in Requests : step'[q] = "derive" <=> step[q] = "derive"
    PROVE  Spacing'
<1>1. OneDerives'
  BY DEF Spacing, OneDerives
<1>2. BackoffCounts' /\ GuessesAreSpaced'
  BY DEF Spacing, BackoffCounts, GuessesAreSpaced
<1> QED BY <1>1, <1>2 DEF Spacing

\* Guesses stay spaced in every step.
LEMMA SpacingStep == CentreInv /\ [CNext]_cvars => Spacing'
<1> SUFFICES ASSUME CentreInv, [CNext]_cvars PROVE Spacing'
  OBVIOUS
<1>0. AuthTypeOK /\ ThreadsTypeOK /\ OneDerives /\ BackoffCounts /\ GuessesAreSpaced /\ Spacing
  BY DEF CentreInv, CentreTypes, Spacing
<1>1. CASE Exit \/ Kill
  BY <1>1, CentreAssumption
    DEF Exit, Kill, EndProcess, Forget, Spacing, OneDerives, BackoffCounts, GuessesAreSpaced
<1>2. ASSUME NEW r \in Requests, BeginDeriving(r), ~AuthRefuses(r) PROVE Spacing'
  <2>1. /\ step' = [step EXCEPT ![r] = "derive"] /\ lock' = r /\ lock = NoRequest
        /\ wait = 0 /\ age[r] = 0
        /\ UNCHANGED <<failures, wait, guesses, since, age>>
    BY <1>0, <1>2
      DEF BeginDeriving, AuthRefuses, Go, At, AuthTypeOK, OneDerives
  <2>2. OneDerives'
    BY <1>0, <2>1, CentreAssumption DEF ThreadsTypeOK, OneDerives
  <2>3. BackoffCounts'
    BY <1>0, <2>1 DEF BackoffCounts
  <2>4. GuessesAreSpaced'
    BY <1>0, <2>1, BackoffBounded
      DEF AuthTypeOK, ThreadsTypeOK, BackoffCounts, GuessesAreSpaced
  <2> QED BY <2>2, <2>3, <2>4 DEF Spacing
<1>3. ASSUME NEW r \in Requests, CannotDerive(r) \/ WrongPassphrase(r) \/ RightPassphrase(r)
      PROVE  Spacing'
  <2>1. /\ lock = r /\ lock' = NoRequest /\ age' = [age EXCEPT ![r] = 0]
        /\ step' = [step EXCEPT ![r] = step'[r]] /\ step'[r] # "derive"
    BY <1>0, <1>3
      DEF CannotDerive, WrongPassphrase, RightPassphrase, Done, Go, At, ThreadsTypeOK, OneDerives
  <2>2. \A q \in Requests : step'[q] # "derive"
    BY <1>0, <2>1 DEF ThreadsTypeOK, OneDerives
  <2>3. OneDerives' /\ GuessesAreSpaced'
    BY <1>0, <2>1, <2>2, CentreAssumption DEF ThreadsTypeOK, OneDerives, GuessesAreSpaced
  <2>4. BackoffCounts'
    <3>1. CASE CannotDerive(r)
      BY <1>0, <3>1 DEF CannotDerive, BackoffCounts
    <3>2. CASE WrongPassphrase(r)
      BY <1>0, <3>2, BackoffBounded
        DEF WrongPassphrase, BackoffCounts, AuthTypeOK, ThreadsTypeOK
    <3>3. CASE RightPassphrase(r)
      BY <3>3 DEF RightPassphrase, BackoffCounts
    <3> QED BY <1>3, <3>1, <3>2, <3>3
  <2> QED BY <2>3, <2>4 DEF Spacing
<1>4. CASE Tick
  <2>1. OneDerives'
    BY <1>0, <1>4 DEF Tick, Less, OneDerives, ThreadsTypeOK
  <2>2. BackoffCounts'
    <3> SUFFICES ASSUME failures > 0 PROVE since' + wait' >= Delay[failures]
      BY <1>0, <1>4 DEF Tick, BackoffCounts
    <3>1. since + wait >= Delay[failures] /\ Delay[failures] \in 1..MaxBackoff
      BY <1>0, BackoffBounded DEF BackoffCounts, AuthTypeOK
    <3>2. CASE since < Horizon
      BY <1>0, <1>4, <3>1, <3>2, BackoffBounded DEF Tick, Less, AuthTypeOK
    <3>3. CASE since = Horizon
      BY <1>0, <1>4, <3>1, <3>3, BackoffBounded DEF Tick, Less, AuthTypeOK
    <3> QED BY <1>0, <3>2, <3>3, BackoffBounded DEF AuthTypeOK
  <2>3. GuessesAreSpaced'
    <3> SUFFICES ASSUME NEW r \in Requests, step[r] = "derive", guesses > 0
                 PROVE  since' - age'[r] >= Delay[guesses]
      BY <1>4 DEF Tick, GuessesAreSpaced
    <3>1. /\ since - age[r] >= Delay[guesses] /\ Delay[guesses] \in 1..MaxBackoff
          /\ age[r] \in 0..MaxKdf /\ age[r] < MaxKdf /\ age'[r] = age[r] + 1
      BY <1>0, <1>4, BackoffBounded
        DEF Tick, GuessesAreSpaced, BackoffCounts, AuthTypeOK, ThreadsTypeOK
    <3>2. CASE since < Horizon
      BY <1>0, <1>4, <3>1, <3>2, BackoffBounded DEF Tick, AuthTypeOK
    <3>3. CASE since = Horizon
      BY <1>0, <1>4, <3>1, <3>3, BackoffBounded DEF Tick, AuthTypeOK
    <3> QED BY <1>0, <3>2, <3>3, BackoffBounded DEF AuthTypeOK
  <2> QED BY <2>1, <2>2, <2>3 DEF Spacing
<1>5. CASE Enroll \/ Start \/ (Run /\ ~Exit) \/ StopControl \/ Stopping \/ UNCHANGED cvars
  BY <1>0, <1>5, SpacingFrame
    DEF Enroll, Start, Run, Announce, Open, OpenFails, Close, Report, StopControl, Stopping,
        TellPending, SignalStop, cvars, auth, threads
<1>6. ASSUME NEW r \in Requests,
             Connect(r) \/ Refuse(r) \/ CheckSession(r) \/ RefuseField(r) \/ CheckAgain(r)
              \/ (BeginDeriving(r) /\ AuthRefuses(r)) \/ AnswerAgent(r) \/ Act(r) \/ Logout(r)
              \/ CreateProof(r) \/ CommitProof(r) \/ ProofFails(r)
              \/ \E f \in Sent[r] : Receive(r, f)
      PROVE  Spacing'
  <2>1. UNCHANGED <<lock, failures, wait, guesses, since, age>>
    BY <1>6 DEF Connect, Refuse, CheckSession, RefuseField, CheckAgain, BeginDeriving, AnswerAgent,
                Act, Logout, CreateProof, CommitProof, ProofFails, Receive, auth
  <2>2. step[r] # "derive" /\ step' = [step EXCEPT ![r] = step'[r]] /\ step'[r] # "derive"
    BY <1>0, <1>6
      DEF Connect, Refuse, CheckSession, RefuseField, CheckAgain, BeginDeriving, AnswerAgent, Act,
          Logout, CreateProof, CommitProof, ProofFails, Receive, At, Go, Done, ThreadsTypeOK
  <2> QED BY <1>0, <2>1, <2>2, SpacingFrame DEF ThreadsTypeOK
<1> QED
  BY <1>1, <1>2, <1>3, <1>4, <1>5, <1>6 DEF CNext, Run, Serve

-----------------------------------------------------------------------------
\* Steps that touch no proof file and begin no writing keep the proofs.
LEMMA WritingFrame ==
    ASSUME Writing, UNCHANGED <<file, reported>>,
           \A q \in Requests : step'[q] = "write" => step[q] = "write" /\ form'[q] = form[q]
    PROVE  Writing'
BY DEF Writing, OneWrites, ProofKept

\* Reported proofs stay whole, and each file being written its writer's own.
LEMMA WritingStep == CentreInv /\ [CNext]_cvars => Writing'
<1> SUFFICES ASSUME CentreInv, [CNext]_cvars PROVE Writing'
  OBVIOUS
<1>0. HostTypeOK /\ ThreadsTypeOK /\ StepForms /\ OneWrites /\ ProofKept /\ Writing
  BY DEF CentreInv, CentreTypes, Earning, Writing
<1>1. CASE Exit \/ Kill
  BY <1>0, <1>1, WritingFrame DEF Exit, Kill, EndProcess, Forget, durable
<1>2. ASSUME NEW r \in Requests, CreateProof(r), file[form[r].commit] = "absent" PROVE Writing'
  <2>1. /\ file' = [file EXCEPT ![form[r].commit] = "partial"] /\ UNCHANGED <<reported, form>>
        /\ step' = [step EXCEPT ![r] = "write"]
    BY <1>2 DEF CreateProof, Go
  <2>2. form[r].commit \in Commits
    BY <1>0, <1>2 DEF CreateProof, At, StepForms, Forms, Fresh
  <2>3. \A q \in Requests : step[q] = "write" => form[q].commit # form[r].commit
    BY <1>0, <1>2 DEF OneWrites
  <2>4. OneWrites'
    BY <1>0, <2>1, <2>2, <2>3 DEF OneWrites, HostTypeOK, ThreadsTypeOK
  <2>5. ProofKept'
    BY <1>0, <1>2, <2>1 DEF ProofKept, HostTypeOK
  <2> QED BY <2>4, <2>5 DEF Writing
<1>3. ASSUME NEW r \in Requests, CommitProof(r) \/ ProofFails(r) PROVE Writing'
  <2>1. /\ step[r] = "write" /\ step' = [step EXCEPT ![r] = "idle"]
        /\ form' = [form EXCEPT ![r] = NoForm]
    BY <1>3 DEF CommitProof, ProofFails, At, Done
  <2>2. file[form[r].commit] = "partial" /\ form[r].commit \in Commits
    BY <1>0, <2>1 DEF OneWrites, StepForms, Forms
  <2>3. \A c \in Commits : c # form[r].commit => file'[c] = file[c]
    BY <1>0, <1>3 DEF CommitProof, ProofFails, HostTypeOK
  <2>4. \A q \in Requests : q # r => step'[q] = step[q] /\ form'[q] = form[q]
    BY <1>0, <2>1 DEF ThreadsTypeOK
  <2>5. \A q \in Requests : step[q] = "write" => form[q].commit \in Commits
    BY <1>0 DEF StepForms, Forms
  <2>6. OneWrites'
    BY <1>0, <2>1, <2>3, <2>4, <2>5 DEF OneWrites, ThreadsTypeOK
  <2>7. ProofKept'
    <3>1. CASE CommitProof(r)
      BY <1>0, <2>2, <2>3, <3>1 DEF CommitProof, ProofKept, HostTypeOK
    <3>2. CASE ProofFails(r)
      BY <1>0, <2>2, <2>3, <3>2 DEF ProofFails, ProofKept, HostTypeOK
    <3> QED BY <1>3, <3>1, <3>2
  <2> QED BY <2>6, <2>7 DEF Writing
<1>4. CASE Enroll \/ Start \/ (Run /\ ~Exit) \/ StopControl \/ Stopping \/ Tick \/ UNCHANGED cvars
  BY <1>0, <1>4, WritingFrame
    DEF Enroll, Start, Run, Announce, Open, OpenFails, Close, Report, StopControl, Stopping,
        TellPending, SignalStop, Tick, cvars, durable, threads
<1>5. ASSUME NEW r \in Requests,
             Connect(r) \/ Refuse(r) \/ CheckSession(r) \/ RefuseField(r) \/ CheckAgain(r)
              \/ BeginDeriving(r) \/ CannotDerive(r) \/ WrongPassphrase(r) \/ RightPassphrase(r)
              \/ AnswerAgent(r) \/ Act(r) \/ Logout(r)
              \/ (CreateProof(r) /\ file[form[r].commit] # "absent")
              \/ \E f \in Sent[r] : Receive(r, f)
      PROVE  Writing'
  <2>1. UNCHANGED <<file, reported>>
    BY <1>5 DEF Connect, Refuse, CheckSession, RefuseField, CheckAgain, BeginDeriving, CannotDerive,
                WrongPassphrase, RightPassphrase, AnswerAgent, Act, Logout, CreateProof, Receive,
                durable
  <2>2. step[r] # "write" /\ step'[r] # "write"
    BY <1>0, <1>5
      DEF Connect, Refuse, CheckSession, RefuseField, CheckAgain, BeginDeriving, CannotDerive,
          WrongPassphrase, RightPassphrase, AnswerAgent, Act, Logout, CreateProof, Receive,
          At, Go, Done, ThreadsTypeOK
  <2>3. \A q \in Requests : q # r => step'[q] = step[q] /\ form'[q] = form[q]
    BY <1>0, <1>5
      DEF Connect, Refuse, CheckSession, RefuseField, CheckAgain, BeginDeriving, CannotDerive,
          WrongPassphrase, RightPassphrase, AnswerAgent, Act, Logout, CreateProof, Receive,
          Go, Done, ThreadsTypeOK
  <2> QED BY <1>0, <2>1, <2>2, <2>3, WritingFrame
<1> QED BY <1>1, <1>2, <1>3, <1>4, <1>5 DEF CNext, Run, Serve

-----------------------------------------------------------------------------
\* Types hold after every step.
LEMMA TypesStep == CentreInv /\ [CNext]_cvars => CentreTypes'
<1> SUFFICES ASSUME CentreInv, [CNext]_cvars PROVE CentreTypes'
  OBVIOUS
<1>0. HostTypeOK /\ AuthTypeOK /\ ThreadsTypeOK /\ StepForms /\ Shown
  BY DEF CentreInv, CentreTypes, Earning
<1>1. HostTypeOK'
  <2>1. CASE Exit \/ Kill
    BY <1>0, <2>1 DEF Exit, Kill, EndProcess, durable, HostTypeOK
  <2>2. ASSUME NEW r \in Requests, CreateProof(r) \/ CommitProof(r) \/ ProofFails(r)
        PROVE  HostTypeOK'
    <3>1. form[r].commit \in Commits
      BY <1>0, <2>2 DEF CreateProof, CommitProof, ProofFails, At, StepForms, Forms
    <3> QED BY <1>0, <2>2, <3>1 DEF CreateProof, CommitProof, ProofFails, host, HostTypeOK
  <2>3. CASE Enroll \/ Start \/ (Run /\ ~Exit) \/ StopControl \/ Stopping \/ UNCHANGED cvars
    BY <1>0, <2>3
      DEF Enroll, BeginEnroll, EndEnroll, Start, Run, Announce, Open, OpenFails, Close, Report,
          StopControl, Stopping, TellPending, SignalStop, cvars, durable, host, HostTypeOK
  <2>4. CASE UNCHANGED <<durable, host>>
    BY <1>0, <2>4 DEF durable, host, HostTypeOK
  <2>5. ASSUME NEW r \in Requests,
               Connect(r) \/ Refuse(r) \/ CheckSession(r) \/ RefuseField(r) \/ CheckAgain(r)
                \/ BeginDeriving(r) \/ CannotDerive(r) \/ WrongPassphrase(r) \/ RightPassphrase(r)
                \/ AnswerAgent(r) \/ Act(r) \/ Logout(r) \/ \E f \in Sent[r] : Receive(r, f)
        PROVE  UNCHANGED <<durable, host>>
    BY <2>5 DEF Connect, Refuse, CheckSession, RefuseField, CheckAgain, BeginDeriving, CannotDerive,
                WrongPassphrase, RightPassphrase, AnswerAgent, Act, Logout, Receive
  <2>6. Tick => UNCHANGED <<durable, host>>
    BY DEF Tick
  <2> QED BY <2>1, <2>2, <2>3, <2>4, <2>5, <2>6 DEF CNext, Run, Serve
<1>2. AuthTypeOK'
  <2>1. CASE Exit \/ Kill
    <3>1. EndProcess
      BY <2>1 DEF Exit, Kill
    <3>2. life' \in [Sessions -> 0..TTL] /\ since' \in 0..Horizon
      BY <3>1, BackoffBounded DEF EndProcess, Forget
    <3>3. failures' \in 0..MaxFailures /\ wait' \in 0..MaxBackoff
      BY <3>1, BackoffBounded DEF EndProcess, Forget
    <3> QED BY <1>0, <3>1, <3>2, <3>3 DEF EndProcess, Forget, AuthTypeOK
  <2>2. ASSUME NEW r \in Requests, WrongPassphrase(r) PROVE AuthTypeOK'
    BY <1>0, <2>2, BackoffBounded
      DEF WrongPassphrase, AuthTypeOK, ThreadsTypeOK
  <2>3. ASSUME NEW r \in Requests, RightPassphrase(r) PROVE AuthTypeOK'
    <3>1. issued' \subseteq Sessions /\ issued \subseteq issued' /\ life' \in [Sessions -> 0..TTL]
      BY <1>0, <2>3, BackoffBounded DEF RightPassphrase, AuthTypeOK
    <3> QED BY <1>0, <2>3, <3>1, BackoffBounded DEF RightPassphrase, AuthTypeOK
  <2>4. ASSUME NEW r \in Requests, BeginDeriving(r) \/ CannotDerive(r) PROVE AuthTypeOK'
    BY <1>0, <2>4 DEF BeginDeriving, CannotDerive, AuthTypeOK
  <2>5. ASSUME NEW r \in Requests, Logout(r) PROVE AuthTypeOK'
    <3>1. form[r].session \in issued
      BY <1>0, <2>5 DEF Logout, At, Shown, Checked
    <3> QED BY <1>0, <2>5, <3>1, BackoffBounded DEF Logout, AuthTypeOK
  <2>6. CASE Tick
    <3>1. wait' \in 0..MaxBackoff /\ since' \in 0..Horizon
      BY <1>0, <2>6, BackoffBounded DEF Tick, Less, AuthTypeOK
    <3>2. life' \in [Sessions -> 0..TTL]
      BY <1>0, <2>6, BackoffBounded DEF Tick, Less, AuthTypeOK
    <3> QED BY <1>0, <2>6, <3>1, <3>2 DEF Tick, AuthTypeOK
  <2>7. CASE UNCHANGED auth
    BY <1>0, <2>7 DEF auth, AuthTypeOK
  <2>8. CASE Enroll \/ Start \/ (Run /\ ~Exit) \/ StopControl \/ Stopping \/ UNCHANGED cvars
    BY <2>7, <2>8
      DEF Enroll, Start, Run, Announce, Open, OpenFails, Close, Report, StopControl, Stopping,
          TellPending, SignalStop, cvars
  <2>9. ASSUME NEW r \in Requests,
               Connect(r) \/ Refuse(r) \/ CheckSession(r) \/ RefuseField(r) \/ CheckAgain(r)
                \/ AnswerAgent(r) \/ Act(r) \/ CreateProof(r) \/ CommitProof(r) \/ ProofFails(r)
                \/ \E f \in Sent[r] : Receive(r, f)
        PROVE  AuthTypeOK'
    BY <2>7, <2>9
      DEF Connect, Refuse, CheckSession, RefuseField, CheckAgain, AnswerAgent, Act, CreateProof,
          CommitProof, ProofFails, Receive
  <2> QED BY <2>1, <2>2, <2>3, <2>4, <2>5, <2>6, <2>8, <2>9 DEF CNext, Run, Serve
<1>3. ThreadsTypeOK'
  <2>1. CASE Exit \/ Kill
    <3>1. EndProcess
      BY <2>1 DEF Exit, Kill
    <3>2. age' \in [Requests -> 0..MaxKdf]
      BY <3>1, BackoffBounded DEF EndProcess, Forget
    <3> QED BY <3>1, <3>2 DEF EndProcess, Forget, ThreadsTypeOK
  <2>2. ASSUME NEW r \in Requests, NEW f \in Sent[r], Receive(r, f) PROVE ThreadsTypeOK'
    <3>1. f \in Forms
      BY SentAssumption
    <3> QED BY <1>0, <2>2, <3>1 DEF Receive, ThreadsTypeOK
  <2>3. ASSUME NEW r \in Requests,
               BeginDeriving(r) \/ CannotDerive(r) \/ WrongPassphrase(r) \/ RightPassphrase(r)
        PROVE  ThreadsTypeOK'
    <3>1. age' \in [Requests -> 0..MaxKdf]
      BY <1>0, <2>3, BackoffBounded
        DEF BeginDeriving, CannotDerive, WrongPassphrase, RightPassphrase, ThreadsTypeOK
    <3>2. \/ Done(r)
          \/ Go(r, "derive") \/ Go(r, "act")
      BY <2>3 DEF BeginDeriving, CannotDerive, WrongPassphrase, RightPassphrase
    <3> QED BY <1>0, <3>1, <3>2 DEF Go, Done, ThreadsTypeOK
  <2>4. CASE Tick
    BY <1>0, <2>4, BackoffBounded DEF Tick, ThreadsTypeOK
  <2>5. CASE Enroll \/ Start \/ (Run /\ ~Exit) \/ StopControl \/ Stopping \/ UNCHANGED cvars
    BY <1>0, <2>5
      DEF Enroll, Start, Run, Announce, Open, OpenFails, Close, Report, StopControl, Stopping,
          TellPending, SignalStop, cvars, threads, ThreadsTypeOK
  <2>6. ASSUME NEW r \in Requests,
               Connect(r) \/ Refuse(r) \/ CheckSession(r) \/ RefuseField(r) \/ CheckAgain(r)
                \/ AnswerAgent(r) \/ Act(r) \/ Logout(r)
                \/ CreateProof(r) \/ CommitProof(r) \/ ProofFails(r)
        PROVE  ThreadsTypeOK'
    BY <1>0, <2>6
      DEF Connect, Refuse, CheckSession, RefuseField, CheckAgain, AnswerAgent, Act, Logout,
          CreateProof, CommitProof, ProofFails, Go, Done, ThreadsTypeOK
  <2> QED BY <2>1, <2>2, <2>3, <2>4, <2>5, <2>6 DEF CNext, Run, Serve
<1> QED BY <1>1, <1>2, <1>3 DEF CentreTypes

-----------------------------------------------------------------------------
\* A request that ends has nothing left to earn.
LEMMA DoneEarns ==
    ASSUME CentreInv, NEW r \in Requests, Done(r),
           issued \subseteq issued', over \subseteq over',
           \A s \in Sessions : life'[s] > 0 => s \in issued' /\ s \notin over'
    PROVE  Earning'
<1>0. AuthTypeOK /\ ThreadsTypeOK /\ StepForms /\ DeadStayDead /\ Shown /\ Present
  BY DEF CentreInv, CentreTypes, Earning
<1>1. \A q \in Requests :
        \/ q # r /\ step'[q] = step[q] /\ form'[q] = form[q] /\ late'[q] = late[q]
        \/ q = r /\ step'[q] = "idle" /\ form'[q] = NoForm /\ ~late'[q]
  BY <1>0 DEF Done, ThreadsTypeOK
<1>2. StepForms'
  BY <1>0, <1>1 DEF StepForms
<1>3. Shown' /\ Present'
  BY <1>0, <1>1 DEF Shown, Present
<1>4. DeadStayDead'
  BY <1>0, <1>1 DEF DeadStayDead
<1> QED BY <1>2, <1>3, <1>4 DEF Earning

\* A request that goes on to s, given what s asks of it.
LEMMA GoEarns ==
    ASSUME CentreInv, NEW r \in Requests, NEW s, Go(r, s), UNCHANGED <<issued, life, over>>,
           step[r] \notin {"idle", "reading"}, s \notin {"idle", "reading"},
           s = "session" => form[r].kind \in Checked,
           s = "control" => form[r].kind \in {"change"} \cup Fresh,
           s \in {"passphrase", "derive"} => form[r].kind \in {"unlock"} \cup Fresh,
           s = "act" => form[r].kind \in {"agent", "change", "lock"} \cup Fresh,
           s = "write" => form[r].kind = "proof",
           form[r].kind \in Checked => form[r].session \in issued /\ ~late[r] /\ form[r].token,
           s \in {"act", "write"} /\ form[r].kind \in Fresh => form[r].pass = "right"
    PROVE  Earning'
<1>0. AuthTypeOK /\ ThreadsTypeOK /\ StepForms /\ DeadStayDead /\ Shown /\ Present
  BY DEF CentreInv, CentreTypes, Earning
<1>1. /\ step'[r] = s /\ UNCHANGED <<form, late>>
      /\ \A q \in Requests : q # r => step'[q] = step[q]
  BY <1>0 DEF Go, ThreadsTypeOK
<1>2. StepForms'
  BY <1>0, <1>1 DEF StepForms
<1>3. Shown' /\ Present'
  BY <1>0, <1>1 DEF Shown, Present
<1>4. DeadStayDead'
  BY <1>0, <1>1 DEF DeadStayDead
<1> QED BY <1>2, <1>3, <1>4 DEF Earning

\* What requests reach is earned in every step.
LEMMA EarningStep == CentreInv /\ [CNext]_cvars => Earning'
<1> SUFFICES ASSUME CentreInv, [CNext]_cvars PROVE Earning'
  OBVIOUS
<1>0. /\ AuthTypeOK /\ ThreadsTypeOK /\ Earning
      /\ StepForms /\ DeadStayDead /\ Shown /\ Present
  BY DEF CentreInv, CentreTypes, Earning
<1>1. CASE Exit \/ Kill
  BY <1>0, <1>1 DEF Exit, Kill, EndProcess, Forget, Earning, StepForms, DeadStayDead, Shown, Present
<1>2. CASE UNCHANGED <<issued, life, over, threads>>
  BY <1>0, <1>2 DEF Earning, StepForms, DeadStayDead, Shown, Present, threads
<1>3. CASE Enroll \/ Start \/ (Run /\ ~Exit) \/ StopControl \/ Stopping \/ UNCHANGED cvars
  BY <1>2, <1>3
    DEF Enroll, Start, Run, Announce, Open, OpenFails, Close, Report, StopControl, Stopping,
        TellPending, SignalStop, cvars, auth
<1>4. CASE Tick
  <2>1. DeadStayDead'
    BY <1>0, <1>4, BackoffBounded DEF Tick, Less, DeadStayDead, AuthTypeOK
  <2>2. StepForms' /\ Shown' /\ Present'
    BY <1>0, <1>4 DEF Tick, StepForms, Shown, Present
  <2> QED BY <2>1, <2>2 DEF Earning
<1>5. ASSUME NEW r \in Requests,
             Refuse(r) \/ RefuseField(r) \/ CannotDerive(r) \/ WrongPassphrase(r)
              \/ AnswerAgent(r) \/ Act(r) \/ CommitProof(r) \/ ProofFails(r)
              \/ (CheckSession(r) /\ Done(r)) \/ (CheckAgain(r) /\ Done(r))
              \/ (BeginDeriving(r) /\ Done(r)) \/ (CreateProof(r) /\ Done(r))
      PROVE  Earning'
  <2>1. Done(r) /\ UNCHANGED <<issued, life, over>>
    BY <1>5 DEF Refuse, RefuseField, CannotDerive, WrongPassphrase, AnswerAgent, Act, CommitProof,
                ProofFails, CheckSession, CheckAgain, BeginDeriving, CreateProof, auth
  <2> QED BY <1>0, <2>1, DoneEarns DEF DeadStayDead
<1>6. ASSUME NEW r \in Requests, Connect(r) PROVE Earning'
  <2>1. UNCHANGED <<issued, life, over, form, late>> /\ step[r] = "idle"
        /\ step' = [step EXCEPT ![r] = "reading"]
    BY <1>6 DEF Connect, Go, auth
  <2>2. StepForms' /\ DeadStayDead'
    BY <1>0, <2>1 DEF StepForms, DeadStayDead, ThreadsTypeOK
  <2>3. Shown' /\ Present'
    BY <1>0, <2>1 DEF Shown, Present, ThreadsTypeOK
  <2> QED BY <2>2, <2>3 DEF Earning
<1>7. ASSUME NEW r \in Requests, NEW f \in Sent[r], Receive(r, f) PROVE Earning'
  <2>1. f \in Forms /\ f.kind \in {"agent", "unlock"} \cup Checked
    <3>1. f \in Forms
      BY SentAssumption
    <3>2. f.kind \in Kinds
      BY <3>1 DEF Forms
    <3> QED BY <3>1, <3>2, CentreAssumption DEF Checked, Fresh
  <2>2. /\ UNCHANGED <<issued, life, over>>
        /\ form'[r] = f /\ late'[r] = (f.session \in over)
        /\ step'[r] = IF f.kind = "agent" THEN "act"
                      ELSE IF f.kind = "unlock" THEN "passphrase" ELSE "session"
        /\ \A q \in Requests :
             q # r => step'[q] = step[q] /\ form'[q] = form[q] /\ late'[q] = late[q]
    BY <1>0, <1>7 DEF Receive, auth, ThreadsTypeOK
  <2>3. f.kind \in {"agent", "unlock"} => f.kind \notin Checked
    BY DEF Checked, Fresh
  <2>4. StepForms'
    BY <1>0, <2>1, <2>2 DEF StepForms
  <2>5. Shown' /\ Present'
    BY <1>0, <2>1, <2>2, <2>3 DEF Shown, Present, Checked
  <2>6. DeadStayDead'
    BY <1>0, <2>2 DEF DeadStayDead
  <2> QED BY <2>4, <2>5, <2>6 DEF Earning
<1>8. ASSUME NEW r \in Requests, CheckSession(r), ~Done(r) PROVE Earning'
  <2>1. /\ step[r] = "session" /\ Live(form[r].session) /\ form[r].token /\ form[r].kind # "read"
        /\ Go(r, IF form[r].kind = "lock" THEN "act" ELSE "control")
        /\ UNCHANGED <<issued, life, over>>
    BY <1>8 DEF CheckSession, At, auth
  <2>2. form[r] \in Forms /\ form[r].kind \in Checked
    BY <1>0, <2>1 DEF StepForms
  <2>3. form[r].session \in issued /\ ~late[r]
    BY <1>0, <2>1, <2>2 DEF Live, Forms, DeadStayDead
  <2>4. form[r].kind # "lock" => form[r].kind \in {"change"} \cup Fresh
    BY <2>1, <2>2 DEF Checked
  <2>5. "lock" \notin Fresh
    BY DEF Fresh
  <2> QED BY <2>1, <2>2, <2>3, <2>4, <2>5, GoEarns
<1>9. ASSUME NEW r \in Requests, CheckAgain(r), ~Done(r) PROVE Earning'
  <2>1. /\ step[r] = "control"
        /\ Go(r, IF form[r].kind \in Fresh THEN "passphrase" ELSE "act")
        /\ UNCHANGED <<issued, life, over>>
    BY <1>9 DEF CheckAgain, At, auth
  <2>2. form[r].kind \in {"change"} \cup Fresh
    BY <1>0, <2>1 DEF StepForms
  <2>3. form[r].session \in issued /\ ~late[r] /\ form[r].token
    BY <1>0, <2>1, <2>2 DEF Shown, Checked
  <2> QED BY <2>1, <2>2, <2>3, GoEarns
<1>10. ASSUME NEW r \in Requests, BeginDeriving(r), ~Done(r) PROVE Earning'
  <2>1. step[r] = "passphrase" /\ Go(r, "derive") /\ UNCHANGED <<issued, life, over>>
    BY <1>10 DEF BeginDeriving, At
  <2> QED BY <1>0, <2>1, GoEarns DEF StepForms, Shown
<1>11. ASSUME NEW r \in Requests, RightPassphrase(r) PROVE Earning'
  <2>1. step[r] = "derive" /\ form[r].pass = "right" /\ UNCHANGED over
        /\ form[r].kind \in {"unlock"} \cup Fresh
    BY <1>0, <1>11 DEF RightPassphrase, At, StepForms
  <2>2. CASE form[r].kind = "unlock"
    <3>1. Done(r)
      BY <1>11, <2>2 DEF RightPassphrase
    <3>2. issued \subseteq issued'
      BY <1>11, <2>2 DEF RightPassphrase
    <3>3. \A s \in Sessions : life'[s] > 0 => s \in issued' /\ s \notin over'
      <4>1. CASE UNCHANGED <<issued, life>>
        BY <1>0, <2>1, <4>1 DEF DeadStayDead
      <4>2. ASSUME NEW t \in Sessions \ issued,
                   issued' = issued \cup {t}, life' = [life EXCEPT ![t] = TTL]
            PROVE  \A s \in Sessions : life'[s] > 0 => s \in issued' /\ s \notin over'
        BY <1>0, <2>1, <4>2 DEF DeadStayDead, AuthTypeOK
      <4> QED BY <1>11, <2>2, <4>1, <4>2 DEF RightPassphrase
    <3> QED BY <2>1, <3>1, <3>2, <3>3, DoneEarns
  <2>3. CASE form[r].kind # "unlock"
    <3>1. Go(r, "act") /\ UNCHANGED <<issued, life, over>>
      BY <1>11, <2>3 DEF RightPassphrase
    <3> QED BY <1>0, <2>1, <2>3, <3>1, GoEarns DEF Shown
  <2> QED BY <2>2, <2>3
<1>12. ASSUME NEW r \in Requests, Logout(r) PROVE Earning'
  <2>1. /\ step[r] = "act" /\ form[r].kind = "lock" /\ Done(r) /\ UNCHANGED issued
        /\ life' = [life EXCEPT ![form[r].session] = 0]
        /\ over' = over \cup {form[r].session}
    BY <1>12 DEF Logout, At
  <2>2. \A s \in Sessions : life'[s] > 0 => s \in issued' /\ s \notin over'
    BY <1>0, <2>1 DEF DeadStayDead, AuthTypeOK
  <2> QED BY <2>1, <2>2, DoneEarns
<1>13. ASSUME NEW r \in Requests, CreateProof(r), ~Done(r) PROVE Earning'
  <2>1. /\ step[r] = "act" /\ form[r].kind = "proof" /\ Go(r, "write")
        /\ UNCHANGED <<issued, life, over>>
    BY <1>13 DEF CreateProof, At, auth
  <2> QED BY <1>0, <2>1, GoEarns DEF Shown, Present
<1> QED
  BY <1>1, <1>3, <1>4, <1>5, <1>6, <1>7, <1>8, <1>9, <1>10, <1>11, <1>12, <1>13
  DEF CNext, Run, Serve

-----------------------------------------------------------------------------
\* The invariant holds for any clients, sessions, names, bounds and delays.
THEOREM CentreInvariance == CSpec => []CentreInv
<1>1. CentreInv /\ [CNext]_cvars => CentreInv'
  BY TypesStep, EarningStep, SpacingStep, WritingStep DEF CentreInv
<1> QED BY <1>1, InitCentreInv, PTL DEF CSpec

\* Type correctness of the service process.
THEOREM CentreTypeCorrect == CSpec => []CentreTypeOK
<1>1. CentreInv => CentreTypeOK
  BY DEF CentreInv, CentreTypes, CentreTypeOK, Spacing, BackoffCounts, AuthTypeOK
<1> QED BY <1>1, CentreInvariance, PTL

\* Whoever guesses, each guess is admitted a whole back-off after the last
\* wrong one, however long the derivations take.
THEOREM GuessesSpaced == CSpec => []GuessesAreSpaced
<1>1. CentreInv => GuessesAreSpaced
  BY DEF CentreInv, Spacing
<1> QED BY <1>1, CentreInvariance, PTL

\* No request acts on a session that had ended, without its CSRF token or, for
\* approvals and proofs, without the passphrase.
THEOREM EffectsEarned == CSpec => []EffectsAreEarned
<1>1. CentreInv => EffectsAreEarned
  BY DEF CentreInv, Earning, StepForms, Shown, Present, EffectsAreEarned, Checked, Fresh
<1> QED BY <1>1, CentreInvariance, PTL

\* A reported proof stays whole, for any number of requests and names.
THEOREM ProofsAreKept == CSpec => []ProofKept
<1>1. CentreInv => ProofKept
  BY DEF CentreInv, Writing
<1> QED BY <1>1, CentreInvariance, PTL

-----------------------------------------------------------------------------
(* The dashboard's feed.                                                   *)

\* Where a request can be.
Answers == [at : {"answered"}, room : Rooms, last : Nat \cup {NoSeq}, total : Nat]
Flights == {Idle} \cup {Asked(r) : r \in Rooms} \cup {Failed(r) : r \in Rooms} \cup Answers

\* The type of the feed's state.
HTypeOK ==
    /\ top \in [Rooms -> Nat] /\ total \in [Rooms -> Nat] /\ told \in [Rooms -> Nat]
    /\ seen \in [Rooms -> Nat \cup {NoSeq}]
    /\ flight \in [Polls -> Flights]
    /\ latest \in Polls \cup {NoPoll}
    /\ room \in Rooms
    /\ initial \in BOOLEAN /\ loading \in BOOLEAN
    /\ shown \in [room : Rooms, live : BOOLEAN]
    /\ fresh \in Nat /\ grown \in Nat

\* What is pending: the latest request is for the chosen room once its first
\* poll has gone, and its answer is what the page waits for.
Pending ==
    /\ ~initial => latest \in Polls /\ (IF flight[latest] = Idle THEN shown.room = room
                                        ELSE flight[latest].room = room)
    /\ ~loading => latest \in Polls /\ flight[latest] = Idle

\* No count runs ahead of the posts it counts: what the page was told, what it
\* last saw and what an answer under way will tell it lag behind the room, and
\* an answer to the latest request lags behind it no more than the page does.
CountsTrue ==
    /\ \A r \in Rooms : told[r] <= total[r]
    /\ \A r \in Rooms : seen[r] # NoSeq => top[r] - seen[r] <= total[r] - told[r]
    /\ \A p \in Polls : LET a == flight[p] IN a.at = "answered" =>
         /\ a.total <= total[a.room]
         /\ a.last # NoSeq => top[a.room] - a.last <= total[a.room] - a.total
         /\ p = latest => told[a.room] <= a.total
         /\ p = latest /\ a.last # NoSeq /\ seen[a.room] # NoSeq =>
              a.last - seen[a.room] <= a.total - told[a.room]

\* The inductive invariant: PulseTrue needs the counts, AtRest what is pending.
HInv == HTypeOK /\ Pending /\ CountsTrue /\ PulseTrue

\* The page starts within the invariant.
LEMMA InitHInv == HInit => HInv
BY HubAssumption
   DEF HInit, HInv, HTypeOK, Pending, CountsTrue, PulseTrue, Flights, Answers, Idle

\* Every step keeps the types; fresh stays a number because the counts are true.
LEMMA StepTyped == HTypeOK /\ CountsTrue /\ [HNext]_hvars => HTypeOK'
<1> SUFFICES ASSUME HTypeOK, CountsTrue, [HNext]_hvars PROVE HTypeOK'
  OBVIOUS
<1> USE HubAssumption
<1> USE DEF HTypeOK
<1>1. ASSUME NEW r \in Rooms, Post(r) \/ Restart(r) PROVE HTypeOK'
  BY <1>1 DEF Post, Restart, screenVars
<1>2. ASSUME NEW r \in Rooms, SelectRoom(r) PROVE HTypeOK'
  BY <1>2 DEF SelectRoom, upstreamVars, screenVars
<1>3. ASSUME NEW p \in Polls, InitialFires(p) \/ Poll(p) \/ Refresh(p) PROVE HTypeOK'
  <2>1. Asked(room) \in Flights
    BY DEF Flights
  <2> QED BY <1>3, <2>1 DEF InitialFires, Poll, Refresh, Load, upstreamVars, screenVars
<1>4. ASSUME NEW p \in Polls, Answer(p) PROVE HTypeOK'
  <2>1. flight[p].room \in Rooms
    BY <1>4 DEF Answer, Flights, Answers, Idle, Asked, Failed
  <2>2. \A last \in {top[flight[p].room], NoSeq} : Answered(flight[p].room, last) \in Flights
    BY <2>1 DEF Flights, Answers, Answered
  <2> QED BY <1>4, <2>2 DEF Answer, upstreamVars, screenVars
<1>5. ASSUME NEW p \in Polls, UpstreamFails(p) PROVE HTypeOK'
  <2>1. flight[p].room \in Rooms
    BY <1>5 DEF UpstreamFails, Flights, Answers, Idle, Asked, Failed
  <2>2. Failed(flight[p].room) \in Flights
    BY <2>1 DEF Flights
  <2> QED BY <1>5, <2>2 DEF UpstreamFails, upstreamVars, screenVars
<1>6. ASSUME NEW p \in Polls, ShowWindow(p) PROVE HTypeOK'
  <2>1. flight[p] \in Answers
    BY <1>6 DEF ShowWindow, Flights, Answers, Idle, Asked, Failed
  <2>2. fresh' \in Nat /\ grown' \in Nat
    BY <1>6, <2>1 DEF ShowWindow, Observe, Answers, Larger, CountsTrue, IsLatest
  <2>3. seen' \in [Rooms -> Nat \cup {NoSeq}] /\ told' \in [Rooms -> Nat]
    BY <1>6, <2>1 DEF ShowWindow, Observe, Answers
  <2> QED BY <1>6, <2>1, <2>2, <2>3 DEF ShowWindow, Answers, Flights, upstreamVars
<1>7. ASSUME NEW p \in Polls, ShowSample(p) PROVE HTypeOK'
  <2>1. flight[p].room \in Rooms
    BY <1>7 DEF ShowSample, Flights, Answers, Idle, Asked, Failed
  <2> QED BY <1>7, <2>1 DEF ShowSample, Flights, upstreamVars
<1>8. ASSUME NEW p \in Polls, DropStale(p) PROVE HTypeOK'
  BY <1>8 DEF DropStale, Flights, upstreamVars, screenVars
<1>9. CASE UNCHANGED hvars
  BY <1>9 DEF hvars, upstreamVars, screenVars
<1> QED BY <1>1, <1>2, <1>3, <1>4, <1>5, <1>6, <1>7, <1>8, <1>9 DEF HNext, Upstream, Deliver

\* Only the latest request can end what the page waits for.
LEMMA StepPending == HTypeOK /\ Pending /\ [HNext]_hvars => Pending'
<1> SUFFICES ASSUME HTypeOK, Pending, [HNext]_hvars PROVE Pending'
  OBVIOUS
<1> USE HubAssumption
<1> USE DEF HTypeOK, Pending
<1>1. ASSUME NEW r \in Rooms, Post(r) \/ Restart(r) \/ SelectRoom(r) PROVE Pending'
  BY <1>1 DEF Post, Restart, SelectRoom, upstreamVars, screenVars
<1>2. ASSUME NEW p \in Polls, InitialFires(p) \/ Poll(p) \/ Refresh(p) PROVE Pending'
  BY <1>2 DEF InitialFires, Poll, Refresh, Load, Asked, Idle, screenVars
<1>3. ASSUME NEW p \in Polls, Answer(p) \/ UpstreamFails(p) PROVE Pending'
  BY <1>3 DEF Answer, UpstreamFails, Answered, Failed, Idle, screenVars
<1>4. ASSUME NEW p \in Polls, ShowWindow(p) \/ ShowSample(p) PROVE Pending'
  BY <1>4 DEF ShowWindow, ShowSample, IsLatest, Idle
<1>5. ASSUME NEW p \in Polls, DropStale(p) PROVE Pending'
  BY <1>5 DEF DropStale, IsLatest, Idle, screenVars
<1>6. CASE UNCHANGED hvars
  BY <1>6 DEF hvars, screenVars
<1> QED BY <1>1, <1>2, <1>3, <1>4, <1>5, <1>6 DEF HNext, Upstream, Deliver

\* Posts, restarts of the room and answers in any order keep the counts true.
LEMMA StepCounts == HTypeOK /\ CountsTrue /\ [HNext]_hvars => CountsTrue'
<1> SUFFICES ASSUME HTypeOK, CountsTrue, [HNext]_hvars PROVE CountsTrue'
  OBVIOUS
<1> USE HubAssumption
<1> USE DEF HTypeOK, CountsTrue
<1>a. \A p \in Polls : flight[p].at = "answered" => flight[p] \in Answers
  BY DEF Flights, Answers, Idle, Asked, Failed
<1>1. ASSUME NEW r \in Rooms, Post(r) PROVE CountsTrue'
  BY <1>1, <1>a DEF Post, Answers, screenVars
<1>2. ASSUME NEW r \in Rooms, Restart(r) PROVE CountsTrue'
  BY <1>2, <1>a DEF Restart, Answers, screenVars
<1>3. ASSUME NEW r \in Rooms, SelectRoom(r) PROVE CountsTrue'
  BY <1>3 DEF SelectRoom, upstreamVars, screenVars
<1>4. ASSUME NEW p \in Polls, InitialFires(p) \/ Poll(p) \/ Refresh(p) PROVE CountsTrue'
  BY <1>4 DEF InitialFires, Poll, Refresh, Load, Asked, upstreamVars, screenVars
<1>5. ASSUME NEW p \in Polls, Answer(p) PROVE CountsTrue'
  <2>1. flight[p].room \in Rooms
    BY <1>5 DEF Answer, Flights, Answers, Idle, Asked, Failed
  <2> QED BY <1>5, <2>1 DEF Answer, Answered, upstreamVars, screenVars
<1>6. ASSUME NEW p \in Polls, UpstreamFails(p) PROVE CountsTrue'
  BY <1>6 DEF UpstreamFails, Failed, upstreamVars, screenVars
<1>7. ASSUME NEW p \in Polls, ShowWindow(p) PROVE CountsTrue'
  BY <1>7, <1>a DEF ShowWindow, Observe, Answers, Idle, IsLatest, upstreamVars
<1>8. ASSUME NEW p \in Polls, ShowSample(p) \/ DropStale(p) PROVE CountsTrue'
  BY <1>8 DEF ShowSample, DropStale, Idle, upstreamVars, screenVars
<1>9. CASE UNCHANGED hvars
  BY <1>9 DEF hvars, upstreamVars, screenVars
<1> QED BY <1>1, <1>2, <1>3, <1>4, <1>5, <1>6, <1>7, <1>8, <1>9 DEF HNext, Upstream, Deliver

\* The page changes its pulse only with the answer to its latest request.
LEMMA StepPulse == HTypeOK /\ CountsTrue /\ PulseTrue /\ [HNext]_hvars => PulseTrue'
<1> SUFFICES ASSUME HTypeOK, CountsTrue, PulseTrue, [HNext]_hvars PROVE PulseTrue'
  OBVIOUS
<1> USE HubAssumption
<1> USE DEF PulseTrue
<1>1. ASSUME NEW p \in Polls, ShowWindow(p) PROVE PulseTrue'
  <2>1. flight[p] \in Answers
    BY <1>1 DEF ShowWindow, HTypeOK, Flights, Answers, Idle, Asked, Failed
  <2> QED BY <1>1, <2>1 DEF ShowWindow, Observe, Larger, IsLatest, HTypeOK, CountsTrue, Answers
<1>2. ASSUME NEW p \in Polls, ShowSample(p) PROVE PulseTrue'
  BY <1>2 DEF ShowSample
<1>3. CASE UNCHANGED screenVars
  BY <1>3 DEF screenVars
<1> QED
  BY <1>1, <1>2, <1>3 DEF HNext, Upstream, Deliver, Post, Restart, SelectRoom, InitialFires, Poll, Refresh,
     Answer, UpstreamFails, DropStale, hvars

\* The feed's invariant, for any rooms and any number of polls under way.
THEOREM FeedInvariance == HSpec => []HInv
<1>1. HInv /\ [HNext]_hvars => HInv'
  BY StepTyped, StepPending, StepCounts, StepPulse DEF HInv
<1> QED BY InitHInv, <1>1, PTL DEF HSpec

\* "n new messages" never counts one that was not posted, however answers
\* overtake each other and rooms start again.
THEOREM PulsesAreTrue == HSpec => []PulseTrue
<1>1. HInv => PulseTrue
  BY DEF HInv
<1> QED BY FeedInvariance, <1>1, PTL

\* A page that is not loading shows the room that was chosen, whatever answers
\* are still on their way.
THEOREM ComesToRest == HSpec => []AtRest
<1>1. HInv => AtRest
  BY DEF HInv, Pending, AtRest
<1> QED BY FeedInvariance, <1>1, PTL
=============================================================================
