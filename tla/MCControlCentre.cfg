\* The operator's page and a client that sends anything; one traced session
\* and one proof name.
SPECIFICATION FairCSpec
CONSTANTS
    op = op
    x = x
    s1 = s1
    c1 = c1
    NoRequest = NoRequest
    NoSession = NoSession
    NoCommit = NoCommit
    Requests = {op, x}
    Operator = op
    Sessions = {s1}
    Commits = {c1}
    Kinds <- SomeKinds
    TTL = 1
    MaxKdf = 1
    MaxBackoff = 2
    MaxFailures = 2
    Delay <- Doubling
    Sent <- Either
INVARIANTS
    GuessesAreSpaced
    EffectsAreEarned
    ProofKept
PROPERTIES
    OperatorGetsIn
    StopEnds
