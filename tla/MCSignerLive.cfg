\* Two threads, two requests in one room, a nonce to spare, faults anywhere.
SPECIFICATION FairSpec
CONSTANTS
    r1 = r1
    r2 = r2
    room = room
    NoRequest = NoRequest
    Requests <- TwoRequests
    Workers = {w1, w2}
    Lanes <- OneLane
    Addressable <- OneLane
    LaneOf <- SameLane
    MaxNonce = 3
    Mode = "live"
INVARIANTS
    TypeOK
    SentAtMostOnce
    NonceNeverShared
    LoggedBeforeSent
    VerdictTrue
    LedgerAgrees
PROPERTIES
    NonceAndVerdictStable
    SilenceIsNotRejection
    KeepsPromise
    CallReturns
