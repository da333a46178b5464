\* Two threads, two drafts: one malformed, one for a room outside ROOM_PATTERN; rejections and faults.
SPECIFICATION CSpec
CONSTANTS
    d1 = d1
    d2 = d2
    room = room
    NoRequest = NoRequest
    Requests <- TwoDrafts
    Workers = {w1, w2}
    Lanes <- OneLane
    Addressable <- Nowhere
    LaneOf <- SameLane
    MaxNonce = 1
    Mode = "live"
    Malformed <- D2
    MaxApprovals = 2
INVARIANTS
    NothingUnapproved
    RejectionHolds
    SpentBeforeRetired
PROPERTIES
    AuthorityNeverReturns
    UsesSigner
