\* No faults: three threads approve one draft, down to its evidence entry.
SPECIFICATION CalmCSpec
CONSTANTS
    d1 = d1
    d2 = d2
    room = room
    NoRequest = NoRequest
    Requests <- OneDraft
    Workers = {w1, w2, w3}
    Lanes <- OneLane
    Addressable <- OneLane
    LaneOf <- SameLane
    MaxNonce = 1
    Mode = "offline"
    Malformed <- NoDraft
    MaxApprovals = 2
PROPERTIES
    ApprovalExecutes
    RunResolves
    EvidenceFollows
