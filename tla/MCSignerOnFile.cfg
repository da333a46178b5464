\* A thread executes a draft while another of its process and one of a second
\* process reserve for themselves, contending for both locks; any step of
\* reserve may fail and either process may die.
SPECIFICATION FairFSpec
CONSTANTS
    t1 = t1
    t2 = t2
    t3 = t3
    p1 = p1
    p2 = p2
    room1 = room1
    room2 = room2
    r1 = r1
    r2 = r2
    NoId = NoId
    NoLane = NoLane
    NoThread = NoThread
    NoOperation = NoOperation
    NoRequest = NoRequest
    Torn = Torn
    Lanes = {room1, room2}
    Ids = {r1, r2}
    Requests = {r1}
    MaxNonce = 2
    Reserves <- SomeReserves
    Threads = {t1, t2, t3}
    Workers = {t1}
    Processes = {p1, p2}
    ProcOf <- TwoAndOne
    Paired = FALSE
    Addressable = {room1}
    LaneOf <- Room1
    Mode = "live"
INVARIANTS
    ReservationsDistinct
    LocksKept
PROPERTIES
    NoncesOnlyRise
    KeepsSigner
    CallEnds
