\* Two rooms, two requests at once, three messages in one of them, which may start again.
SPECIFICATION FairHSpec
CONSTANTS
    Rooms <- TwoRooms
    Home = "technocore"
    Polls = {p1, p2}
    NoPoll = NoPoll
    NoSeq = NoSeq
    MaxPosts <- OneBusy
INVARIANTS
    PulseTrue
    AtRest
PROPERTIES
    RoomShown
