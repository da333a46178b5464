\* A hostile upstream: one room that starts again, with every kind of message.
SPECIFICATION ISpec
CONSTANTS
    Rooms = {"lobby"}
    Kinds <- AllKinds
    MaxSeq = 4
    MaxGen = 1
    Ring = 3
    Limit = 2
    Evasive = TRUE
INVARIANTS
    RowsCovered
    SuccessCovers
PROPERTIES
    ObservedStays
