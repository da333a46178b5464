\* Are all detected reasons recorded?  Nothing fails and upstream is honest.
SPECIFICATION CalmISpec
CONSTANTS
    Rooms = {"lobby"}
    Kinds = {"good"}
    MaxSeq = 4
    MaxGen = 0
    Ring = 2
    Limit = 2
    Evasive = FALSE
INVARIANTS
    ReasonsRecorded
