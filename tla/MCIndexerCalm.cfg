\* Nothing fails: the index catches up.
SPECIFICATION CalmISpec
CONSTANTS
    Rooms = {"lobby", "ops"}
    Kinds <- CleanKinds
    MaxSeq = 3
    MaxGen = 0
    Ring = 3
    Limit = 2
    Evasive = FALSE
PROPERTIES
    CatchesUp
