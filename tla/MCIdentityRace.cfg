\* Two processes whose setup commands overlap.
SPECIFICATION IdSpec
CONSTANTS
    p1 = p1
    p2 = p2
    p3 = p3
    k0 = k0
    k1 = k1
    k2 = k2
    o1 = o1
    o2 = o2
    NoOutput = NoOutput
    Absent = Absent
    Torn = Torn
    Whole = Whole
    Procs <- TwoProcs
    Keys <- AllKeys
    Elsewhere <- Moved
    Outputs <- BothFiles
    OneAtATime = FALSE
PROPERTIES
    RestoreRefuses
