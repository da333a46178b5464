\* Three processes; setup commands do not overlap, backups do; anything may fail or die.
SPECIFICATION IdSpec
CONSTANTS
    p1 = p1
    p2 = p2
    p3 = p3
    k0 = k0
    k1 = k1
    k2 = k2
    o1 = o1
    o2 = o2
    NoOutput = NoOutput
    Absent = Absent
    Torn = Torn
    Whole = Whole
    Procs <- ThreeProcs
    Keys <- AllKeys
    Elsewhere <- Moved
    Outputs <- BothFiles
    OneAtATime = TRUE
SYMMETRY Alike
INVARIANTS
    KeyKept
    ReportedStays
    BackupsStay
