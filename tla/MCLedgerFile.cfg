\* Two threads, four appends, a foreign line; short writes, failures and deaths.
SPECIFICATION LSpec
CONSTANTS
    a = a
    b = b
    c = c
    d = d
    f = f
    NoThread = NoThread
    NoRecord = NoRecord
    Records <- FourRecords
    Foreign <- OneForeign
    Threads = {t1, t2}
INVARIANTS
    ReadTells
PROPERTIES
    ReadableStays
