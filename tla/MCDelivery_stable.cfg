SPECIFICATION FairSpec
CONSTANTS
    Rows = {1, 2}
    Ptys = {p1}
    Children = {c1, c2}
    Jobs = {1}
    Tasks = {t1, t2}
    NoRow = 0
    NoPty = NoPty
    NoChild = NoChild
    NoJob = 0
    MaxCrashes = 1
    MaxPuts = 0
CHECK_DEADLOCK FALSE
INVARIANTS
    TypeOK
    AtMostOncePerKey
    WholeLine
    ReportsTrue
    SenderToldTrue
PROPERTIES
    SettledStays
    PromiseKept
    QueueDrains
    CutRowsReported
