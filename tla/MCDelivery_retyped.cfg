SPECIFICATION Spec
CONSTANTS
    Rows = {1, 2}
    Ptys = {p1}
    Children = {c1, c2}
    Jobs = {}
    Tasks = {t1, t2, t3}
    NoRow = 0
    NoPty = NoPty
    NoChild = NoChild
    NoJob = 0
    MaxCrashes = 0
    MaxPuts = 1
SYMMETRY Interchangeable
CHECK_DEADLOCK FALSE
INVARIANTS
    AtMostOncePerKey
