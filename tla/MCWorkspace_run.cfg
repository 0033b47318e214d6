SPECIFICATION FairSpec
CONSTANTS
    Window = 2
    QueueSize = 3
    Written = {"notes", "research"}
    Noted = {"terminals"}
    Mixes <- MCMixes
    Terms = {t1, t2}
    Paths <- MCPaths
    Within <- MCWithin
    Wants <- MCWants
    MaxEnded = 1
    Requests = {q1, q2}
    Answers = {"yes", "no"}
    MaxResolved = 1
CHECK_DEADLOCK FALSE
INVARIANTS
    TypeOK
    NoHiddenGap
    Disjoint
    LiveSpared
    OneAnswer
PROPERTIES
    HeldStays
    CatchesUp
    AskerTold
