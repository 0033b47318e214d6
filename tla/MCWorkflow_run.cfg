SPECIFICATION FairSpec
CONSTANTS
    Envs = {1, 2}
    AttemptCap = 2
    Steps <- MCSteps
    Start = "draft"
    NoStep = "none"
    Kind <- MCKind
    Source <- MCSource
    Predicate <- MCPredicate
    Verdicts <- MCVerdicts
    Edges <- MCEdges
    Drivers = {1, 2}
    MaxFaults = 1
CHECK_DEADLOCK FALSE
INVARIANTS
    TypeOK
    LedgerTrue
    RunTrue
    OneAgentWorks
    SuccessEarned
PROPERTIES
    NoDoubleWork
    SettledStays
    DriverReturns
