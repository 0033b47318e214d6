SPECIFICATION Spec
CONSTANTS
    Envs = {1, 2}
    AttemptCap = 2
    Steps <- MCSteps
    Start = "draft"
    NoStep = "none"
    Kind <- MCKind
    Source <- MCSource
    Predicate <- MCPredicate
    Verdicts <- MCVerdicts
    Edges <- MCEdges
    Drivers = {1, 2}
    MaxFaults = 0
CHECK_DEADLOCK FALSE
INVARIANT
    RoundsKnown
