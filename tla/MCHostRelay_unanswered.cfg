SPECIFICATION Spec
CONSTANTS
    Jobs = {}
    Messages = {m1}
    Teams = 1
    MaxAttempts = 1
    PageSize = 10
    MaxMail = 1
    MaxCrashes = 0
    MaxPuts = 0
CHECK_DEADLOCK FALSE
INVARIANTS
    FailureAnswered
