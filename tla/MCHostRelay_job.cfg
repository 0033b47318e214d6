SPECIFICATION Spec
CONSTANTS
    Jobs = {j1}
    Messages = {}
    Teams = 1
    MaxAttempts = 1
    PageSize = 10
    MaxMail = 1
    MaxCrashes = 1
    MaxPuts = 1
CHECK_DEADLOCK FALSE
INVARIANTS
    TypeOK
    HandedOnce
    UpdatesTrue
PROPERTIES
    NothingLost
CONSTRAINT ShortOutbox
