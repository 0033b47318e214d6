SPECIFICATION FairSpec
CONSTANTS
    Jobs = {}
    Messages = {m1}
    Teams = 2
    MaxAttempts = 2
    PageSize = 10
    MaxMail = 1
    MaxCrashes = 1
    MaxPuts = 0
CHECK_DEADLOCK FALSE
INVARIANTS
    UpdatesTrue
PROPERTIES
    RepliesLeave
    MailEnds
