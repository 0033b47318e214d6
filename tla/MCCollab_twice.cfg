SPECIFICATION Spec
CONSTANTS
    Guests = {g1}
    Owner = owner
    NoOps = NoOps
    NoHash = NoHash
    Texts <- MCTexts
    Ops <- MCOps
    InitialText <- MCText
    HashEvery = 2
    BaseLen <- BaseLength
    Apply <- ApplyToModel
    Transform <- TransformOps
    Changes <- ChangesOf
    MaxEdits = 3
    MaxAsks = 2
    MaxWaiting = 2
CHECK_DEADLOCK FALSE
INVARIANTS
    AckMatches
