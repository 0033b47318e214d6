SPECIFICATION Spec
CONSTANTS
    Guests = {g1, g2}
    Owner = owner
    NoOps = NoOps
    NoHash = NoHash
    Texts <- MCTexts
    Ops <- MCOps
    InitialText <- MCText
    HashEvery = 2
    BaseLen <- BaseLength
    Apply <- ApplyToModel
    Transform <- TransformOps
    Changes <- ChangesOf
    MaxEdits = 3
    MaxAsks = 2
    MaxWaiting = 1
SYMMETRY Interchangeable
CHECK_DEADLOCK FALSE
INVARIANTS
    TypeOK
    Converged
    EditsArrive
    AckMatches
    NoResync
