SPECIFICATION ListSpec
CONSTANTS
    Elem = {a, b}
    Garbage = garbage
    Nothing = nothing
    InitialCapacity = 2
    MaxLength = 5
    AllocMayFail = TRUE
INVARIANTS ListTypeOK UsedCellsExist
PROPERTY ImplementsSequence
CHECK_DEADLOCK FALSE
