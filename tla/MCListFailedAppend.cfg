SPECIFICATION ListSpec
CONSTANTS
    Elem = {a, b}
    Garbage = garbage
    Nothing = nothing
    InitialCapacity = 2
    MaxLength = 5
    AllocMayFail = TRUE
INVARIANT OldPointerRemainsValid
CHECK_DEADLOCK FALSE
