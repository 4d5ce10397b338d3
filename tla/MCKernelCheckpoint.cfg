SPECIFICATION Spec
CONSTANTS
    Warps <- MCWarps
    OnSmZero = {0}
    Lane = {0, 1}
    Programs <- MCPrograms
    Kernel = "k"
    MaxDepth = 3
INVARIANTS RestoredWhereSaved KnowsWhereItIs NoTableIsMissed TablesFit
CHECK_DEADLOCK FALSE
