SPECIFICATION Spec
CONSTANTS
    Procs = {"p1", "p2"}
    Threads = {"t1", "t2"}
    ProcOf <- TwoProcs
    Addr = {1}
    Kernel = {8}
    InputMax = 2
    OperatorMax = 1
    Kinds = {"htod", "dtoh", "htod_far", "symbol"}
    Targets <- AnyTargets
    MaxInferences = 1
    MaxUploads = 1
    MaxWire = 1
    MaxRestarts = 1
INVARIANTS ServerPhases StagesMeet
CHECK_DEADLOCK FALSE
