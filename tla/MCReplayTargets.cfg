SPECIFICATION Spec
CONSTANTS
    Procs = {"p1"}
    Threads = {"t1"}
    ProcOf <- OneThread
    Addr = {1, 2}
    Kernel = {8, 9}
    InputMax = 2
    OperatorMax = 2
    Kinds = {"htod", "dtoh", "launch"}
    Targets <- AnyTargets
    MaxInferences = 3
    MaxUploads = 2
    MaxWire = 2
    MaxRestarts = 0
INVARIANT UploadsReachTheirTargets
