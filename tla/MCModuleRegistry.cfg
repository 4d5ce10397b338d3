SPECIFICATION Spec
CONSTANTS
    c1 = c1
    c2 = c2
    b1 = b1
    b2 = b2
    k = k
    l = l
    v = v
    Clients <- MCClients
    Binaries <- MCBinaries
    KernelsOf <- MCKernelsOf
    VarsOf <- MCVarsOf
    MaxRestarts = 1
    MaxFaults = 1
SYMMETRY ClientSymmetry
INVARIANTS UsesReachTheirSymbol LaunchesFindTheirKernel RegisteredCanBeLaunched
CHECK_DEADLOCK FALSE
