SPECIFICATION Spec
CONSTANTS
    c1 = c1
    c2 = c2
    Clients <- MCClients
    Uses <- MCUses
    MemPerThread = 2
    Sizes = {5}
    MaxJobs = 3
    FaultKinds = {"malloc", "socket", "thread", "connect", "cuda"}
    FaultyJobs = {1}
    MaxFaults = 1
INVARIANTS MemcpyTypeOK CopiedWhole AnswersAreTheirOwn StagingOutlivesItsWorkers LoneClientLeavesNoRecord
PROPERTIES CopiesEnd
CHECK_DEADLOCK FALSE
