SPECIFICATION Spec
CONSTANTS
    AddrOf <- SharedAddresses
    Val = {1, 2}
    Kinds = {"malloc", "free", "htod"}
    Signals = TRUE
    Unset = {0, 1}
    MaxRestarts = 1
    MaxRecords = 5
INVARIANTS ClientsSeeTheirData
CHECK_DEADLOCK FALSE
