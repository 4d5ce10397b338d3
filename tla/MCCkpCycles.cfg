SPECIFICATION Spec
CONSTANTS
    AddrOf <- SharedAddresses
    Val = {1}
    Kinds = {"malloc", "free", "htod", "memset"}
    Signals = FALSE
    Unset = {0}
    MaxRestarts = 2
    MaxRecords = 5
INVARIANTS CheckpointTypeOK ClientsKeepTheirMemory NothingLeaks
CHECK_DEADLOCK FALSE
