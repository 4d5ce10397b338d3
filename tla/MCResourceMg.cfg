SPECIFICATION FairSpec
CONSTANTS
    ClientAddr = {0, 1, 2, 3, 4}
    CudaAddr = {7, 8}
    SizeMax = 255
    MaxEntries = 5
    MaxNew = 1
INVARIANTS ManagerTypeOK Sorted ProbesInBounds SearchNarrows
PROPERTIES ImplementsDictionary CallsReturn
