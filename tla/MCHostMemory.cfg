SPECIFICATION Spec
CONSTANTS
    c1 = c1
    c2 = c2
    Clients <- MCClients
    Entries = 3
    MaxFaults = 2
INVARIANTS HostTypeOK CopiesUseTheirBuffer BuffersStayUsable NothingIsLeftBehind
CHECK_DEADLOCK FALSE
SYMMETRY ClientSymmetry
