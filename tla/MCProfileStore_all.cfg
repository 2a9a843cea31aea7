\* Four commands on Unix, three on Windows; any number of commands after one
\* another, and one change by another program;
\* configurations below, at and above the limit.
CONSTANTS
    p1 = p1
    p2 = p2
    p3 = p3
    p4 = p4
    d1 = d1
    d2 = d2
    Process <- Processes
    Nobody = Nobody
    None = None
    Unset = Unset
    MaxConfigBytes = 2
    Spare = 2
    MaxMeddling = 1
    Directory <- TwoDirectories
SPECIFICATION BothSpec
INVARIANTS TypesOK DiskIsSound OnlyOwnFiles SavedLoads
PROPERTY StoreSpec
SYMMETRY Symmetry
CHECK_DEADLOCK FALSE
