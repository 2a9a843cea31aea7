\* Two threads, one to four targets.
CONSTANTS
    e1 = e1
    e2 = e2
    e3 = e3
    e4 = e4
    Environment = {e1, e2, e3, e4}
    Unset = Unset
    Batches <- UpToFour
    Jobs = 2
    FailFast = TRUE
    Timeout = TRUE
SPECIFICATION BothSpec
INVARIANTS TypeOK FewLateStarts
PROPERTIES ContractSpec CollectsAll BatchEnds
CHECK_DEADLOCK FALSE
