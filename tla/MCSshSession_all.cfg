\* Three sessions after one another; two processes at a time, each started twice.
CONSTANTS
    p1 = p1
    p2 = p2
    Process <- TwoProcesses
    MaxStarts = 1
    None = None
    Hosts <- SomeHosts
    Users <- SomeUsers
    Ports <- SomePorts
    RemoteCommands <- AllCommands
    Elsewhere = "numeric"
    MaxSessions = 3
SPECIFICATION BothSpec
INVARIANTS ReachesTheTarget ClientAsMeant SharedAmongOwn
SYMMETRY Symmetry
CHECK_DEADLOCK FALSE
