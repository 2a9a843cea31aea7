\* One session, of a command that is an option of the client.
CONSTANTS
    p1 = p1
    p2 = p2
    Process <- TwoProcesses
    MaxStarts = 1
    None = None
    Hosts <- SomeHosts
    Users <- SomeUsers
    Ports <- SomePorts
    RemoteCommands <- OneLed
    Elsewhere = "numeric"
    MaxSessions = 1
SPECIFICATION BothSpec
INVARIANT CommandIsRemote
SYMMETRY Symmetry
CHECK_DEADLOCK FALSE
