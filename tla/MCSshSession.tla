---------------------------- MODULE MCSshSession ----------------------------
(* Sessions of OpenSSH clients, and the search for the directory of the     *)
(* connections they share, for TLC.  The two share no state: an initial     *)
(* state is one of one of them, and the other has finished.                 *)
EXTENDS SessionParts, TLC

\* Two environments on one host, and answers that are no targets.
SomeHosts == {"a", "numeric", "dashed", "at"}
SomeUsers == {"u", "v", "dashed", "numeric"}
SomePorts == {"22", "23", "65536"}
Commands == {<<>>, <<"">>, <<"uptime">>, <<"ls", "-l", "uptime">>}

\* Commands led by a dash: to the client an option and a command or none, or
\* nothing it understands.
LedCommands == {<<"-v">>, <<"-o", "HostName", "uptime">>, <<"-p", "23", "-l", "v", "ls">>,
                <<"--", "-v">>, <<"-o", "word">>, <<"-o">>, <<"-Z">>}
AllCommands == Commands \cup LedCommands
OneLed == {<<"-v">>}

CONSTANTS p1, p2

TwoProcesses == {p1, p2}
Symmetry == Permutations(TwoProcesses)

session == vars
directory == <<candidates, entry, probes, step, at, asks, probed, control, alone, starts,
               trouble>>

\* All sessions are over, and none connected.
SessionFinished ==
    /\ mode = "open" /\ remote = <<>>
    /\ pooling = FALSE /\ controlPath = FALSE /\ terminal = FALSE /\ warned = FALSE
    /\ target = Nowhere /\ pc = "failed" /\ arguments = <<>> /\ place = 1
    /\ client = Unread /\ reached = Nowhere /\ sockets = <<>> /\ sessions = MaxSessions

\* No place is to be trusted: every process goes on without pooling.
SharingFinished ==
    /\ candidates = [c \in 1 .. 2 |-> [trusted |-> FALSE, short |-> TRUE]]
    /\ entry = [c \in 1 .. 2 |-> None] /\ probes = {}
    /\ step = [p \in TwoProcesses |-> "done"] /\ at = [p \in TwoProcesses |-> 2]
    /\ asks = [p \in TwoProcesses |-> 3] /\ probed = [p \in TwoProcesses |-> 0]
    /\ control = [p \in TwoProcesses |-> None] /\ alone = [p \in TwoProcesses |-> TRUE]
    /\ starts = [p \in TwoProcesses |-> 1] /\ trouble = FALSE

BothInit ==
    \/ Init /\ SharingFinished
    \/ Sharing!Init /\ SessionFinished

BothNext ==
    \/ Next /\ UNCHANGED directory
    \/ Sharing!Next /\ UNCHANGED session

BothSpec == BothInit /\ [][BothNext]_<<session, directory>>
=============================================================================
