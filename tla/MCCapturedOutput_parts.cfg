\* Limits 3, 2 and 1 for one, two and three targets; streams of up to 4 bytes.
\* Of up to five bytes four are kept in a report; of each stream of a tool two reads,
\* and a pipe holds one; every kind of command with every failing write.
\* Every line of four options or names, and of four options after ssh run.
CONSTANTS
    MaxStream = 3
    MaxBatch = 8
    MaxTargets = 3
    MaxWritten = 4
    Bytes <- SomeBytes
    MostWritten = 5
    StreamLimit = 4
    Probes <- SshAndSftp
    Behaviours <- Tools
    CaptureLimit = 2
    PipeSize = 1
    Kinds <- AllKinds
    WorkCodes <- SomeErrors
    SessionCodes <- SomeStatuses
    None = None
    Argument <- Arguments
    Prefixes <- Starts
    MaxMore = 4
SPECIFICATION OutputSpec
INVARIANTS SharesAreKept BytesReadBack ChecksAreEarned ResultsAgree
           ReadersAgree
PROPERTY NoToolStalls
CHECK_DEADLOCK FALSE
