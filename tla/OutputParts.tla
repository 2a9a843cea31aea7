---------------------------- MODULE OutputParts ----------------------------
(* What hb writes and what it keeps of the output of other programs: the    *)
(* shares of a batch, the bytes in its report, the tools of the doctor, and *)
(* the status and output of any invocation.  Each has variables of its own; *)
(* the four are put side by side to be checked in one run and proved in one *)
(* module.                                                                  *)
EXTENDS Integers, Sequences

CONSTANTS
    MaxStream, MaxBatch, MaxTargets, MaxWritten, \* of CaptureBudget
    Bytes, MostWritten, StreamLimit,            \* of CaptureEncoding
    Probes, Behaviours, CaptureLimit, PipeSize, \* of ToolProbe
    Kinds, WorkCodes, SessionCodes, None        \* of CommandResult

VARIABLES
    phase, selected, run, limit, wrote, kept, truncated, said,
    written, raw, stream,
    does, mayBreak, pc, child, heir, toolWritten, pipe, toolKept, lost, reader,
    expired, outcome, checks,
    kind, machine, yes, terminal, resultPhase, prompted, changed, error, leaves,
    stdout, stderr, failed, exit

Sharing == INSTANCE CaptureBudget

Encoding == INSTANCE CaptureEncoding WITH MaxWritten <- MostWritten

Doctor == INSTANCE ToolProbe WITH written <- toolWritten, kept <- toolKept

Result == INSTANCE CommandResult WITH phase <- resultPhase

ASSUME PartsAssumption ==
    /\ Sharing!BudgetAssumption /\ Encoding!EncodingAssumption
    /\ Doctor!ProbeAssumption /\ Result!ResultAssumption

\* CaptureBudget: every stream has its share, and the report says which.
SharesAreKept == Sharing!SharesAreKept

\* CaptureEncoding: the report holds what the command wrote.
BytesReadBack == Encoding!BytesReadBack

\* ToolProbe: no check is better than what the tool did.
ChecksAreEarned == Doctor!ChecksAreEarned

\* CommandResult: status, output and effect of an invocation agree.
ResultsAgree == Result!ResultsAgree
=============================================================================
