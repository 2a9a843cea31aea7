--------------------------- MODULE CaptureBudget ---------------------------
(* How much of the output of a batch hb keeps: every stream of every target *)
(* that is run has the same limit, computed once from their number, and the *)
(* report says it.  Targets that could not be prepared are in the report    *)
(* but not in the batch.                                                    *)
EXTENDS Integers

CONSTANTS
    MaxStream,  \* MAX_STREAM_CAPTURE_BYTES
    MaxBatch,   \* MAX_BATCH_CAPTURE_BYTES
    MaxTargets, \* bound: the targets selected
    MaxWritten  \* bound: the bytes a stream writes

BudgetAssumption == {MaxStream, MaxBatch, MaxTargets, MaxWritten} \subseteq Nat

VARIABLES
    phase,    \* "prepared", "running" or "reported"
    selected, \* how many targets are in the report
    run,      \* how many of them are in the batch
    limit,    \* stream_limit of the batch
    wrote,    \* what the command wrote, per stream
    kept,     \* raw.bytes.len(), per stream
    truncated,\* raw.truncated, per stream
    said      \* stream_capture_limit_bytes

vars == <<phase, selected, run, limit, wrote, kept, truncated, said>>

Smaller(a, b) == IF a <= b THEN a ELSE b
Larger(a, b) == IF a >= b THEN a ELSE b

\* effective_stream_capture_limit.
Limit(count) == Smaller(MaxStream, MaxBatch \div Larger(2 * count, 1))

Streams == (1 .. run) \X {"stdout", "stderr"}

Init ==
    /\ phase = "prepared"
    /\ selected \in 1 .. MaxTargets /\ run \in 0 .. selected
    /\ limit = 0 /\ said = 0
    /\ wrote = [s \in Streams |-> 0] /\ kept = [s \in Streams |-> 0]
    /\ truncated = [s \in Streams |-> FALSE]

Start ==
    /\ phase = "prepared" /\ run > 0
    /\ limit' = Limit(run)
    /\ phase' = "running"
    /\ UNCHANGED <<selected, run, wrote, kept, truncated, said>>

\* read_bounded: of each read what is within the limit is kept.
Read(s) ==
    /\ phase = "running"
    /\ \E n \in 1 .. MaxWritten - wrote[s] :
          LET fits == Smaller(limit - kept[s], n)
          IN /\ wrote' = [wrote EXCEPT ![s] = @ + n]
             /\ kept' = [kept EXCEPT ![s] = @ + fits]
             /\ truncated' = [truncated EXCEPT ![s] = @ \/ fits < n]
    /\ UNCHANGED <<phase, selected, run, limit, said>>

\* A deviation that the checked properties must notice stands just before the
\* definition it replaces, and is used nowhere else.
ReportOfAllSelected ==
    /\ phase \in {"prepared", "running"} /\ (phase = "prepared" => run = 0)
    /\ said' = Limit(selected)
    /\ phase' = "reported"
    /\ UNCHANGED <<selected, run, limit, wrote, kept, truncated>>

\* PreparedSshTargets::merge keeps the limit of the batch; without a batch it is
\* that of a report of the selected targets.
Report ==
    /\ phase \in {"prepared", "running"} /\ (phase = "prepared" => run = 0)
    /\ said' = IF phase = "running" THEN Limit(run) ELSE Limit(selected)
    /\ phase' = "reported"
    /\ UNCHANGED <<selected, run, limit, wrote, kept, truncated>>

Next == Start \/ (\E s \in Streams : Read(s)) \/ Report

Spec == Init /\ [][Next]_vars

-----------------------------------------------------------------------------

TypeOK ==
    /\ phase \in {"prepared", "running", "reported"}
    /\ selected \in Nat /\ run \in 0 .. selected
    /\ limit \in Nat /\ said \in Nat
    /\ wrote \in [Streams -> Nat] /\ kept \in [Streams -> Nat]
    /\ truncated \in [Streams -> BOOLEAN]

\* Each stream keeps its share at most, and the shares of all streams are within
\* the budget, whatever number of targets is run.
WithinShare ==
    /\ \A s \in Streams : kept[s] <= limit
    /\ 2 * run * limit <= MaxBatch

\* In a batch small enough for it every stream has MAX_STREAM_CAPTURE_BYTES: what
\* is no longer is kept whole, however many targets could not be prepared.
OrdinaryBatchesKeepAll ==
    2 * run * MaxStream <= MaxBatch =>
        \A s \in Streams : wrote[s] <= MaxStream => kept[s] = wrote[s] /\ ~ truncated[s]

\* The limit in the report is the one that was applied: nothing longer is in it,
\* what is shorter is whole, and what is marked as cut is exactly that long.
SaidLimitIsTheLimit ==
    phase = "reported" =>
        \A s \in Streams :
            /\ kept[s] = Smaller(wrote[s], said)
            /\ truncated[s] = (wrote[s] > said)

\* Every stream has its share, which is enough for an ordinary batch, and the
\* report says the share that was applied.
SharesAreKept ==
    /\ TypeOK
    /\ WithinShare
    /\ OrdinaryBatchesKeepAll
    /\ SaidLimitIsTheLimit
=============================================================================
