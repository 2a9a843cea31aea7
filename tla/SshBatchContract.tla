-------------------------- MODULE SshBatchContract --------------------------
(***************************************************************************)
(* What `hb ssh run` promises of a batch, with no threads: every target is *)
(* started at most once and never more than Jobs at a time; the report is  *)
(* written when nothing runs any more, with one result per target, in the  *)
(* order of the targets; and a target is left out only when the batch was  *)
(* cancelled, or fail-fast was asked for and a target did fail.            *)
(***************************************************************************)
EXTENDS Integers, Sequences, FiniteSets

CONSTANTS Environment,  \* the environments a target can be
          Batches,      \* the sequences of targets a batch may be run on
          Jobs,         \* --jobs
          FailFast      \* --fail-fast

VARIABLES targets,    \* the batch
          status,     \* per target: "queued", "running" or its outcome
          cancelled,  \* a signal asked for cancellation
          report      \* the results, <<>> until there is a report

vars == <<targets, status, cancelled, report>>

Outcome == {"succeeded", "failed", "timed_out", "cancelled"}

Running == {i \in DOMAIN status : status[i] = "running"}
Failed  == {i \in DOMAIN status : status[i] \in Outcome \ {"succeeded"}}

Init ==
    /\ targets \in Batches
    /\ status = [i \in DOMAIN targets |-> "queued"]
    /\ cancelled = FALSE
    /\ report = <<>>

Cancel ==
    /\ cancelled' = TRUE
    /\ UNCHANGED <<targets, status, report>>

Start(i) ==
    /\ status[i] = "queued"
    /\ Cardinality(Running) < Jobs
    /\ report = <<>>
    /\ status' = [status EXCEPT ![i] = "running"]
    /\ UNCHANGED <<targets, cancelled, report>>

\* The command ended, by itself or not; or the target could not be started.
Finish(i, outcome) ==
    /\ report = <<>>
    /\ \/ status[i] = "running"
       \/ status[i] = "queued" /\ outcome = "failed"
    /\ outcome = "cancelled" => cancelled
    /\ status' = [status EXCEPT ![i] = outcome]
    /\ UNCHANGED <<targets, cancelled, report>>

\* Targets that never started all get the same reason.
Report(reason) ==
    /\ report = <<>>
    /\ Running = {}
    /\ (\E i \in DOMAIN status : status[i] = "queued") =>
          \/ reason = "cancelled" /\ cancelled
          \/ reason = "skipped" /\ FailFast /\ Failed # {}
    /\ report' = [i \in DOMAIN targets |->
                    [target |-> targets[i],
                     state  |-> IF status[i] = "queued" THEN reason ELSE status[i]]]
    /\ UNCHANGED <<targets, status, cancelled>>

Next ==
    \/ Cancel
    \/ \E i \in DOMAIN targets : \/ Start(i)
                                 \/ \E outcome \in Outcome : Finish(i, outcome)
    \/ \E reason \in {"cancelled", "skipped"} : Report(reason)

Spec == Init /\ [][Next]_vars
=============================================================================
