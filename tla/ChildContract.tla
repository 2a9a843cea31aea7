--------------------------- MODULE ChildContract ---------------------------
(* What execute_captured promises the thread of a batch that calls it: one  *)
(* process at most, an outcome for which there is a reason, and no process  *)
(* of the child's group left when it was not allowed to end by itself.      *)
(* SshBatch takes this for granted of each target; CapturedChild implements *)
(* it.                                                                      *)
EXTENDS Naturals

VARIABLES
    timeout,   \* --timeout was given; it never changes
    child,     \* "none", "running" or "gone"
    cancelled, \* the cancellation token
    outcome    \* the state of the TargetExecution returned; "none" before

contractVars == <<timeout, child, cancelled, outcome>>

ContractInit ==
    timeout \in BOOLEAN /\ child = "none" /\ cancelled = FALSE /\ outcome = "none"

Cancel == cancelled' = TRUE /\ UNCHANGED <<timeout, child, outcome>>

Start == child = "none" /\ outcome = "none" /\ child' = "running"
         /\ UNCHANGED <<timeout, cancelled, outcome>>

\* It was never started, for want of usable arguments or of a program.
Refuse == child = "none" /\ outcome = "none" /\ outcome' = "failed"
          /\ UNCHANGED <<timeout, child, cancelled>>

\* The client is gone before its outcome is known.
Reap == child = "running" /\ child' = "gone" /\ UNCHANGED <<timeout, cancelled, outcome>>

Reason(state) ==
    CASE state = "cancelled" -> cancelled
      [] state = "timed_out" -> timeout
      [] OTHER -> TRUE

Return ==
    /\ child = "gone" /\ outcome = "none"
    /\ outcome' \in {"succeeded", "failed", "timed_out", "cancelled"}
    /\ Reason(outcome')
    /\ UNCHANGED <<timeout, child, cancelled>>

ContractNext == Cancel \/ Start \/ Refuse \/ Reap \/ Return

ContractSpec == ContractInit /\ [][ContractNext]_contractVars
=============================================================================
