------------------------------ MODULE SshBatch ------------------------------
(***************************************************************************)
(* OpenSsh::run_batch: min(Jobs, targets) scoped threads claim targets     *)
(* from one atomic counter, run one captured ssh child each at a time, and *)
(* put the result in the target's slot; the calling thread joins them and  *)
(* writes the report.  A worker looks at the stop flag and at the          *)
(* cancellation before it claims and again before it starts what it has    *)
(* claimed.  The first signal cancels; a second one ends the process.      *)
(***************************************************************************)
EXTENDS Integers, Sequences, FiniteSets

CONSTANTS Environment, Batches, Jobs, FailFast,
          Timeout,  \* TRUE: --timeout was given
          Unset     \* no result

ASSUME BatchAssumption ==
    /\ Batches \subseteq Seq(Environment)
    /\ <<>> \notin Batches
    /\ Jobs \in Nat \ {0}
    /\ FailFast \in BOOLEAN
    /\ Timeout \in BOOLEAN
    /\ Unset \notin {"succeeded", "failed", "timed_out", "cancelled"}

VARIABLES
    targets,    \* the batch
    next,       \* the next index to claim
    stop,       \* stop_scheduling
    cancelled,  \* the cancellation token
    worker,     \* the threads
    child,      \* per target, its process: "none", "running" or "gone"
    slots,      \* result_slots
    main,       \* where the calling thread stands; "killed": the process ended
    reason,     \* what the calling thread will report of an empty slot
    report,
    late        \* history: targets started after the stop flag was set

vars == <<targets, next, stop, cancelled, worker, child, slots, main, reason,
          report, late>>

-----------------------------------------------------------------------------
Outcome == {"succeeded", "failed", "timed_out", "cancelled"}
Worker  == 1..Jobs
Index   == DOMAIN targets

\* A worker holds a claim from fetch_add to the store in the slot.
Holding == {"recheck", "execute", "wait", "notice", "store"}
Pc      == {"check", "claim", "done"} \union Holding

Thread == [pc: Pc, index: Nat, outcome: Outcome \union {Unset}]

\* Deviations that the checked properties must notice stand just before the
\* definition each of them replaces, and are used nowhere else.
HaltedByCancellation == cancelled

Halted == cancelled \/ (FailFast /\ stop)

Goto(w, pc) == worker' = [worker EXCEPT ![w].pc = pc]

\* Only a process that still exists takes steps.
At(w, pc) == worker[w].pc = pc /\ main # "killed"

\* The top of the loop.
Check(w) ==
    /\ At(w, "check")
    /\ Goto(w, IF Halted THEN "done" ELSE "claim")
    /\ UNCHANGED <<targets, next, stop, cancelled, child, slots, main, reason,
                   report, late>>

ClaimPastTheEnd(w) ==
    /\ At(w, "claim")
    /\ next' = next + 1
    /\ worker' = [worker EXCEPT ![w].index = next,
                                ![w].pc = IF next > Len(targets) + 1
                                          THEN "done" ELSE "recheck"]
    /\ UNCHANGED <<targets, stop, cancelled, child, slots, main, reason,
                   report, late>>

\* next.fetch_add(1)
Claim(w) ==
    /\ At(w, "claim")
    /\ next' = next + 1
    /\ worker' = [worker EXCEPT ![w].index = next,
                                ![w].pc = IF next > Len(targets)
                                          THEN "done" ELSE "recheck"]
    /\ UNCHANGED <<targets, stop, cancelled, child, slots, main, reason,
                   report, late>>

\* The claim of a worker that leaves here is nobody's.
Recheck(w) ==
    /\ At(w, "recheck")
    /\ Goto(w, IF Halted THEN "done" ELSE "execute")
    /\ UNCHANGED <<targets, next, stop, cancelled, child, slots, main, reason,
                   report, late>>

Ended(w, outcome) ==
    worker' = [worker EXCEPT ![w].pc = "notice", ![w].outcome = outcome]

\* execute_captured starts the child, or fails: unusable coordinates, no ssh.
Execute(w) ==
    /\ At(w, "execute")
    /\ \/ /\ child' = [child EXCEPT ![worker[w].index] = "running"]
          /\ Goto(w, "wait")
          /\ late' = IF FailFast /\ stop THEN late + 1 ELSE late
       \/ /\ Ended(w, "failed")
          /\ UNCHANGED <<child, late>>
    /\ UNCHANGED <<targets, next, stop, cancelled, slots, main, reason, report>>

\* The child is reaped, or the group killed and reaped, before the outcome is
\* known.
Reaped(w, outcome) ==
    /\ At(w, "wait")
    /\ child' = [child EXCEPT ![worker[w].index] = "gone"]
    /\ Ended(w, outcome)
    /\ UNCHANGED <<targets, next, stop, cancelled, slots, main, reason, report,
                   late>>

\* It ended by itself, or waiting for it or reading its output failed ...
Exit(w) == \E outcome \in {"succeeded", "failed"} : Reaped(w, outcome)

KillWithinTheLimit(w) == cancelled /\ Timeout /\ Reaped(w, "cancelled")

\* ... or a poll saw the cancellation or the end of its time first.
Kill(w)   == cancelled /\ Reaped(w, "cancelled")
Expire(w) == Timeout /\ Reaped(w, "timed_out")

Notice(w) ==
    /\ At(w, "notice")
    /\ stop' = (stop \/ (FailFast /\ worker[w].outcome # "succeeded"))
    /\ Goto(w, "store")
    /\ UNCHANGED <<targets, next, cancelled, child, slots, main, reason, report,
                   late>>

StoreInCompletionOrder(w) ==
    /\ At(w, "store")
    /\ \E i \in Index :
          /\ slots[i] = Unset
          /\ \A j \in Index : j < i => slots[j] # Unset
          /\ slots' = [slots EXCEPT ![i] = worker[w].outcome]
    /\ worker' = [worker EXCEPT ![w].pc = "check", ![w].outcome = Unset]
    /\ UNCHANGED <<targets, next, stop, cancelled, child, main, reason, report,
                   late>>

Store(w) ==
    /\ At(w, "store")
    /\ slots' = [slots EXCEPT ![worker[w].index] = worker[w].outcome]
    /\ worker' = [worker EXCEPT ![w].pc = "check", ![w].outcome = Unset]
    /\ UNCHANGED <<targets, next, stop, cancelled, child, main, reason, report,
                   late>>

-----------------------------------------------------------------------------
\* The scope ends when every thread has; then the cancellation is read once.
JoinTheFirst ==
    /\ main = "scope"
    /\ \E w \in Worker : w <= Len(targets) /\ worker[w].pc = "done"
    /\ main' = "collect"
    /\ reason' = IF cancelled THEN "cancelled" ELSE "skipped"
    /\ UNCHANGED <<targets, next, stop, cancelled, worker, child, slots, report,
                   late>>

Join ==
    /\ main = "scope"
    /\ \A w \in Worker : worker[w].pc = "done"
    /\ main' = "collect"
    /\ reason' = IF cancelled THEN "cancelled" ELSE "skipped"
    /\ UNCHANGED <<targets, next, stop, cancelled, worker, child, slots, report,
                   late>>

Collect ==
    /\ main = "collect"
    /\ main' = "done"
    /\ report' = [i \in Index |->
                    [target |-> targets[i],
                     state  |-> IF slots[i] = Unset THEN reason ELSE slots[i]]]
    /\ UNCHANGED <<targets, next, stop, cancelled, worker, child, slots, reason,
                   late>>

\* SIGINT or SIGTERM.
Signal ==
    /\ main \in {"scope", "collect"}
    /\ \/ /\ ~cancelled
          /\ cancelled' = TRUE
          /\ UNCHANGED main
       \/ /\ cancelled
          /\ main' = "killed"
          /\ UNCHANGED cancelled
    /\ UNCHANGED <<targets, next, stop, worker, child, slots, reason, report, late>>

-----------------------------------------------------------------------------
Init ==
    /\ targets \in Batches
    /\ next = 1
    /\ stop = FALSE
    /\ cancelled = FALSE
    /\ worker = [w \in Worker |->
                   [pc |-> IF w <= Len(targets) THEN "check" ELSE "done",
                    index |-> 0, outcome |-> Unset]]
    /\ child = [i \in Index |-> "none"]
    /\ slots = [i \in Index |-> Unset]
    /\ main = "scope"
    /\ reason = "skipped"
    /\ report = <<>>
    /\ late = 0

\* What a thread does by itself; a child that ends is not its doing.
Step(w) ==
    \/ Check(w) \/ Claim(w) \/ Recheck(w) \/ Execute(w) \/ Kill(w) \/ Expire(w)
    \/ Notice(w) \/ Store(w)

Next == (\E w \in Worker : Step(w) \/ Exit(w)) \/ Join \/ Collect \/ Signal

Spec == Init /\ [][Next]_vars

\* Threads run; a poll finds the cancellation, and a time limit is reached.
\* Nothing makes a remote command end, or a user send a signal.
FairSpec ==
    /\ Spec
    /\ \A w \in Worker : WF_vars(Step(w))
    /\ WF_vars(Join \/ Collect)

-----------------------------------------------------------------------------
\* The shape of every variable.
TypeOK ==
    /\ targets \in Batches
    /\ next \in Nat
    /\ stop \in BOOLEAN
    /\ cancelled \in BOOLEAN
    /\ worker \in [Worker -> Thread]
    /\ \A w \in Worker : worker[w].pc \in Holding => worker[w].index \in Index
    /\ child \in [Index -> {"none", "running", "gone"}]
    /\ slots \in [Index -> Outcome \union {Unset}]
    /\ main \in {"scope", "collect", "done", "killed"}
    /\ reason \in {"cancelled", "skipped"}
    /\ late \in Nat

\* The status of a target, seen from outside: its outcome as soon as its worker
\* has it.
Known(i, outcome) ==
    \/ slots[i] = outcome
    \/ \E w \in Worker : /\ worker[w].pc \in {"notice", "store"}
                         /\ worker[w].index = i
                         /\ worker[w].outcome = outcome

status == [i \in Index |->
             IF \E outcome \in Outcome : Known(i, outcome)
             THEN CHOOSE outcome \in Outcome : Known(i, outcome)
             ELSE IF child[i] = "running" THEN "running" ELSE "queued"]

\* The threads keep the promise made for a batch: at most once, at most Jobs at
\* a time, nothing left running, one result per target in order, and no claim
\* dropped on the way out but under a cancellation or a fail-fast stop.
Contract == INSTANCE SshBatchContract
ContractSpec == Contract!Spec

\* No two threads ever hold the same claim, so no slot is written twice and no
\* child is started under another thread's eyes.
OneThreadPerTarget ==
    \A v, w \in Worker :
        /\ worker[v].pc \in Holding
        /\ worker[w].pc \in Holding
        /\ worker[v].index = worker[w].index
        => v = w

\* Fail-fast: once the stop flag is set, only what the other threads had already
\* decided to start still starts: fewer targets than there are threads.
FewLateStarts == late < Jobs

\* A cancelled batch is reported, however long its commands would run, unless a
\* second signal ends the process first.
CancelledBatchEnds == cancelled ~> (main \in {"done", "killed"})

\* With a time limit per target every batch ends.
TimedBatchEnds == <>(main \in {"done", "killed"})
=============================================================================
