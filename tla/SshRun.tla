------------------------------- MODULE SshRun -------------------------------
(* hb ssh run, from the selected environments to the exit status: the       *)
(* refusals and the confirmation, the SSH coordinates loaded from the       *)
(* provider at most --jobs at a time, fail-fast over the ones that could    *)
(* not be, then one inherited child or a batch, the merge of its results    *)
(* with the failed preparations, the report and the exit status.            *)
(*                                                                          *)
(* The batch is the one SshBatchContract promises, which SshBatch           *)
(* implements.  Selections are what select_environments returns             *)
(* (Selection).                                                             *)
EXTENDS Integers, Sequences, FiniteSets

CONSTANTS
    Environment,
    Selections,  \* sequences of distinct environments
    Jobs,
    Settings,    \* [failFast, yes, interactive]: --fail-fast, --yes; input is a
                 \* terminal, output is not JSON, no --no-input
    None

ASSUME RunAssumption ==
    /\ \A s \in Selections :
          s # <<>> /\ \A i, j \in DOMAIN s : i # j => s[i] # s[j]
    /\ Selections \subseteq Seq(Environment)
    /\ Jobs \in Nat \ {0}
    /\ Settings \subseteq [failFast : BOOLEAN, yes : BOOLEAN, interactive : BOOLEAN]

\* None is no environment, no failure, no outcome of a child and no status.
ASSUME NoneAssumption ==
    /\ None \notin Environment
    /\ \A environment \in Environment, state \in {"failed", "skipped"} :
          None # [environment |-> environment, state |-> state]
    /\ \A end \in {"exited", "timed_out", "io"}, code \in {-1, 0, 3, 256} :
          None # [end |-> end, code |-> code]
    /\ None \notin 0 .. 255

VARIABLES
    phase,
    selected,  \* the environments, in the order of the catalog
    setting,
    broad,     \* the selection was by site, kind, label or --all
    answer,    \* to the confirmation: "none", "yes" or "no"
    loading,   \* per selected environment: "queued", "status", "config", then
               \* "loaded" or "unavailable"
    ssh,       \* per selected environment: the one its coordinates lead to
    ready,     \* PreparedSshTargets.ready: [environment, ssh]
    failures,  \* PreparedSshTargets.failures: None or [environment, state]
    status,    \* of the batch, per ready target
    cancelled, executed,
    inherited, \* the outcome of the inherited child, or None
    signalCode,\* signal_exit_code
    results,   \* the merged report
    exit       \* the exit status of the process, or None

batch == <<status, cancelled, executed>>
prepared == <<loading, ssh, ready, failures>>
outcome == <<inherited, signalCode, results, exit>>
input == <<selected, setting, broad>>
vars == <<phase, input, answer, prepared, batch, outcome>>

\* A batch without and with --fail-fast; they differ in what may be left out.
Batch == INSTANCE SshBatchContract
             WITH targets <- ready, report <- executed, Batches <- {}, FailFast <- FALSE
FailFastBatch == INSTANCE SshBatchContract
             WITH targets <- ready, report <- executed, Batches <- {}, FailFast <- TRUE

\* ErrorCode::exit_code, for the errors this command meets.
ExitOf(code) ==
    CASE code \in {"InvalidArguments", "InvalidInput", "AmbiguousTarget"} -> 2
      [] code = "DependencyMissing" -> 3
      [] code = "AuthenticationFailed" -> 4
      [] code \in {"ProviderUnavailable", "Unavailable"} -> 5
      [] code = "PolicyDenied" -> 6
      [] OTHER -> 1

SignalExit == 130

\* The members of a finite set of slots, in their order.
InOrder(slots) ==
    CHOOSE s \in [1 .. Cardinality(slots) -> slots] :
        \A j, k \in DOMAIN s : j < k => s[j] < s[k]

Init ==
    /\ phase = "validate"
    /\ selected \in Selections
    /\ broad \in BOOLEAN /\ setting \in Settings
    /\ answer = "none"
    /\ loading = [i \in DOMAIN selected |-> "queued"]
    /\ ssh = [i \in DOMAIN selected |-> None]
    /\ ready = <<>> /\ failures = <<>>
    /\ status = <<>> /\ cancelled = FALSE /\ executed = <<>>
    /\ inherited = None /\ signalCode = None
    /\ results = <<>> /\ exit = None

Fails(code) ==
    /\ exit' = ExitOf(code)
    /\ phase' = "done"
    /\ UNCHANGED <<input, answer, prepared, batch, inherited, signalCode, results>>

Moves(place) ==
    /\ phase' = place
    /\ UNCHANGED <<input, prepared, batch, outcome>>

-----------------------------------------------------------------------------
(* Before anything runs.                                                    *)

\* A broad selection that nobody can confirm is refused before the provider
\* is asked for anything.
Denied == ~ setting.interactive /\ broad /\ ~ setting.yes

Validate ==
    /\ phase = "validate"
    /\ IF Denied THEN Fails("PolicyDenied")
       ELSE Moves("catalog") /\ UNCHANGED answer

\* The session, the catalog and the selection.
Resolve ==
    /\ phase = "catalog"
    /\ \/ Moves("confirm") /\ UNCHANGED answer
       \/ \E code \in {"AuthenticationFailed", "ProviderUnavailable", "NotFound",
                       "AmbiguousTarget"} : Fails(code)

NeedsConfirmation == broad /\ ~ setting.yes

Confirm ==
    /\ phase = "confirm"
    /\ IF ~ NeedsConfirmation THEN Moves("client") /\ UNCHANGED answer
       ELSE \/ setting.interactive /\ answer' = "yes" /\ Moves("client")
            \/ Fails("PolicyDenied")

CheckAvailable ==
    /\ phase = "client"
    /\ \/ Moves("load") /\ UNCHANGED answer
       \/ Fails("DependencyMissing")

-----------------------------------------------------------------------------
(* ssh_targets, and KinstaProvider::ssh_target for each.                    *)

InFlight == {i \in DOMAIN loading : loading[i] \in {"status", "config"}}

MayLoad == Cardinality(InFlight) < Jobs

Loading(i, from, to, where) ==
    /\ phase = "load"
    /\ loading[i] = from
    /\ loading' = [loading EXCEPT ![i] = to]
    /\ ssh' = [ssh EXCEPT ![i] = where]
    /\ UNCHANGED <<phase, input, answer, ready, failures, batch, outcome>>

\* The stream takes them in order, and holds Jobs at a time.
StartLoad(i) ==
    /\ \A j \in 1 .. i - 1 : loading[j] # "queued"
    /\ MayLoad
    /\ Loading(i, "queued", "status", None)

\* SSH is enabled, or it is not, or the request fails.
StatusArrives(i) ==
    \E to \in {"config", "unavailable"} : Loading(i, "status", to, None)

\* Deviations that the checked properties must notice stand just before the
\* definition each of them replaces, and are used nowhere else.
\* The provider answers with coordinates and the environment they are of.
IsForAny(environment, i) == TRUE

IsFor(environment, i) == environment = selected[i]

ConfigArrives(i) ==
    \/ \E environment \in Environment :
          /\ IsFor(environment, i)
          /\ Loading(i, "config", "loaded", environment)
    \/ Loading(i, "config", "unavailable", None)

Load == \E i \in DOMAIN selected :
            StartLoad(i) \/ StatusArrives(i) \/ ConfigArrives(i)

Answered(i) == loading[i] \in {"loaded", "unavailable"}
Usable(i) == loading[i] = "loaded"

\* The slots that are ready, in order; the slot of a failure names it.
Split ==
    /\ phase = "load"
    /\ \A i \in DOMAIN selected : Answered(i)
    /\ LET slots == InOrder({i \in DOMAIN selected : Usable(i)})
       IN ready' = [k \in DOMAIN slots |-> [environment |-> selected[slots[k]],
                                            ssh |-> ssh[slots[k]]]]
    /\ failures' = [i \in DOMAIN selected |->
                      IF Usable(i) THEN None
                      ELSE [environment |-> selected[i], state |-> "failed"]]
    /\ phase' = "failfast"
    /\ UNCHANGED <<input, answer, loading, ssh, batch, outcome>>

\* The place in ready of the i-th slot, when that slot is empty of failure.
Rank(i) == Cardinality({j \in 1 .. i : failures[j] = None})

FirstFailure(i) == failures[i] # None /\ \A j \in 1 .. i - 1 : failures[j] = None

SkippedFromTheEnd(i) ==
    [environment |-> IF failures[i] # None THEN failures[i].environment
                     ELSE ready[Len(ready)].environment,
     state |-> "skipped"]

Skipped(i) ==
    [environment |-> IF failures[i] # None THEN failures[i].environment
                     ELSE ready[Rank(i)].environment,
     state |-> "skipped"]

\* What stands after the first failure is skipped, whether or not it failed.
ApplyFailFast ==
    /\ phase = "failfast"
    /\ IF setting.failFast /\ \E i \in DOMAIN failures : failures[i] # None
       THEN \E first \in DOMAIN failures :
               /\ FirstFailure(first)
               /\ failures' = [i \in DOMAIN failures |->
                                 IF i > first THEN Skipped(i) ELSE failures[i]]
               /\ ready' = SubSeq(ready, 1, first - 1)
       ELSE UNCHANGED <<ready, failures>>
    /\ phase' = "dispatch"
    /\ UNCHANGED <<input, answer, loading, ssh, batch, outcome>>

-----------------------------------------------------------------------------
(* One inherited child, or the batch.                                       *)

Single ==
    /\ Len(ready) = 1 /\ setting.interactive
    /\ \A i \in DOMAIN failures : failures[i] = None

StatusCodeTruncated(code) == code % 256

\* process_status_code: what does not fit a status is 1.
StatusCode(code) == IF code \in 0 .. 255 THEN code ELSE 1

\* It exits with a code (-1: by a signal), runs out of time, or cannot be
\* started or waited for.
RunInherited ==
    /\ phase = "dispatch" /\ Single
    /\ \E end \in {"exited", "timed_out", "io"}, code \in {-1, 0, 3, 256} :
          /\ inherited' = [end |-> end, code |-> code]
          /\ exit' = CASE end = "exited" -> StatusCode(code)
                       [] end = "timed_out" -> ExitOf("RemoteExecutionFailed")
                       [] OTHER -> ExitOf("Io")
    /\ phase' = "done"
    /\ UNCHANGED <<input, answer, prepared, batch, signalCode, results>>

Dispatch ==
    /\ phase = "dispatch" /\ ~ Single
    /\ IF ready = <<>>
       THEN phase' = "merge" /\ UNCHANGED status
       ELSE phase' = "batch" /\ status' = [k \in DOMAIN ready |-> "queued"]
    /\ UNCHANGED <<input, answer, prepared, cancelled, executed, outcome>>

RunBatch ==
    /\ phase = "batch" /\ executed = <<>>
    /\ \/ \E k \in DOMAIN ready :
             \/ Batch!Start(k)
             \/ \E state \in Batch!Outcome : Batch!Finish(k, state)
       \/ \E reason \in {"cancelled", "skipped"} :
             IF setting.failFast THEN FailFastBatch!Report(reason) ELSE Batch!Report(reason)
    /\ UNCHANGED <<phase, input, answer, loading, ssh, failures, outcome>>

\* The code of the signal is asked for only if it took effect; then the guard
\* is dropped.
LeaveBatch ==
    /\ phase = "batch" /\ executed # <<>>
    /\ signalCode' = IF \E k \in DOMAIN executed : executed[k].state = "cancelled"
                     THEN SignalExit ELSE None
    /\ phase' = "merge"
    /\ UNCHANGED <<input, answer, prepared, batch, inherited, results, exit>>

-----------------------------------------------------------------------------
(* The report.                                                              *)

Ran(i) == failures[i] = None /\ Rank(i) <= Len(executed)

Merged(i) ==
    IF failures[i] # None THEN failures[i]
    ELSE [environment |-> executed[Rank(i)].target.environment,
          state |-> executed[Rank(i)].state]

\* The results of the batch are taken in turn for the slots without a failure.
Merge ==
    /\ phase = "merge"
    /\ LET filled == InOrder({i \in DOMAIN failures : failures[i] # None \/ Ran(i)})
       IN results' = [k \in DOMAIN filled |-> Merged(filled[k])]
    /\ phase' = "report"
    /\ UNCHANGED <<input, answer, prepared, batch, inherited, signalCode, exit>>

Succeeded == \A i \in DOMAIN results : results[i].state = "succeeded"

\* The report is written, or that fails.
Report ==
    /\ phase = "report"
    /\ \/ exit' = IF Succeeded THEN 0
                  ELSE IF signalCode # None THEN signalCode ELSE 1
       \/ exit' = ExitOf("Io")
    /\ phase' = "done"
    /\ UNCHANGED <<input, answer, prepared, batch, inherited, signalCode, results>>

-----------------------------------------------------------------------------
(* SIGINT.                                                                  *)

\* In the batch the first signal cancels and the second ends the process.
SignalInBatch ==
    /\ phase = "batch"
    /\ IF ~ cancelled
       THEN Batch!Cancel /\ UNCHANGED <<phase, exit>>
       ELSE exit' = SignalExit /\ phase' = "killed" /\ UNCHANGED batch
    /\ UNCHANGED <<input, answer, prepared, inherited, signalCode, results>>

\* Before it, no handler is installed.
SignalBeforeBatch ==
    /\ phase \in {"catalog", "confirm", "client", "load", "failfast"}
    /\ exit' = SignalExit
    /\ phase' = "killed"
    /\ UNCHANGED <<input, answer, prepared, batch, inherited, signalCode, results>>

\* After it, the guard has unregistered its actions; the library leaves its own
\* handler installed, which then does nothing.
GuardWasInstalled == ready # <<>>

SignalAfterBatch ==
    /\ phase \in {"merge", "report"}
    /\ ~ GuardWasInstalled
    /\ exit' = SignalExit
    /\ phase' = "killed"
    /\ UNCHANGED <<input, answer, prepared, batch, inherited, signalCode, results>>

Command ==
    \/ Validate \/ Resolve \/ Confirm \/ CheckAvailable
    \/ Load \/ Split \/ ApplyFailFast
    \/ RunInherited \/ Dispatch \/ RunBatch \/ LeaveBatch
    \/ Merge \/ Report

Next == Command \/ SignalBeforeBatch \/ SignalInBatch \/ SignalAfterBatch

Spec == Init /\ [][Next]_vars

-----------------------------------------------------------------------------

TypeOK ==
    /\ phase \in {"validate", "catalog", "confirm", "client", "load", "failfast",
                  "dispatch", "batch", "merge", "report", "done", "killed"}
    /\ exit \in {None} \cup (0 .. 255)
    /\ \A i \in DOMAIN loading :
          /\ loading[i] \in {"queued", "status", "config", "loaded", "unavailable"}
          /\ ssh[i] \in Environment \cup {None}
    /\ Len(ready) <= Len(selected)
    /\ DOMAIN status \subseteq DOMAIN ready

Attempted(k) == k \in DOMAIN status /\ status[k] # "queued"

RanWell(environment) ==
    \E k \in DOMAIN status : ready[k].environment = environment
                             /\ status[k] = "succeeded"

\* The report has one result for each selected environment, in the order of
\* the selection, under its own name; and a result is a success exactly when
\* the command succeeded in that environment.
OneResultEach ==
    phase = "report" =>
        /\ Len(results) = Len(selected)
        /\ \A i \in DOMAIN results :
              /\ results[i].environment = selected[i]
              /\ (results[i].state = "succeeded") = RanWell(selected[i])

\* The command is only ever run where the provider said the selected
\* environment is, never at the coordinates of another one.
ReachedWhereSelected ==
    /\ \A k \in DOMAIN ready :
          /\ \E i \in DOMAIN selected : ready[k].environment = selected[i]
          /\ ready[k].ssh = ready[k].environment
    /\ inherited # None => <<ready[1].environment>> = selected

\* Nothing is run on a broad selection that was not confirmed, by an answer
\* or by --yes.
NothingUnconfirmed ==
    ((\E k \in DOMAIN ready : Attempted(k)) \/ inherited # None)
        => ~ broad \/ setting.yes \/ answer = "yes"

\* With --fail-fast nothing is started in an environment that stands after
\* one whose coordinates could not be loaded.
FailFastStopsLater ==
    setting.failFast =>
        \A i, j \in DOMAIN selected :
            i < j /\ loading[i] = "unavailable" =>
                ~ \E k \in DOMAIN ready : ready[k].environment = selected[j]
                                          /\ Attempted(k)

\* A process that exits with status 0 ran the command in every selected
\* environment and each succeeded: neither a status that does not fit a byte,
\* nor a skipped or unavailable target, nor a signal looks like success.
ZeroIsSuccess ==
    exit = 0 =>
        \/ inherited = [end |-> "exited", code |-> 0]
        \/ \A i \in DOMAIN selected : RanWell(selected[i])

\* --jobs bounds the coordinates being loaded and the children, together.
JobsBound ==
    Cardinality(InFlight) + Cardinality({k \in DOMAIN status : status[k] = "running"})
        <= Jobs

\* The command is started where it may be: in the selected environments, after a
\* confirmation, not behind a failure with --fail-fast, and --jobs at a time.
StartedOnlyWhereItMay ==
    /\ TypeOK
    /\ ReachedWhereSelected
    /\ NothingUnconfirmed
    /\ FailFastStopsLater
    /\ JobsBound
=============================================================================
