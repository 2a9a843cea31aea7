--------------------------- MODULE CapturedChild ---------------------------
(* One captured ssh child: execute_captured starts it in a group of its     *)
(* own, two threads read its pipes, the worker polls it until it ends, is   *)
(* cancelled, runs out of time or can no longer be read, then waits for the *)
(* readers until one shared deadline, judges, and lets the group go or      *)
(* kills it.  run_inherited is the same without streams, and without a      *)
(* group of the child's own: only ssh itself is killed.                     *)
(*                                                                          *)
(* The child may fork one descendant (a control master, a ProxyCommand):    *)
(* it inherits both pipes, may close them, and may leave the group.  Output *)
(* is counted in units; a kill takes effect at once.                        *)
EXTENDS ChildContract, FiniteSets

CONSTANTS
    Streams,   \* stdout and stderr
    Calls,     \* the calls, and what ssh does in each: [captured, timeout,
               \* output, ends, breaks]
    PipeSize,  \* what a pipe holds before a writer blocks
    Limit      \* stream_limit

\* captured: execute_captured or run_inherited; output: what ssh writes to each
\* stream before it ends; ends: it does end then; breaks: a read, a wait or a
\* poll may fail.
ASSUME CaptureAssumption ==
    /\ PipeSize \in Nat \ {0} /\ Limit \in Nat
    /\ \A c \in Calls :
          /\ {c.captured, c.timeout, c.ends, c.breaks} \subseteq BOOLEAN
          /\ DOMAIN c.output \subseteq Streams
          /\ c.captured => DOMAIN c.output # {}
          /\ \A s \in DOMAIN c.output : c.output[s] \in Nat

VARIABLES
    call,          \* the call of this behaviour; it never changes
    pc,            \* where the worker is in execute_captured
    exit,          \* how ssh ended: "none", "ok", "error" or "killed"
    heir,          \* the descendant: "none", "running" or "gone"
    group,         \* the processes of the group that run
    holds,         \* the processes that hold the pipes open
    written, pipe, kept, lost, \* per stream: written, unread, kept, dropped
    reader,        \* per stream: "reading", "broken" or "ended"
    message,       \* per stream: what the reader sent: "none", "whole", "broken"
    captureFailed, \* the flag the readers raise
    expired,       \* the time of the target is over
    drained,       \* the time to wait for the readers is over
    verdict,       \* the ProcessOutcome, or "wait_failed"
    got,           \* per stream: what finish_capture returned
    cleanup        \* cleanup_required

Output == call.output
MayBreak == call.breaks

\* The streams that are captured.
Stream == IF call.captured THEN DOMAIN Output ELSE {}

processes == <<exit, heir, group, holds>>
streams == <<written, pipe, kept, lost, reader, message, captureFailed>>
clocks == <<call, timeout, expired, drained>>
worker == <<pc, verdict, got, cleanup, child, outcome>>
vars == <<processes, streams, clocks, worker, cancelled>>

Init ==
    /\ call \in Calls
    /\ ContractInit /\ timeout = call.timeout
    /\ pc = "spawn" /\ exit = "none" /\ heir = "none"
    /\ group = {} /\ holds = {}
    /\ written = [s \in Stream |-> 0] /\ pipe = written
    /\ kept = written /\ lost = written
    /\ reader = [s \in Stream |-> "reading"]
    /\ message = [s \in Stream |-> "none"] /\ got = message
    /\ captureFailed = FALSE /\ expired = FALSE /\ drained = FALSE
    /\ verdict = "none" /\ cleanup = FALSE

Started == child # "none"

-----------------------------------------------------------------------------
(* ssh and its descendant.                                                  *)

Write(s) ==
    /\ "ssh" \in group
    /\ written[s] < Output[s] /\ pipe[s] < PipeSize
    /\ written' = [written EXCEPT ![s] = @ + 1]
    /\ pipe' = [pipe EXCEPT ![s] = @ + 1]
    /\ UNCHANGED <<processes, kept, lost, reader, message, captureFailed,
                   clocks, worker, cancelled>>

SshExits ==
    /\ "ssh" \in group
    /\ \A s \in Stream : written[s] = Output[s]
    /\ exit' \in {"ok", "error"}
    /\ group' = group \ {"ssh"}
    /\ holds' = holds \ {"ssh"}
    /\ UNCHANGED <<heir, streams, clocks, worker, cancelled>>

Fork ==
    /\ "ssh" \in group /\ heir = "none"
    /\ heir' = "running"
    /\ group' = group \cup {"heir"}
    /\ holds' = holds \cup {"heir"}
    /\ UNCHANGED <<exit, streams, clocks, worker, cancelled>>

\* The descendant leaves the group, closes the pipes, or ends.
HeirSteps ==
    /\ heir = "running"
    /\ \/ group' = group \ {"heir"} /\ UNCHANGED <<holds, heir>>
       \/ holds' = holds \ {"heir"} /\ UNCHANGED <<group, heir>>
       \/ heir' = "gone" /\ group' = group \ {"heir"} /\ holds' = holds \ {"heir"}
    /\ UNCHANGED <<exit, streams, clocks, worker, cancelled>>

\* terminate_and_reap, when it is still required: every process of the group,
\* or ssh alone, is killed, then ssh is waited for.
Victims == IF call.captured THEN group ELSE group \cap {"ssh"}

KillAndReap ==
    /\ exit' = IF "ssh" \in Victims THEN "killed" ELSE exit
    /\ heir' = IF "heir" \in Victims THEN "gone" ELSE heir
    /\ group' = group \ Victims
    /\ holds' = holds \ Victims

-----------------------------------------------------------------------------
(* The reader of a stream: read_bounded in capture_in_background.           *)

Minimum(a, b) == IF a < b THEN a ELSE b

\* Deviations that the checked properties must notice stand just before the
\* definition each of them replaces, and are used nowhere else.
ReadUnbounded(s) ==
    /\ Started /\ reader[s] = "reading"
    /\ pipe[s] > 0
    /\ kept' = [kept EXCEPT ![s] = @ + pipe[s]]
    /\ pipe' = [pipe EXCEPT ![s] = 0]
    /\ UNCHANGED <<processes, written, lost, reader, message, captureFailed,
                   clocks, worker, cancelled>>

\* It keeps what is within the limit and drains the rest.
Read(s) ==
    /\ Started /\ reader[s] = "reading"
    /\ pipe[s] > 0
    /\ LET fits == Minimum(Limit - kept[s], pipe[s])
       IN /\ kept' = [kept EXCEPT ![s] = @ + fits]
          /\ lost' = [lost EXCEPT ![s] = @ + pipe[s] - fits]
    /\ pipe' = [pipe EXCEPT ![s] = 0]
    /\ UNCHANGED <<processes, written, reader, message, captureFailed, clocks,
                   worker, cancelled>>

Send(s, what) ==
    /\ reader' = [reader EXCEPT ![s] = "ended"]
    /\ message' = [message EXCEPT ![s] = what]

EndOfFile(s) ==
    /\ Started /\ reader[s] = "reading"
    /\ pipe[s] = 0 /\ holds = {}
    /\ Send(s, "whole")
    /\ UNCHANGED <<processes, written, pipe, kept, lost, captureFailed, clocks,
                   worker, cancelled>>

\* A read fails, or the thread panics: the flag first, then the message or
\* the disconnection.
ReadFails(s) ==
    /\ MayBreak
    /\ Started /\ reader[s] = "reading"
    /\ captureFailed' = TRUE
    /\ reader' = [reader EXCEPT ![s] = "broken"]
    /\ UNCHANGED <<processes, written, pipe, kept, lost, message, clocks,
                   worker, cancelled>>

SendBroken(s) ==
    /\ reader[s] = "broken"
    /\ Send(s, "broken")
    /\ UNCHANGED <<processes, written, pipe, kept, lost, captureFailed, clocks,
                   worker, cancelled>>

Reader(s) == Read(s) \/ EndOfFile(s) \/ SendBroken(s)

-----------------------------------------------------------------------------
(* The worker.                                                              *)

Goto(place) == pc' = place
Quiet == UNCHANGED <<processes, streams, clocks, cancelled>>

\* build_arguments or the spawn fails, or the child runs.
Spawn ==
    /\ pc = "spawn"
    /\ child' = "running" /\ cleanup' = TRUE
    /\ group' = {"ssh"} /\ holds' = {"ssh"}
    /\ Goto("poll")
    /\ UNCHANGED <<exit, heir, streams, clocks, cancelled, verdict, got, outcome>>

SpawnFails ==
    /\ pc = "spawn"
    /\ outcome' = "failed"
    /\ Goto("done")
    /\ Quiet /\ UNCHANGED <<verdict, got, cleanup, child>>

\* The outcome of wait_for_child; the drain of the pipes begins.
Decide(what) ==
    /\ verdict' = what
    /\ child' = "gone"
    /\ Goto("drain")

Exited == exit \in {"ok", "error"}

PollExited ==
    /\ pc = "poll" /\ Exited
    /\ Decide("exited")
    /\ Quiet /\ UNCHANGED <<got, cleanup, outcome>>

PollAtLeisure ==
    /\ pc = "poll"
    /\ Goto("cancellation")
    /\ Quiet /\ UNCHANGED <<verdict, got, cleanup, child, outcome>>

PollRunning ==
    /\ pc = "poll" /\ ~ Exited
    /\ Goto("cancellation")
    /\ Quiet /\ UNCHANGED <<verdict, got, cleanup, child, outcome>>

\* One test of the loop: what is true ends the child, else the next test.
Test(place, holdsNow, what, next) ==
    /\ pc = place
    /\ IF holdsNow
       THEN KillAndReap /\ Decide(what) /\ cleanup' = FALSE
       ELSE Goto(next) /\ UNCHANGED <<processes, verdict, child, cleanup>>
    /\ UNCHANGED <<streams, clocks, cancelled, got, outcome>>

TestCancellation == Test("cancellation", cancelled, "cancelled", "time")
TimeIsCancellation == Test("time", timeout /\ expired, "cancelled", "capture")

TestTime == Test("time", timeout /\ expired, "timed_out", "capture")

TestCapture == Test("capture", captureFailed, "capture_failed", "poll")

\* try_wait fails, or the wait after the kill does; the latter leaves the
\* cleanup to the end of the call.
WaitFails ==
    /\ MayBreak
    /\ pc \in {"poll", "cancellation", "time", "capture"}
    /\ pc = "cancellation" => cancelled
    /\ pc = "time" => timeout /\ expired
    /\ pc = "capture" => captureFailed
    /\ KillAndReap
    /\ Decide("wait_failed")
    /\ cleanup' \in (IF pc = "poll" THEN BOOLEAN ELSE {TRUE})
    /\ UNCHANGED <<streams, clocks, cancelled, got, outcome>>

DrainToTheEnd(s) ==
    /\ pc = "drain" /\ got[s] = "none" /\ message[s] # "none"
    /\ got' = [got EXCEPT ![s] = message[s]]
    /\ Quiet /\ UNCHANGED <<pc, verdict, cleanup, child, outcome>>

\* finish_capture of one stream: what its reader sent, else a failed capture
\* once the deadline they share is over, so that their order is immaterial.
Drain(s) ==
    /\ pc = "drain" /\ got[s] = "none"
    /\ IF message[s] # "none"
       THEN got' = [got EXCEPT ![s] = message[s]]
       ELSE drained /\ got' = [got EXCEPT ![s] = "broken"]
    /\ Quiet /\ UNCHANGED <<pc, verdict, cleanup, child, outcome>>

AllDrained == pc = "drain" /\ \A s \in Stream : got[s] # "none"

UnreadableWhenPolled == verdict = "capture_failed"

Unreadable ==
    verdict = "capture_failed" \/ \E s \in Stream : got[s] = "broken"

\* The state reported of a verdict on a child whose output was read.
StateOf(v) ==
    CASE v = "exited" -> IF exit = "ok" THEN "succeeded" ELSE "failed"
      [] v = "timed_out" -> "timed_out"
      [] v = "cancelled" -> "cancelled"
      [] OTHER -> "failed"

LetGoUnkilled == UNCHANGED processes

\* The guard is dropped, or terminate_and_reap called, with cleanup_required.
LetGo == IF cleanup THEN KillAndReap ELSE UNCHANGED processes

\* The group of a client that ended by itself is released: a control master
\* may stay.
Release ==
    /\ AllDrained /\ verdict = "exited" /\ ~ Unreadable
    /\ outcome' = StateOf(verdict)
    /\ cleanup' = FALSE
    /\ Goto("done")
    /\ Quiet /\ UNCHANGED <<verdict, got, child>>

GiveUp ==
    /\ AllDrained /\ (verdict = "exited" => Unreadable)
    /\ outcome' = IF Unreadable THEN "failed" ELSE StateOf(verdict)
    /\ LetGo
    /\ cleanup' = FALSE
    /\ Goto("done")
    /\ UNCHANGED <<streams, clocks, cancelled, verdict, got, child>>

Worker ==
    \/ Spawn \/ SpawnFails \/ PollExited \/ PollRunning
    \/ TestCancellation \/ TestTime \/ TestCapture \/ WaitFails
    \/ (\E s \in Stream : Drain(s)) \/ Release \/ GiveUp

-----------------------------------------------------------------------------
(* Time, signals.                                                           *)

Expire ==
    /\ Started /\ timeout /\ ~ expired
    /\ expired' = TRUE
    /\ UNCHANGED <<processes, streams, call, timeout, drained, worker, cancelled>>

\* CAPTURE_DRAIN_TIMEOUT after the end of the wait.
DrainExpires ==
    /\ pc = "drain" /\ ~ drained
    /\ drained' = TRUE
    /\ UNCHANGED <<processes, streams, call, timeout, expired, worker, cancelled>>

SignalArrives ==
    /\ ~ cancelled /\ outcome = "none"
    /\ Cancel
    /\ UNCHANGED <<processes, streams, clocks, pc, verdict, got, cleanup>>

Ssh == (\E s \in Stream : Write(s)) \/ SshExits

Next ==
    \/ Worker \/ Ssh \/ Fork \/ HeirSteps
    \/ \E s \in Stream : Reader(s) \/ ReadFails(s)
    \/ Expire \/ DrainExpires \/ SignalArrives

\* Threads run and clocks advance; no read need fail, nor need a descendant do
\* anything, nor ssh, unless its command is one that ends.
Fairness ==
    /\ WF_vars(Worker)
    /\ \A s \in Streams : WF_vars(s \in Stream /\ Reader(s))
    /\ WF_vars(Expire) /\ WF_vars(DrainExpires)
    /\ \A s \in Streams : WF_vars(call.ends /\ s \in Stream /\ Write(s))
    /\ WF_vars(call.ends /\ SshExits)

Spec == Init /\ [][Next]_vars /\ Fairness

-----------------------------------------------------------------------------

TypeOK ==
    /\ pc \in {"spawn", "poll", "cancellation", "time", "capture", "drain", "done"}
    /\ exit \in {"none", "ok", "error", "killed"}
    /\ heir \in {"none", "running", "gone"}
    /\ holds \subseteq {"ssh", "heir"} /\ group \subseteq {"ssh", "heir"}
    /\ verdict \in {"none", "exited", "timed_out", "cancelled",
                    "capture_failed", "wait_failed"}
    /\ \A s \in Stream :
          /\ kept[s] \in 0 .. Limit /\ pipe[s] \in 0 .. PipeSize
          /\ written[s] = pipe[s] + kept[s] + lost[s]
          /\ got[s] \in {"none", "whole", "broken"}
          /\ reader[s] \in {"reading", "broken", "ended"}

Over == outcome # "none"

\* When the call returns ssh is gone, and no process of its own group runs,
\* unless ssh ended by itself and everything it wrote was read: only then may
\* a descendant stay, one that holds no pipe (the control master).
NoneLeftBehind ==
    Over => \/ Victims = {}
            \/ exit \in {"ok", "error"} /\ \A s \in Stream : message[s] = "whole"

\* A success is the command's own: ssh ended with status 0, both streams were
\* read to their end, and what is kept of each is its beginning, up to the
\* limit.
SuccessIsWhole ==
    outcome = "succeeded" =>
        /\ exit = "ok"
        /\ call.captured => holds = {}
        /\ \A s \in Stream : /\ kept[s] + lost[s] = Output[s]
                             /\ kept[s] = Minimum(Limit, Output[s])

\* A client found to have ended when a poll begins is reported as ended,
\* though a cancellation, the end of its time or a failed capture came too:
\* no command that did its work is reported as timed out or cancelled.
EndedIsReported ==
    (pc = "poll" /\ Exited) ~> (Over /\ verdict \in {"exited", "wait_failed"})

\* A read that fails ends the child: no command goes on for long, unseen.
UnreadableIsEnded == captureFailed ~> (pc = "done")

\* A cancelled call returns, and one with a time limit does, whatever ssh and
\* its descendant do, and though the latter holds a pipe open for ever.
CancelledReturns == cancelled ~> (pc = "done")
TimedReturns == timeout => <>(pc = "done")

\* Without a time limit, a command that ends is reported though it wrote more
\* than is kept, and though a descendant holds a pipe open for ever.
EndingReturns == call.ends => <>(pc = "done")

\* The call returns: with a time limit, when its command ends, when it is
\* cancelled, and when a stream cannot be read.
CallReturns ==
    /\ TimedReturns
    /\ EndingReturns
    /\ CancelledReturns
    /\ UnreadableIsEnded
=============================================================================
