----------------------------- MODULE ToolProbe -----------------------------
(* hb doctor: each tool is started in turn, two threads read its output and *)
(* keep a bounded part of it, the main thread polls it until it ends or the *)
(* time of the probe is over, kills it then, joins the threads without a    *)
(* bound, and reports.                                                      *)
(*                                                                          *)
(* A tool may leave a descendant behind that holds both of its pipes.       *)
(* Output is counted in reads.                                              *)
EXTENDS Integers, Sequences

CONSTANTS
    Probes,     \* PROBES: a sequence of [name, successRequired]
    Behaviours, \* of tools: [starts, ends, output, heir]
    CaptureLimit, \* CAPTURE_LIMIT
    PipeSize    \* what a pipe holds before a writer blocks

Stream == {"stdout", "stderr"}

ProbeAssumption ==
    /\ Probes \in Seq([name : STRING, successRequired : BOOLEAN])
    /\ \A i \in DOMAIN Probes : Probes[i].name = "ssh" => Probes[i].successRequired
    /\ CaptureLimit \in Nat /\ PipeSize \in Nat \ {0}
    /\ \A b \in Behaviours :
          /\ b.starts \in BOOLEAN /\ b.heir \in BOOLEAN
          /\ b.ends \in {"ok", "error", "never"}
          /\ b.output \in [Stream -> Nat]

VARIABLES
    does,     \* what each tool does
    mayBreak, \* TRUE: a read or a poll may fail
    pc,       \* "spawn", "wait", "join" or "report"
    child,    \* "none", "running", how it ended, or "killed"
    heir,     \* the descendant: "none" or "running"
    written, pipe, kept, lost, \* per stream
    reader,   \* per stream: "none", "reading" or "ended"
    expired,  \* PROBE_TIMEOUT is over
    outcome,  \* ProbeOutcome
    checks    \* the ToolChecks so far

machine == <<does, mayBreak>>
vars == <<machine, pc, child, heir, written, pipe, kept, lost, reader, expired,
          outcome, checks>>

Nothing == [s \in Stream |-> 0]

Init ==
    /\ does \in [DOMAIN Probes -> Behaviours] /\ mayBreak \in BOOLEAN
    /\ pc = "spawn" /\ child = "none" /\ heir = "none"
    /\ written = Nothing /\ pipe = Nothing /\ kept = Nothing /\ lost = Nothing
    /\ reader = [s \in Stream |-> "none"]
    /\ expired = FALSE /\ outcome = "none" /\ checks = <<>>

\* The tool being probed.
Current == Len(checks) + 1
Behaviour == does[Current]

-----------------------------------------------------------------------------
(* The tool and its descendant.                                             *)

\* A write to a pipe nobody reads any more ends the tool.
Write(s) ==
    /\ child = "running" /\ written[s] < Behaviour.output[s]
    /\ \/ /\ reader[s] = "reading" /\ pipe[s] < PipeSize
          /\ written' = [written EXCEPT ![s] = @ + 1]
          /\ pipe' = [pipe EXCEPT ![s] = @ + 1]
          /\ UNCHANGED child
       \/ reader[s] = "ended" /\ child' = "error" /\ UNCHANGED <<written, pipe>>
    /\ UNCHANGED <<machine, pc, heir, kept, lost, reader, expired, outcome, checks>>

End ==
    /\ child = "running" /\ written = Behaviour.output /\ Behaviour.ends # "never"
    /\ child' = Behaviour.ends
    /\ UNCHANGED <<machine, pc, heir, written, pipe, kept, lost, reader, expired,
                   outcome, checks>>

HeirEnds ==
    /\ heir = "running" /\ heir' = "none"
    /\ UNCHANGED <<machine, pc, child, written, pipe, kept, lost, reader, expired,
                   outcome, checks>>

-----------------------------------------------------------------------------
(* read_bounded, a thread per stream.                                       *)

\* What does not fit is read too, and dropped.
Read(s) ==
    /\ reader[s] = "reading" /\ pipe[s] > 0
    /\ pipe' = [pipe EXCEPT ![s] = @ - 1]
    /\ IF kept[s] < CaptureLimit
       THEN kept' = [kept EXCEPT ![s] = @ + 1] /\ UNCHANGED lost
       ELSE lost' = [lost EXCEPT ![s] = @ + 1] /\ UNCHANGED kept
    /\ UNCHANGED <<machine, pc, child, heir, written, reader, expired, outcome, checks>>

StopsReading(s) ==
    /\ reader' = [reader EXCEPT ![s] = "ended"]
    /\ UNCHANGED <<machine, pc, child, heir, written, pipe, kept, lost, expired,
                   outcome, checks>>

\* The end of the stream is seen when nobody holds the pipe open.
ReadEnd(s) ==
    /\ reader[s] = "reading" /\ pipe[s] = 0
    /\ child # "running" /\ heir # "running"
    /\ StopsReading(s)

ReadBreaks(s) == mayBreak /\ reader[s] = "reading" /\ StopsReading(s)

-----------------------------------------------------------------------------
(* check_tool and wait_bounded.                                             *)

MissingCheck ==
    [name |-> Probes[Current].name, available |-> FALSE, healthy |-> FALSE,
     timedOut |-> FALSE, truncated |-> FALSE]

Spawn ==
    /\ pc = "spawn" /\ Current <= Len(Probes)
    /\ IF Behaviour.starts
       THEN /\ child' = "running" /\ pc' = "wait"
            /\ heir' = IF Behaviour.heir THEN "running" ELSE "none"
            /\ reader' = [s \in Stream |-> "reading"]
            /\ written' = Nothing /\ pipe' = Nothing /\ kept' = Nothing /\ lost' = Nothing
            /\ expired' = FALSE
            /\ UNCHANGED checks
       ELSE /\ checks' = Append(checks, MissingCheck)
            /\ UNCHANGED <<pc, child, heir, reader, written, pipe, kept, lost, expired>>
    /\ UNCHANGED <<machine, outcome>>

Expire ==
    /\ pc = "wait" /\ ~ expired /\ expired' = TRUE
    /\ UNCHANGED <<machine, pc, child, heir, written, pipe, kept, lost, reader,
                   outcome, checks>>

Judges(verdict, ended) ==
    /\ pc' = "join" /\ outcome' = verdict /\ child' = ended
    /\ UNCHANGED <<machine, heir, written, pipe, kept, lost, reader, expired, checks>>

\* Deviations that the checked properties must notice stand just before the
\* definition each of them replaces, and are used nowhere else.
PollWithoutDeadline ==
    /\ pc = "wait"
    /\ \/ child \in {"ok", "error"} /\ Judges("exited", child)
       \/ mayBreak /\ Judges("wait_failed", IF child = "running" THEN "killed" ELSE child)

\* A tool that ended is seen first, whatever the time; one that runs is killed
\* alone, and waited for.
Poll ==
    /\ pc = "wait"
    /\ \/ child \in {"ok", "error"} /\ Judges("exited", child)
       \/ child = "running" /\ expired /\ Judges("timed_out", "killed")
       \/ mayBreak /\ Judges("wait_failed", IF child = "running" THEN "killed" ELSE child)

HealthyIfStarted == outcome # "timed_out"

Healthy ==
    /\ outcome = "exited"
    /\ Probes[Current].successRequired => child = "ok"

\* join_reader, one after the other.
Join ==
    /\ pc = "join" /\ \A s \in Stream : reader[s] = "ended"
    /\ checks' = Append(checks,
                        [name |-> Probes[Current].name, available |-> TRUE,
                         healthy |-> Healthy, timedOut |-> outcome = "timed_out",
                         truncated |-> \E s \in Stream : lost[s] > 0])
    /\ pc' = "spawn" /\ child' = "none" /\ outcome' = "none"
    /\ heir' = "none"  \* one that is left behind is nobody's any more
    /\ reader' = [s \in Stream |-> "none"]
    /\ written' = Nothing /\ pipe' = Nothing /\ kept' = Nothing /\ lost' = Nothing
    /\ expired' = FALSE
    /\ UNCHANGED machine

Report ==
    /\ pc = "spawn" /\ Current > Len(Probes)
    /\ pc' = "report"
    /\ UNCHANGED <<machine, child, heir, written, pipe, kept, lost, reader, expired,
                   outcome, checks>>

Reader(s) == Read(s) \/ ReadEnd(s)

Next ==
    \/ \E s \in Stream : Write(s) \/ Reader(s) \/ ReadBreaks(s)
    \/ End \/ HeirEnds \/ Expire
    \/ Spawn \/ Poll \/ Join \/ Report

\* Polls are said apart from their failures, which nothing forces.
PollSees ==
    /\ pc = "wait" /\ (child # "running" \/ expired)
    /\ Poll
    /\ outcome' # "wait_failed"

\* The threads are scheduled and the tool gets to run; nothing ends a tool that
\* hangs but the clock, and nothing ends a descendant.
Fairness ==
    /\ \A s \in Stream : WF_vars(Write(s)) /\ WF_vars(Reader(s))
    /\ WF_vars(End) /\ WF_vars(Spawn) /\ WF_vars(PollSees)
    /\ WF_vars(Join) /\ WF_vars(Report)

ClockRuns == WF_vars(Expire)

Spec == Init /\ [][Next]_vars /\ Fairness

-----------------------------------------------------------------------------

\* DoctorReport, from the checks.
HealthyTool(name) == \E i \in DOMAIN checks : checks[i].name = name /\ checks[i].healthy
ReadyForSsh == HealthyTool("ssh")
TransferAvailable ==
    \/ ReadyForSsh /\ (HealthyTool("rsync") \/ HealthyTool("tar"))
    \/ HealthyTool("sftp")

TypeOK ==
    /\ pc \in {"spawn", "wait", "join", "report"}
    /\ child \in {"none", "running", "ok", "error", "killed"}
    /\ outcome \in {"none", "exited", "timed_out", "wait_failed"}
    /\ \A s \in Stream : /\ pipe[s] \in 0 .. PipeSize /\ reader[s] \in {"none", "reading", "ended"}
                         /\ kept[s] + lost[s] + pipe[s] = written[s]
    /\ Len(checks) <= Len(Probes) /\ \A s \in Stream : kept[s] <= CaptureLimit

\* The report has one check for each tool in order, and calls a tool healthy
\* only if it was started, ended by itself, and well when that is required:
\* not a tool hb killed, nor one it could not wait for.  So no workflow is called
\* ready on a tool that hangs.  (A tool whose exit status does not matter also
\* ends when its output can no longer be read.)
HealthIsEarned ==
    /\ \A i \in DOMAIN checks :
          /\ checks[i].name = Probes[i].name
          /\ checks[i].healthy =>
                /\ does[i].starts
                /\ Probes[i].successRequired => does[i].ends = "ok"
                /\ ~ mayBreak => does[i].ends # "never"
    /\ ReadyForSsh => \E i \in DOMAIN checks : Probes[i].name = "ssh" /\ does[i].ends = "ok"
    /\ TransferAvailable /\ ~ mayBreak =>
          \E i \in DOMAIN checks : does[i].starts /\ does[i].ends # "never"

\* A tool that ends by itself is never kept from it by hb, though no clock helps:
\* there is always a reader for what it prints, also beyond what is kept.
NeverStalled ==
    \A i \in DOMAIN Probes :
        (Current = i /\ child = "running" /\ does[i].ends # "never")
            ~> (child # "running")

\* The doctor ends, whatever the tools do, unless a descendant that one of them
\* left behind holds its output open for ever: the time of the probe is not a
\* bound on joining the readers.
DoctorEnds ==
    ClockRuns => <>(pc = "report") \/ <>[](heir = "running")

\* No check in the report is better than what the tool did.
ChecksAreEarned == TypeOK /\ HealthIsEarned

\* hb keeps no tool from ending, and waits for none but through what one left.
NoToolStalls == NeverStalled /\ DoctorEnds
=============================================================================
