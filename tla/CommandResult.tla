--------------------------- MODULE CommandResult ---------------------------
(* What one invocation of hb leaves behind: the exit status, what stands on *)
(* stdout and stderr, and whether something was changed.  main_entry parses *)
(* and runs one command; commands confirm, act, and write what they did; an *)
(* error is written by write_error, and where that fails in an emergency on *)
(* stderr.                                                                  *)
(*                                                                          *)
(* Every write may fail, before or after a part of it is out, and the next  *)
(* one may succeed again: a full disk, a reader that is slow or gone.       *)
EXTENDS Integers, Sequences

CONSTANTS
    Kinds,        \* the commands: "removal", "rotation", "reading", "batch",
                  \* "session" and "help", and "typo" for a line that is none
    WorkCodes,    \* errors met before anything is changed
    SessionCodes, \* process_status_code of an interactive child
    None

ResultAssumption ==
    /\ Kinds \subseteq {"removal", "rotation", "reading", "batch", "session",
                        "help", "typo"}
    /\ SessionCodes \subseteq 0 .. 255
    /\ None \notin 0 .. 255

VARIABLES
    kind, machine, yes, \* the command line
    terminal, \* stdin is a terminal and --no-input is not given
    phase,
    prompted, \* the user was asked
    changed,  \* the configuration was changed
    error,    \* the code of the error that is on its way, or None
    leaves,   \* the status if the output can be written
    stdout, stderr, \* sequences of [what, code, whole]
    failed,   \* history: the channels on which a write failed
    exit      \* the exit status, or None

line == <<kind, machine, terminal, yes>>
vars == <<line, phase, prompted, changed, error, leaves, stdout, stderr, failed, exit>>

Init ==
    /\ kind \in Kinds
    /\ machine \in BOOLEAN /\ terminal \in BOOLEAN /\ yes \in BOOLEAN
    /\ phase = IF kind = "help" THEN "output" ELSE IF kind = "typo" THEN "error" ELSE "begin"
    /\ error = IF kind = "typo" THEN "InvalidArguments" ELSE None
    /\ prompted = FALSE /\ changed = FALSE /\ leaves = 0
    /\ stdout = <<>> /\ stderr = <<>> /\ failed = {} /\ exit = None

\* ErrorCode::exit_code.
ExitOf(code) ==
    CASE code \in {"InvalidArguments", "InvalidInput", "AmbiguousTarget"} -> 2
      [] code = "DependencyMissing" -> 3
      [] code = "AuthenticationFailed" -> 4
      [] code \in {"ProviderUnavailable", "Unavailable"} -> 5
      [] code = "PolicyDenied" -> 6
      [] OTHER -> 1

FAILURE == 1

\* What the runtime of the language makes of a panic.
PANIC == 101

Interactive == terminal /\ ~ machine

Raise(code) == phase' = "error" /\ error' = code
Moves(place) == phase' = place /\ UNCHANGED error
Exits(status) == phase' = "done" /\ exit' = status

-----------------------------------------------------------------------------
(* Writing.                                                                 *)

Piece(what, code, whole) == [what |-> what, code |-> code, whole |-> whole]

\* A write that fails leaves nothing or a part.
Written(out, what, code) == Append(out, Piece(what, code, TRUE))
Broken(out, what, code) == {out, Append(out, Piece(what, code, FALSE))}

WritesOut(what, code) ==
    /\ stdout' = Written(stdout, what, code)
    /\ UNCHANGED <<stderr, failed>>

FailsOut(what, code) ==
    /\ stdout' \in Broken(stdout, what, code)
    /\ failed' = failed \cup {"stdout"}
    /\ UNCHANGED stderr

WritesErr(what, code) ==
    /\ stderr' = Written(stderr, what, code)
    /\ UNCHANGED <<stdout, failed>>

FailsErr(what, code) ==
    /\ stderr' \in Broken(stderr, what, code)
    /\ failed' = failed \cup {"stderr"}
    /\ UNCHANGED stdout

silent == <<stdout, stderr, failed>>

-----------------------------------------------------------------------------
(* A command.                                                               *)

Asks == kind = "removal" /\ ~ yes

\* Arguments and state are checked; a session needs a terminal.
Begin ==
    /\ phase = "begin"
    /\ \/ IF kind = "session" /\ machine THEN Raise("Unsupported")
          ELSE IF kind = "session" /\ ~ terminal THEN Raise("InvalidInput")
          ELSE Moves(IF Asks THEN "confirm" ELSE "work")
       \/ \E code \in WorkCodes : Raise(code)
    /\ UNCHANGED <<line, prompted, changed, leaves, silent, exit>>

\* Context::confirm.
Refuse ==
    /\ phase = "confirm" /\ ~ Interactive
    /\ Raise("PolicyDenied")
    /\ UNCHANGED <<line, prompted, changed, leaves, silent, exit>>

Prompt ==
    /\ phase = "confirm" /\ Interactive
    /\ \/ WritesErr("prompt", None) /\ prompted' = TRUE /\ Moves("answer")
       \/ FailsErr("prompt", None) /\ Raise("Io") /\ UNCHANGED prompted
    /\ UNCHANGED <<line, changed, leaves, exit>>

Answer ==
    /\ phase = "answer"
    /\ Moves("work") \/ Raise("PolicyDenied") \/ Raise("Io")
    /\ UNCHANGED <<line, prompted, changed, leaves, silent, exit>>

Changes == kind \in {"removal", "rotation"}

\* The provider and the store are asked; a change is committed last.  A batch
\* leaves with 0, 1 or the status of a signal, of which 130 stands for all.
Work ==
    /\ phase = "work" /\ kind # "session"
    /\ \/ \E code \in WorkCodes : Raise(code) /\ UNCHANGED <<changed, leaves>>
       \/ /\ changed' = Changes
          /\ leaves' \in IF kind = "batch" THEN {0, 1, 130} ELSE {0}
          /\ Moves(IF kind = "rotation" THEN "reload" ELSE "output")
    /\ UNCHANGED <<line, prompted, silent, exit>>

\* A rotation reads the configuration again for what it reports.
Reload ==
    /\ phase = "reload"
    /\ Moves("output") \/ Raise("Io") \/ Raise("InvalidInput")
    /\ UNCHANGED <<line, prompted, changed, leaves, silent, exit>>

\* The child has the terminal, and its status is the status.
Session ==
    /\ phase = "work" /\ kind = "session"
    /\ \/ \E code \in SessionCodes : Exits(code) /\ UNCHANGED error
       \/ \E code \in WorkCodes : Raise(code) /\ UNCHANGED exit
    /\ UNCHANGED <<line, prompted, changed, leaves, silent>>

Document == IF leaves = 0 THEN "success" ELSE "failure"
DocumentCode == IF leaves = 0 THEN None ELSE "RemoteExecutionFailed"

\* A deviation that the checked properties must notice stands just before the
\* definition it replaces, and is used nowhere else.
OutputThenError ==
    /\ phase = "output"
    /\ WritesOut(Document, DocumentCode)
    /\ IF leaves = 0 THEN Moves("leave") ELSE Raise("RemoteExecutionFailed")
    /\ UNCHANGED <<line, prompted, changed, leaves, exit>>

\* write_machine_success, write_machine_partial_failure or write_human, in one
\* piece.  What fails to write help is an emergency at once.
Output ==
    /\ phase = "output"
    /\ \/ WritesOut(Document, DocumentCode) /\ Moves("warn")
       \/ /\ FailsOut(Document, DocumentCode)
          /\ IF kind = "help" THEN phase' = "emergency" /\ error' = "Io" ELSE Raise("Io")
    /\ UNCHANGED <<line, prompted, changed, leaves, exit>>

\* People read the warnings of a change on stderr, after the result.
Warn ==
    /\ phase = "warn"
    /\ \/ UNCHANGED silent /\ Moves("leave")
       \/ /\ Changes /\ ~ machine
          /\ \/ WritesErr("warning", None) /\ Moves("leave")
             \/ FailsErr("warning", None) /\ Raise("Io")
    /\ UNCHANGED <<line, prompted, changed, leaves, exit>>

Leave ==
    /\ phase = "leave" /\ Exits(leaves)
    /\ UNCHANGED <<line, prompted, changed, error, leaves, silent>>

-----------------------------------------------------------------------------
(* An error.                                                                *)

\* write_error.
WriteError ==
    /\ phase = "error"
    /\ \/ /\ IF machine THEN WritesOut("failure", error) ELSE WritesErr("failure", error)
          /\ Exits(ExitOf(error)) /\ UNCHANGED error
       \/ /\ IF machine THEN FailsOut("failure", error) ELSE FailsErr("failure", error)
          /\ phase' = "emergency" /\ error' = "Io" /\ UNCHANGED exit
    /\ UNCHANGED <<line, prompted, changed, leaves>>

\* report_emergency_error: once as usual, then once without looking; but
\* eprintln! panics when it cannot write.
Emergency ==
    /\ phase = "emergency"
    /\ \/ WritesErr("failure", error) /\ Exits(FAILURE)
       \/ FailsErr("failure", error) /\ phase' = "last" /\ UNCHANGED exit
    /\ UNCHANGED <<line, prompted, changed, error, leaves>>

LastAttempt ==
    /\ phase = "last"
    /\ \/ WritesErr("failure", error) /\ Exits(FAILURE)
       \/ FailsErr("failure", error) /\ Exits(PANIC)
    /\ UNCHANGED <<line, prompted, changed, error, leaves>>

Next ==
    \/ Begin \/ Refuse \/ Prompt \/ Answer \/ Work \/ Reload \/ Session
    \/ Output \/ Warn \/ Leave \/ WriteError \/ Emergency \/ LastAttempt

Spec == Init /\ [][Next]_vars

-----------------------------------------------------------------------------

InPieces(out) ==
    \A i \in DOMAIN out :
        /\ out[i].what \in {"success", "failure", "warning", "prompt"}
        /\ out[i].whole \in BOOLEAN

Whole(out, what) == \E i \in DOMAIN out : out[i].what = what /\ out[i].whole

TypeOK ==
    /\ InPieces(stdout) /\ InPieces(stderr)
    /\ failed \subseteq {"stdout", "stderr"}
    /\ {prompted, changed} \subseteq BOOLEAN
    /\ (phase = "done") = (exit # None)
    /\ exit # None => exit \in 0 .. 255

\* The status tells a script what its output holds: with status 0 the one
\* object that stands there is a whole success.
ZeroIsAWholeSuccess ==
    machine /\ exit = 0 => Len(stdout) = 1 /\ stdout[1].whole /\ stdout[1].what = "success"

\* As long as stdout can be written there is exactly one object on it, and the
\* status is that of its code, or of the signal that ended a batch.
OneObjectForTheStatus ==
    machine /\ phase = "done" /\ "stdout" \notin failed =>
        /\ Len(stdout) = 1 /\ stdout[1].whole
        /\ \/ stdout[1].what = "success" /\ exit = 0
           \/ stdout[1].what = "failure"
              /\ exit \in {ExitOf(stdout[1].code)} \cup (IF kind = "batch" THEN {130} ELSE {})

\* A failure is explained somewhere unless stderr, the last resort, is lost too.
\* A child that had the terminal explains its own.
NeverSilent ==
    phase = "done" /\ exit # 0 /\ kind # "session" =>
        Whole(stdout, "failure") \/ Whole(stderr, "failure") \/ "stderr" \in failed

\* Statuses 3 to 6 are refusals: the tool is missing, the credential or the
\* request is rejected, the provider is not there.  Nothing was changed then.
\* What can fail after a change has status 1 or 2.
RefusedMeansUntouched == exit \in 3 .. 6 /\ kind # "session" => ~ changed

\* A profile is only removed on --yes or an answer, and nobody is asked who is
\* not at a terminal.
RemovedOnRequest ==
    /\ kind = "removal" /\ changed => yes \/ prompted
    /\ prompted => terminal /\ ~ machine

\* What an invocation leaves, its status, its output and its effect, tells one
\* story, whatever write of it failed.
ResultsAgree ==
    /\ TypeOK
    /\ ZeroIsAWholeSuccess
    /\ OneObjectForTheStatus
    /\ NeverSilent
    /\ RefusedMeansUntouched
    /\ RemovedOnRequest
=============================================================================
