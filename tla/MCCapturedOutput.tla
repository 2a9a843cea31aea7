-------------------------- MODULE MCCapturedOutput --------------------------
(* What hb writes, what it keeps of the output of other programs, and how   *)
(* it reads the line that it answers with an error.  The five parts share   *)
(* no state: an initial state is one of one of them, and the others rest.   *)
EXTENDS OutputParts, CommandPath

\* A letter, the pieces of characters of two to four bytes, and a byte that is
\* in none.
SomeBytes == {0, 65, 130, 191, 195, 226, 240, 255}

SshAndSftp == <<[name |-> "ssh", successRequired |-> TRUE],
                [name |-> "sftp", successRequired |-> FALSE]>>

Tool(starts, ends, out, err, forks) ==
    [starts |-> starts, ends |-> ends, heir |-> forks,
     output |-> [s \in {"stdout", "stderr"} |-> IF s = "stdout" THEN out ELSE err]]

Absent == Tool(FALSE, "never", 0, 0, FALSE)

Tools == {Absent, Tool(TRUE, "ok", 4, 0, FALSE), Tool(TRUE, "error", 0, 3, FALSE),
          Tool(TRUE, "never", 1, 1, FALSE), Tool(TRUE, "ok", 1, 0, TRUE)}

AllKinds == {"removal", "rotation", "reading", "batch", "session", "help", "typo"}
SomeErrors == {"NotFound", "AuthenticationFailed", "DependencyMissing"}
SomeStatuses == {0, 1, 3, 255}

\* Of CommandPath: lines are made of one of two sets of arguments, options or names.
Options == {"ssh", "run", "word", "json", "--output", "--output=human", "-qo",
            "-ojson", "-x", "--bogus", "--label", "--all", "--", "--no-input"}
Names == {"ssh", "run", "find", "profile", "credential", "set", "login",
          "word", "json", "--output", "-qo", "--bogus", "--", "--quiet"}

Arguments == Options \cup Names
Starts == {<<>>, <<"ssh", "run">>}

VARIABLE vocabulary

line == <<argv, more, hostbraidOutput, vocabulary>>

\* Lines of names have no prefix.
LineInit ==
    /\ Init /\ vocabulary \in {Options, Names}
    /\ vocabulary = Names => argv = <<>>

LineNext ==
    /\ Next
    /\ argv'[Len(argv')] \in vocabulary
    /\ UNCHANGED vocabulary

LineEmpty == argv = <<>> /\ more = 0 /\ hostbraidOutput = "none" /\ vocabulary = {}

-----------------------------------------------------------------------------
budget == <<phase, selected, run, limit, wrote, kept, truncated, said>>
encoding == <<written, raw, stream>>
probing == <<does, mayBreak, pc, child, heir, toolWritten, pipe, toolKept, lost,
             reader, expired, outcome, checks>>

invocation == <<kind, machine, yes, terminal, resultPhase, prompted, changed, error,
                leaves, stdout, stderr, failed, exit>>

BudgetFinished ==
    /\ phase = "reported" /\ selected = 1 /\ run = 0 /\ limit = 0 /\ said = Sharing!Limit(1)
    /\ wrote = <<>> /\ kept = <<>> /\ truncated = <<>>

EncodingFinished ==
    /\ written = <<>> /\ raw = [bytes |-> <<>>, truncated |-> FALSE]
    /\ stream = [encoding |-> "text", data |-> <<>>, truncated |-> FALSE,
                 captured_bytes |-> 0]

DoctorFinished ==
    /\ does = <<Absent, Absent>> /\ mayBreak = FALSE
    /\ pc = "report" /\ child = "none" /\ heir = "none"
    /\ toolWritten = Doctor!Nothing /\ pipe = Doctor!Nothing
    /\ toolKept = Doctor!Nothing /\ lost = Doctor!Nothing
    /\ reader = [s \in Doctor!Stream |-> "none"]
    /\ expired = FALSE /\ outcome = "none"
    /\ checks = [i \in 1 .. 2 |->
                    [name |-> SshAndSftp[i].name, available |-> FALSE, healthy |-> FALSE,
                     timedOut |-> FALSE, truncated |-> FALSE]]

\* hb help, with the text of it on stdout.
ResultFinished ==
    /\ kind = "help" /\ machine = FALSE /\ yes = FALSE /\ terminal = TRUE
    /\ resultPhase = "done" /\ prompted = FALSE /\ changed = FALSE
    /\ error = None /\ leaves = 0 /\ failed = {} /\ exit = 0
    /\ stdout = <<Result!Piece("success", None, TRUE)>> /\ stderr = <<>>

OutputInit ==
    \/ Sharing!Init /\ EncodingFinished /\ DoctorFinished /\ ResultFinished /\ LineEmpty
    \/ Encoding!Init /\ BudgetFinished /\ DoctorFinished /\ ResultFinished /\ LineEmpty
    \/ Doctor!Init /\ BudgetFinished /\ EncodingFinished /\ ResultFinished /\ LineEmpty
    \/ Result!Init /\ BudgetFinished /\ EncodingFinished /\ DoctorFinished /\ LineEmpty
    \/ LineInit /\ BudgetFinished /\ EncodingFinished /\ DoctorFinished /\ ResultFinished

OutputNext ==
    \/ Sharing!Next /\ UNCHANGED <<encoding, probing, invocation, line>>
    \/ Encoding!Next /\ UNCHANGED <<budget, probing, invocation, line>>
    \/ Doctor!Next /\ UNCHANGED <<budget, encoding, invocation, line>>
    \/ Result!Next /\ UNCHANGED <<budget, encoding, probing, line>>
    \/ LineNext /\ UNCHANGED <<budget, encoding, probing, invocation>>

OutputSpec ==
    OutputInit /\ [][OutputNext]_<<budget, encoding, probing, invocation, line>>
    /\ Doctor!Fairness

-----------------------------------------------------------------------------

\* ToolProbe: no tool is kept from ending, and none keeps the doctor from it.
NoToolStalls == Doctor!NoToolStalls
=============================================================================
