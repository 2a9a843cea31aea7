---------------------------- MODULE ArgumentScan ----------------------------
(* A command line that clap refuses is reported in the format it asked for: *)
(* machine_output_requested looks for --output without clap, and must not   *)
(* look into the remote command of ssh run, which is the user's own.        *)
(*                                                                          *)
(* A command line is a sequence of arguments after the name of the binary.  *)
(* Arguments are told apart as the code tells them apart: "word" stands for *)
(* any other name, "--bogus" and "-x" for options hb does not have, and     *)
(* "--label", "--label=a" and "--all" for the options of ssh run.           *)
EXTENDS Integers, Sequences, FiniteSets

CONSTANTS
    Argument,         \* the arguments a command line is made of
    Prefixes,         \* how the command lines start
    MaxMore           \* bound: the arguments after the prefix

ASSUME ScanAssumption ==
    Prefixes \subseteq Seq(Argument) /\ MaxMore \in Nat

VARIABLES
    argv, more,       \* the command line, and how much longer it may get
    hostbraidOutput   \* HOSTBRAID_OUTPUT

vars == <<argv, more, hostbraidOutput>>

TakesValue == {"--output", "--color"}
Joined == {"--output=json", "--output=human", "--color=never"}
Switch == {"--no-input", "--quiet", "--help", "--version"}
Short == {"-o", "-qo", "-ojson", "-q", "-x"}
UnknownShort == {"-x"}
RunTakesValue == {"--label"}
RunAlone == {"--label=a", "--all"}
Dashed == TakesValue \cup Joined \cup Switch \cup Short \cup RunTakesValue
              \cup RunAlone \cup {"--bogus", "--"}

Init ==
    /\ argv \in Prefixes /\ more = MaxMore
    /\ hostbraidOutput \in {"json", "none"}

Type(argument) ==
    /\ more > 0
    /\ argv' = Append(argv, argument)
    /\ more' = more - 1
    /\ UNCHANGED hostbraidOutput

Next == \E argument \in Argument : Type(argument)
Spec == Init /\ [][Next]_vars

Places == 1 .. Len(argv) + 2
NoBoundary == Len(argv) + 1

At(i) == IF i \in DOMAIN argv THEN argv[i] ELSE "nothing"

\* Where a loop ends that goes on from each place to the next until one stops it.
Ends(next, stop) ==
    LET from[place \in DOMAIN next] == IF place \in stop THEN place ELSE from[next[place]]
    IN from

\* requested_output.
Requested(value) == IF value \in {"json", "human"} THEN value ELSE "none"

\* scan_short_options, at place i: the letters up to an o, whose value is the
\* rest of the argument or else the next one.
ConsumesNext(i) == At(i) \in {"-o", "-qo"}
ShortOutput(i) ==
    IF At(i) = "-ojson" THEN "json"
    ELSE IF ConsumesNext(i) THEN Requested(At(i + 1)) ELSE "none"

\* How many arguments a global option at place i takes; 0 if it is not one.
GlobalWidth(i) ==
    IF At(i) \in TakesValue \/ ConsumesNext(i) THEN 2
    ELSE IF At(i) \in Joined \cup Switch \cup (Short \ UnknownShort) THEN 1
    ELSE 0

\* The first place from each on that is a name, a --, or the end: global options
\* are passed over, and options hb does not have as if they took no value.
NextName ==
    Ends([i \in Places |-> IF GlobalWidth(i) > 0 THEN i + GlobalWidth(i) ELSE i + 1],
         {i \in Places : At(i) \notin Dashed \/ At(i) = "--"})

\* A deviation that the checked properties must notice stands just before the
\* definition it replaces, and is used nowhere else.
RunWidthAtValue(i) ==
    IF GlobalWidth(i) > 0 THEN GlobalWidth(i)
    ELSE IF At(i) \in RunAlone \cup RunTakesValue THEN 1 ELSE 0

\* The same for the options of ssh run and the global ones.
RunWidth(i) ==
    IF GlobalWidth(i) > 0 THEN GlobalWidth(i)
    ELSE IF At(i) \in RunTakesValue THEN 2
    ELSE IF At(i) \in RunAlone THEN 1 ELSE 0

\* Behind run: the first place that is no option of ssh run.
RunBoundary ==
    Ends([i \in Places |-> i + RunWidth(i)], {i \in Places : RunWidth(i) = 0})

\* ssh_run_remote_boundary: ssh must be the first name, and run the next one.
Boundary ==
    LET ssh == NextName[1]
        run == NextName[ssh + 1]
        remote == RunBoundary[run + 1]
    IN IF At(ssh) = "ssh" /\ At(run) = "run" /\ remote \in DOMAIN argv THEN remote
       ELSE NoBoundary

Otherwise(output, before) == IF output = "none" THEN before ELSE output
Formats == {"json", "human", "none"}

\* The format that the scan finds in the argument at place i, if any.
FoundAt(i) ==
    CASE At(i) = "--output" -> Requested(At(i + 1))
      [] At(i) \in Short -> ShortOutput(i)
      [] At(i) = "--output=json" -> "json"
      [] At(i) = "--output=human" -> "human"
      [] OTHER -> "none"

\* machine_output_requested, when clap refused: the last valid --output before
\* the boundary and before any --.
ScannedOutput ==
    LET boundary == Boundary
        next == [at \in Places \X Formats |->
                    <<at[1] + (IF At(at[1]) = "--output" \/ ConsumesNext(at[1]) THEN 2 ELSE 1),
                      Otherwise(FoundAt(at[1]), at[2])>>]
        stop == {at \in Places \X Formats : at[1] >= boundary \/ At(at[1]) = "--"}
    IN Ends(next, stop)[<<1, "none">>][2]

MachineOutputRequested ==
    Otherwise(ScannedOutput, Requested(hostbraidOutput)) = "json"

-----------------------------------------------------------------------------
(* The language clap accepts, by where its parts stand and not by reading   *)
(* it from the left.                                                        *)

HasValue(i, options) ==
    argv[i] \in options /\ argv[i] \in TakesValue \cup RunTakesValue \cup {"-o", "-qo"}

\* The places from .. to are options, each at one of the heads, with the value
\* it takes after it; a value does not look like an option.
AreOptions(from, to, heads, options) ==
    /\ heads \subseteq from .. to
    /\ \A i \in from .. to :
          i \in heads <=> ~ (i - 1 \in heads /\ HasValue(i - 1, options))
    /\ \A i \in heads :
          /\ argv[i] \in options
          /\ HasValue(i, options) => i + 1 <= to /\ argv[i + 1] \notin Dashed

GlobalOptions == TakesValue \cup Joined \cup Switch \cup (Short \ UnknownShort)
RunOptions == GlobalOptions \cup RunTakesValue \cup RunAlone

\* Before run, an option hb does not have is an error and takes no value.
Mistaken == {"--bogus", "-x"}

Standing(name) == {i \in DOMAIN argv : argv[i] = name}

\* ssh and run stand at these places, the options at the heads, and the remote
\* command, which may be missing, from the place remote on.
SshRunLine(ssh, run, remote, heads) ==
    /\ ssh < run /\ run < remote
    /\ AreOptions(1, ssh - 1, heads \cap (1 .. ssh - 1), GlobalOptions \cup Mistaken)
    /\ AreOptions(ssh + 1, run - 1, heads \cap (ssh + 1 .. run - 1),
                  GlobalOptions \cup Mistaken)
    /\ AreOptions(run + 1, remote - 1, heads \cap (run + 1 .. remote - 1), RunOptions)
    /\ heads \cap {ssh, run} = {}
    /\ remote \in DOMAIN argv => argv[remote] \notin RunOptions

OutputAt(i) ==
    CASE argv[i] \in {"--output", "-o", "-qo"} -> Requested(argv[i + 1])
      [] argv[i] \in {"--output=json", "-ojson"} -> "json"
      [] argv[i] = "--output=human" -> "human"
      [] OTHER -> "none"

\* The value of the last option that has one.
DeclaredOutput(heads) ==
    LET given == {i \in heads : OutputAt(i) # "none"}
    IN IF given = {} THEN "none"
       ELSE OutputAt(CHOOSE i \in given : \A j \in given : j <= i)

TypeOK ==
    /\ argv \in Seq(Argument) /\ more \in 0 .. MaxMore
    /\ Boundary \in 1 .. Len(argv) + 1
    /\ ScannedOutput \in Formats

\* Two readers of one language: on a command line of ssh run that clap could
\* only refuse for a value, a conflict or something missing, or for an option
\* hb does not have, the scan finds the format that the line asks for.
ScanAgreesWithParser ==
    \A ssh \in Standing("ssh"), run \in Standing("run"), remote \in 1 .. Len(argv) + 1 :
      \A heads \in SUBSET {i \in 1 .. remote - 1 : argv[i] \in Dashed} :
        SshRunLine(ssh, run, remote, heads) =>
            MachineOutputRequested =
                (Otherwise(DeclaredOutput(heads), Requested(hostbraidOutput)) = "json")

=============================================================================
