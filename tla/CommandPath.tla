---------------------------- MODULE CommandPath ----------------------------
(* The answer to a command line that clap refused names the command it was  *)
(* for, found by safe_command_path without clap and from names of the       *)
(* command tree alone: an argument may be a token pasted by mistake.        *)
EXTENDS ArgumentScan

\* The tree of subcommands below the binary.
Commands == {"login", "profiles", "use", "logout", "profile", "site", "environment",
             "ssh", "inventory", "guide", "search", "doctor", "completion"}
ProfileCommands == {"add", "list", "show", "default", "remove", "credential"}
EnvironmentCommands == {"list", "show"}
SshCommands == {"open", "run"}
InventoryCommands == {"plugins", "themes"}

Tree == {<<command>> : command \in Commands}
          \cup {<<"profile", command>> : command \in ProfileCommands}
          \cup {<<"profile", "credential", "set">>, <<"site", "list">>}
          \cup {<<"environment", command>> : command \in EnvironmentCommands}
          \cup {<<"ssh", command>> : command \in SshCommands}
          \cup {<<"inventory", command>> : command \in InventoryCommands}

\* Aliases stand for the command's own name.
Canonical(name) ==
    CASE name = "docs" -> "guide" [] name = "find" -> "search" [] OTHER -> name

Below(path, name) == Append(path, Canonical(name))

\* safe_command_path with next_subcommand_candidate: names of the tree, the
\* global options between them skipped, up to anything else.
SafeCommandPath ==
    LET paths == Tree \cup {<<>>}
        next == [at \in Places \X paths |->
                    IF GlobalWidth(at[1]) > 0 THEN <<at[1] + GlobalWidth(at[1]), at[2]>>
                    ELSE <<at[1] + 1, Below(at[2], At(at[1]))>>]
        stop == {at \in Places \X paths :
                    /\ GlobalWidth(at[1]) = 0
                    /\ At(at[1]) \in Dashed \/ Below(at[2], At(at[1])) \notin Tree}
    IN Ends(next, stop)[<<1, <<>>>>][2]

-----------------------------------------------------------------------------
(* The command clap is at when it stops, by where the names stand.          *)

\* The names are at these places, in order.
NamesStand(path, places) ==
    \A k \in DOMAIN path :
        /\ Canonical(argv[places[k]]) = path[k]
        /\ k > 1 => places[k - 1] < places[k]

\* Global options are at the heads between the names and behind them, and what
\* follows is no further name.
CommandLine(path, places, heads, stop) ==
    LET start(k) == IF k = 1 THEN 1 ELSE places[k - 1] + 1
        end(k) == IF k > Len(path) THEN stop - 1 ELSE places[k] - 1
    IN /\ start(Len(path) + 1) <= stop
       /\ \A k \in DOMAIN path : places[k] \notin heads
       /\ \A k \in 1 .. Len(path) + 1 :
             AreOptions(start(k), end(k), heads \cap (start(k) .. end(k)), GlobalOptions)
       /\ stop \in DOMAIN argv =>
             argv[stop] \notin GlobalOptions /\ Below(path, argv[stop]) \notin Tree

\* The commands that the line names.
CommandLines ==
    LET names == {Canonical(argv[i]) : i \in DOMAIN argv}
        named == {path \in Tree \cup {<<>>} : \A k \in DOMAIN path : path[k] \in names}
    IN {path \in named :
           \E places \in [DOMAIN path -> DOMAIN argv] :
              NamesStand(path, places) /\ \E stop \in 1 .. Len(argv) + 1 :
                 \E heads \in SUBSET {i \in 1 .. stop - 1 : argv[i] \in GlobalOptions} :
                    CommandLine(path, places, heads, stop)}

\* The command that the answer is about is the one clap was at, whatever is
\* wrong behind it: never one named by the value of an option, behind an
\* option hb does not have, or in the arguments of another.
PathIsTheParsers == CommandLines \subseteq {SafeCommandPath}

\* A line that clap refuses is read as clap reads it: the answer has the format
\* that the line asks for and is about the command it names.
ReadersAgree == TypeOK /\ ScanAgreesWithParser /\ PathIsTheParsers
=============================================================================
