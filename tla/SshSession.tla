----------------------------- MODULE SshSession -----------------------------
(***************************************************************************)
(* From what the API says of an environment to where the OpenSSH client    *)
(* gets by its argument array: ssh open, and one target of ssh run, with   *)
(* the user's terminal ("inherited") or captured.                          *)
(*                                                                         *)
(* Sessions follow one another; a client with ControlMaster=auto leaves a  *)
(* connection behind for those that expand ControlPath to the same socket. *)
(* The client reads its arguments from the left.  Options may stand behind *)
(* the destination, up to the name of the remote command: if that begins   *)
(* with a dash, which nothing refuses, the client takes it for an option.  *)
(***************************************************************************)
EXTENDS Naturals, Sequences

CONSTANTS
    Hosts, Users, Ports,   \* what the API may return
    RemoteCommands,        \* what may stand behind --
    Elsewhere,             \* the host that "HostName" names
    MaxSessions            \* bound

\* Names the checks of a target refuse: "at" has an @ in it, "dashed" begins
\* with a dash, "other" has another character that is not allowed or is too
\* long.  "numeric" has the colons and brackets a host may have.
BadHost == {"", "dashed", "at", "other"}
BadUser == BadHost \union {"numeric"}
BadPort == {"", "0", "65536", "word"}

\* The arguments that begin with a dash: options that stand alone or have a
\* value, the end of the options, and one that ssh does not have.
Alone == {"-T", "-v"}
Valued == {"-o", "-p", "-l"}
Dashed == Alone \union Valued \union {"--", "-Z"}

\* The values that -o may have; "HostName" stands for one a user may give.
Settings == {"BatchMode=yes", "ControlMaster=auto", "ControlPersist=60s", "ControlPath",
             "HostName"}

ASSUME SessionAssumption ==
    /\ RemoteCommands \subseteq Seq(STRING)
    /\ MaxSessions \in Nat

VARIABLES
    mode, remote,
    pooling,      \* not --no-pool
    controlPath,  \* is there a private directory for control sockets?
    terminal,     \* human output and an input terminal
    target,       \* the SshTarget
    warned,       \* that there is no pooling
    pc,
    arguments, place,  \* the argument array, and how far the client has read
    client,       \* what it has understood
    reached,      \* where its commands run
    sockets,      \* by expanded ControlPath, where its connection leads
    sessions

asked == <<mode, remote, pooling, controlPath, terminal>>
reading == <<place, client>>
pool == <<sockets, sessions>>
vars == <<asked, target, warned, pc, arguments, reading, reached, pool>>

-----------------------------------------------------------------------------
SshTarget == [host: Hosts \ BadHost, user: Users \ BadUser, port: Ports \ BadPort]
Answer == [host: Hosts, user: Users, port: Ports, own: BOOLEAN]

Nowhere == [host |-> "", user |-> "", port |-> ""]

\* An argument is a text; a destination has a user before it.
Word(text) == [user |-> "", text |-> text]
Words(texts) == [i \in DOMAIN texts |-> Word(texts[i])]
Option(text) == Words(<<"-o", text>>)

Unread == [options |-> {}, port |-> "", user |-> "", host |-> "", command |-> <<>>,
           ended |-> FALSE]

Init ==
    /\ mode = "open"
    /\ remote = <<>>
    /\ pooling = FALSE
    /\ controlPath = FALSE
    /\ terminal = FALSE
    /\ warned = FALSE
    /\ target = Nowhere
    /\ pc = "idle"
    /\ arguments = <<>>
    /\ place = 1
    /\ client = Unread
    /\ reached = Nowhere
    /\ sockets = <<>>
    /\ sessions = 0

\* The user runs a command; only ssh run on one environment at a terminal is
\* inherited.
Ask ==
    /\ pc \in {"idle", "connected", "failed", "refused"}
    /\ sessions < MaxSessions
    /\ sessions' = sessions + 1
    /\ mode' \in {"open", "inherited", "captured"}
    /\ remote' \in IF mode' = "open" THEN {<<>>} ELSE RemoteCommands
    /\ pooling' \in BOOLEAN
    /\ controlPath' \in BOOLEAN
    /\ terminal' \in IF mode' = "inherited" THEN {TRUE} ELSE BOOLEAN
    /\ target' = Nowhere
    /\ warned' = FALSE
    /\ pc' = "check"
    /\ arguments' = <<>>
    /\ place' = 1
    /\ client' = Unread
    /\ reached' = Nowhere
    /\ UNCHANGED sockets

-----------------------------------------------------------------------------
\* The client is missing or broken, a request or the start of a process fails.
Fail ==
    /\ pc \in {"check", "fetch", "build", "spawn"}
    /\ pc' = "failed"
    /\ UNCHANGED <<asked, target, warned, arguments, reading, reached, pool>>

\* ControlPool: a path, or else a warning.
MayPool == pooling /\ controlPath

\* On stderr, or in the warnings of the report.
UnpooledWarning == pooling /\ ~MayPool

\* ssh open wants a terminal, and ssh -V succeeds.
CheckAvailable ==
    /\ pc = "check"
    /\ mode = "open" => terminal
    /\ warned' = UnpooledWarning
    /\ pc' = "fetch"
    /\ UNCHANGED <<asked, target, arguments, reading, reached, pool>>

\* The port fits u16, and SshTarget::try_new.
TryNew(answer) ==
    /\ answer.host \notin BadHost
    /\ answer.user \notin BadUser
    /\ answer.port \notin BadPort

\* The answer of ssh/config must be about the environment that was asked for.
Fetch ==
    /\ pc = "fetch"
    /\ \E answer \in Answer :
         /\ answer.own
         /\ TryNew(answer)
         /\ target' = [host |-> answer.host, user |-> answer.user, port |-> answer.port]
    /\ pc' = "build"
    /\ UNCHANGED <<asked, warned, arguments, reading, reached, pool>>

CommandIsMissing ==
    \/ mode # "open" /\ remote = <<>>
    \/ remote # <<>> /\ Head(remote) = ""

CapturedArguments ==
    IF mode = "captured" THEN Words(<<"-T">>) \o Option("BatchMode=yes") ELSE <<>>

PoolArguments ==
    IF MayPool
    THEN Option("ControlMaster=auto") \o Option("ControlPersist=60s")
           \o Option("ControlPath")
    ELSE <<>>

\* Deviations that the checked properties must notice stand just before the
\* definition each of them replaces, and are used nowhere else.
BuildCommandFirst ==
    /\ pc = "build"
    /\ ~CommandIsMissing
    /\ arguments' = CapturedArguments \o PoolArguments \o Words(remote)
                      \o Words(<<"-p", target.port>>)
                      \o <<[user |-> target.user, text |-> target.host]>>
    /\ pc' = "spawn"
    /\ UNCHANGED <<asked, target, warned, reading, reached, pool>>

\* build_arguments; the adapter gives no working directory.
Build ==
    /\ pc = "build"
    /\ ~CommandIsMissing
    /\ arguments' = CapturedArguments \o PoolArguments
                      \o Words(<<"-p", target.port>>)
                      \o <<[user |-> target.user, text |-> target.host]>>
                      \o Words(remote)
    /\ pc' = "spawn"
    /\ UNCHANGED <<asked, target, warned, reading, reached, pool>>

Spawn ==
    /\ pc = "spawn"
    /\ pc' = "reading"
    /\ UNCHANGED <<asked, target, warned, arguments, reading, reached, pool>>

-----------------------------------------------------------------------------
(* The OpenSSH client.                                                     *)

BeginsWithDash(argument) ==
    IF argument.user = "" THEN argument.text \in Dashed ELSE argument.user = "dashed"

Argument == arguments[place]

\* Another argument is to be read, as an option or as a word.
AtOption ==
    /\ pc = "reading" /\ place <= Len(arguments)
    /\ ~client.ended /\ BeginsWithDash(Argument)

AtWord ==
    /\ pc = "reading" /\ place <= Len(arguments)
    /\ client.ended \/ ~BeginsWithDash(Argument)

ReadAlone ==
    /\ AtOption
    /\ Argument \in {Word(text) : text \in Alone}
    /\ client' = [client EXCEPT !.options = @ \union {Argument.text}]
    /\ place' = place + 1
    /\ UNCHANGED <<asked, target, warned, pc, arguments, reached, pool>>

\* A port or a user is kept once it is known.
Known(value, given) == IF value = "" THEN given ELSE value

ReadValued ==
    /\ AtOption
    /\ place < Len(arguments)
    /\ LET value == arguments[place + 1].text IN
         \/ /\ Argument = Word("-o")
            /\ value \in Settings
            /\ client' = [client EXCEPT !.options = @ \union {value}]
         \/ /\ Argument = Word("-p")
            /\ client' = [client EXCEPT !.port = Known(@, value)]
         \/ /\ Argument = Word("-l")
            /\ client' = [client EXCEPT !.user = Known(@, value)]
    /\ place' = place + 2
    /\ UNCHANGED <<asked, target, warned, pc, arguments, reached, pool>>

ReadEnd ==
    /\ AtOption
    /\ Argument = Word("--")
    /\ client' = [client EXCEPT !.ended = TRUE]
    /\ place' = place + 1
    /\ UNCHANGED <<asked, target, warned, pc, arguments, reached, pool>>

\* The client ends at an option it does not have, or whose value is missing or
\* unknown.
Refuse ==
    /\ AtOption
    /\ \/ Argument \notin {Word(text) : text \in Alone \union Valued \union {"--"}}
       \/ /\ Argument \in {Word(text) : text \in Valued}
          /\ place = Len(arguments)
       \/ /\ Argument = Word("-o")
          /\ place < Len(arguments)
          /\ arguments[place + 1].text \notin Settings
    /\ pc' = "refused"
    /\ UNCHANGED <<asked, target, warned, arguments, reading, reached, pool>>

ReadDestination ==
    /\ AtWord
    /\ client.host = ""
    /\ client' = [client EXCEPT !.user = Known(@, Argument.user), !.host = Argument.text]
    /\ place' = place + 1
    /\ UNCHANGED <<asked, target, warned, pc, arguments, reached, pool>>

ReadCommand ==
    /\ AtWord
    /\ client.host # ""
    /\ client' = [client EXCEPT !.command =
                    [i \in 1..(Len(arguments) - place + 1) |->
                       arguments[place + i - 1].text]]
    /\ place' = Len(arguments) + 1
    /\ UNCHANGED <<asked, target, warned, pc, arguments, reached, pool>>

HostName == IF "HostName" \in client.options THEN Elsewhere ELSE client.host

SocketOfHost == <<HostName>>

\* ControlPath ends in %C: the client puts in a hash of host, port and user.
Socket == <<HostName, client.port, client.user>>

Pooled == "ControlPath" \in client.options

\* Through the connection of the socket, if there is one.
Connect ==
    /\ pc = "reading"
    /\ place = Len(arguments) + 1
    /\ LET direct == [host |-> HostName, user |-> client.user, port |-> client.port] IN
         IF Pooled
         THEN /\ reached' = IF Socket \in DOMAIN sockets THEN sockets[Socket] ELSE direct
              /\ sockets' = [s \in DOMAIN sockets \union {Socket} |->
                               IF s = Socket THEN reached' ELSE sockets[s]]
         ELSE /\ reached' = direct
              /\ UNCHANGED sockets
    /\ pc' = "connected"
    /\ UNCHANGED <<asked, target, warned, arguments, reading, sessions>>

\* ControlPersist=60s runs out.
Expire ==
    /\ \E socket \in DOMAIN sockets :
         sockets' = [s \in DOMAIN sockets \ {socket} |-> sockets[s]]
    /\ UNCHANGED <<asked, target, warned, pc, arguments, reading, reached, sessions>>

-----------------------------------------------------------------------------
Next ==
    \/ Ask
    \/ CheckAvailable
    \/ Fetch
    \/ Build
    \/ Spawn
    \/ Fail
    \/ ReadAlone
    \/ ReadValued
    \/ ReadEnd
    \/ Refuse
    \/ ReadDestination
    \/ ReadCommand
    \/ Connect
    \/ Expire

Spec == Init /\ [][Next]_vars

-----------------------------------------------------------------------------
\* Every variable has its type; what is fetched is an SshTarget.
TypeOK ==
    /\ mode \in {"open", "inherited", "captured"}
    /\ remote \in RemoteCommands \union {<<>>}
    /\ {pooling, controlPath, terminal, warned} \subseteq BOOLEAN
    /\ pc \in {"idle", "check", "fetch", "build", "spawn", "reading", "connected", "failed",
              "refused"}
    /\ target \in SshTarget \union {Nowhere}
    /\ place \in 1..(Len(arguments) + 1)
    /\ sessions \in 0..MaxSessions

\* The name of the command begins with a dash.
LedByDash == remote # <<>> /\ Head(remote) \in Dashed

\* A command runs where the API said and nowhere else, also through the
\* connection an earlier command left: environments share hosts and differ in
\* port or user, and a command led by a dash may have led its connection
\* elsewhere (build_arguments, and %C in secure_control_path).
ReachesTheTarget == (pc = "connected" /\ ~LedByDash) => (reached = target)

\* The client understands the array as it was meant: it can be read to its
\* end, and the command with all its arguments is the user's.
ClientUnderstands ==
    /\ (pc = "refused") => LedByDash
    /\ (pc = "connected" /\ ~LedByDash) => (client.command = remote)

\* A captured client has no terminal and must not wait for an answer, whatever
\* its command; one with the user's terminal must be able to ask for a password
\* or a host key, unless the user's command has forbidden it.
AsksOnlyAtTheTerminal ==
    (pc = "connected") =>
        /\ (mode = "captured") => ("BatchMode=yes" \in client.options)
        /\ ("BatchMode=yes" \in client.options) => (mode = "captured" \/ LedByDash)

\* Only ssh open gets a shell: a run without a command, or with an empty name,
\* never reaches the server.
OnlyOpenGetsAShell ==
    (pc = "connected" /\ mode # "open" /\ ~LedByDash) =>
        /\ client.command # <<>>
        /\ Head(client.command) # ""

\* What the documentation of ssh run says of every command: it and its arguments
\* are interpreted by the remote shell (cli.rs:465).  It does not hold of a
\* command led by a dash.
CommandIsRemote == (pc = "connected" /\ mode # "open") => (client.command = remote)

\* The client does what was meant: it reads its arguments as they were written,
\* asks only at a terminal, and gives a shell only to ssh open.  A command led by
\* a dash is excepted where it is the client that reads it.
ClientAsMeant ==
    /\ TypeOK
    /\ ClientUnderstands
    /\ AsksOnlyAtTheTerminal
    /\ OnlyOpenGetsAShell
=============================================================================
