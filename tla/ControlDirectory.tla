-------------------------- MODULE ControlDirectory --------------------------
(* The directory for the sockets of shared SSH connections, as every hb     *)
(* process looks for it: below XDG_RUNTIME_DIR, else in the directory for   *)
(* temporary files.  A candidate is taken if it is, and already was, a      *)
(* private directory of the user in a place nobody else can replace it in.  *)
(*                                                                          *)
(* Processes do this at the same time, may be killed at any step, and       *)
(* process numbers come back; any call to the file system may fail.         *)
EXTENDS Integers, Sequences, FiniteSets

CONSTANTS
    Process,
    MaxStarts, \* bound: how often a process is started, with the same number
    None

DirectoryAssumption == MaxStarts \in Nat /\ None \notin 1 .. 2

Candidate == 1 .. 2

VARIABLES
    place,  \* per candidate: [trusted, short], what holds of its parent and path
    entry,  \* per candidate: None or [kind, mine, private]
    probes, \* the probe files there are: <<where, process, number>>, 0 for temp_dir
    pc,     \* per process
    at,     \* per process: the candidate it tries
    asked, probed, \* per process: UID_PROBE_SEQUENCE and PROBE_SEQUENCE
    control,\* per process: the candidate taken, or None
    warned, \* per process: pooling is unavailable
    starts, \* per process
    trouble \* history: a call failed or a process was killed

vars == <<place, entry, probes, pc, at, asked, probed, control, warned, starts, trouble>>

OwnDirectory == [kind |-> "directory", mine |-> TRUE, private |-> TRUE]

\* A file, or a link to a directory.
Other == [kind |-> "other", mine |-> TRUE, private |-> TRUE]

Init ==
    /\ place \in [Candidate -> [trusted : BOOLEAN, short : BOOLEAN]]
    /\ entry \in [Candidate -> {None, Other} \cup [kind : {"directory"}, mine : BOOLEAN,
                                                   private : BOOLEAN]]
    /\ probes = {}
    /\ pc = [p \in Process |-> "uid"] /\ at = [p \in Process |-> 0]
    /\ asked = [p \in Process |-> 0] /\ probed = [p \in Process |-> 0]
    /\ control = [p \in Process |-> None] /\ warned = [p \in Process |-> FALSE]
    /\ starts = [p \in Process |-> 0] /\ trouble = FALSE

Goes(p, step) == pc' = [pc EXCEPT ![p] = step]

\* ControlPool::discover without a path.
Warns(p) == warned' = [warned EXCEPT ![p] = TRUE] /\ Goes(p, "done") /\ UNCHANGED at

\* To the next candidate, or on without pooling.
TriesNext(p) ==
    IF at[p] = 1
    THEN at' = [at EXCEPT ![p] = @ + 1] /\ Goes(p, "uid") /\ UNCHANGED warned
    ELSE Warns(p)

\* A refusal is final before the first candidate is tried.
Refuses(p) ==
    /\ IF at[p] = 0 THEN Warns(p) ELSE TriesNext(p)
    /\ UNCHANGED control

Proceeds(p, step) == Goes(p, step) /\ UNCHANGED <<at, warned, control>>

NumberProbe(p) == <<0, p, asked[p]>>
OwnerProbe(p) == <<at[p], p, probed[p]>>

\* current_uid creates a file and looks whose it is.
AskUid(p) ==
    /\ pc[p] = "uid"
    /\ asked' = [asked EXCEPT ![p] = @ + 1]
    /\ IF NumberProbe(p) \in probes
       THEN Refuses(p) /\ UNCHANGED probes
       ELSE probes' = probes \cup {NumberProbe(p)} /\ Proceeds(p, "uid known")
    /\ UNCHANGED <<place, entry, probed, starts, trouble>>

LastNumberProbe(p) == <<0, p, asked[p] - 1>>

ForgetUid(p) ==
    /\ pc[p] = "uid known"
    /\ probes' = probes \ {LastNumberProbe(p)}
    /\ IF at[p] = 0
       THEN at' = [at EXCEPT ![p] = 1] /\ Goes(p, "uid") /\ UNCHANGED <<warned, control>>
       ELSE Proceeds(p, "parent")
    /\ UNCHANGED <<place, entry, asked, probed, starts, trouble>>

\* validate_control_parent.
CheckParent(p) ==
    /\ pc[p] = "parent"
    /\ IF place[at[p]].trusted THEN Proceeds(p, "create") ELSE Refuses(p)
    /\ UNCHANGED <<place, entry, probes, asked, probed, starts, trouble>>

\* A deviation that the checked properties must notice stands just before the
\* definition it replaces, and is used nowhere else.
CreateOnly(p) ==
    /\ pc[p] = "create"
    /\ IF entry[at[p]] = None
       THEN entry' = [entry EXCEPT ![at[p]] = OwnDirectory] /\ Proceeds(p, "inspect")
       ELSE UNCHANGED entry /\ Refuses(p)
    /\ UNCHANGED <<place, probes, asked, probed, starts, trouble>>

Create(p) ==
    /\ pc[p] = "create"
    /\ entry' = [entry EXCEPT ![at[p]] = IF @ = None THEN OwnDirectory ELSE @]
    /\ Proceeds(p, "inspect")
    /\ UNCHANGED <<place, probes, asked, probed, starts, trouble>>

Acceptable(c) == entry[c] = OwnDirectory

Inspect(p) ==
    /\ pc[p] = "inspect"
    /\ IF Acceptable(at[p]) THEN Proceeds(p, "probe") ELSE Refuses(p)
    /\ UNCHANGED <<place, entry, probes, asked, probed, starts, trouble>>

Probe(p) ==
    /\ pc[p] = "probe"
    /\ probed' = [probed EXCEPT ![p] = @ + 1]
    /\ IF OwnerProbe(p) \in probes
       THEN Refuses(p) /\ UNCHANGED probes
       ELSE probes' = probes \cup {OwnerProbe(p)} /\ Proceeds(p, "probed")
    /\ UNCHANGED <<place, entry, asked, starts, trouble>>

LastOwnerProbe(p) == <<at[p], p, probed[p] - 1>>

RemoveProbe(p) ==
    /\ pc[p] = "probed"
    /\ probes' = probes \ {LastOwnerProbe(p)}
    /\ Proceeds(p, "secure")
    /\ UNCHANGED <<place, entry, asked, probed, starts, trouble>>

\* What stands there after its mode is set must still be what was inspected.
Secured(c) ==
    entry'[c].kind = "directory" /\ entry'[c].mine /\ entry'[c].private /\ place[c].short

Secure(p) ==
    /\ pc[p] = "secure"
    /\ entry' = [entry EXCEPT ![at[p]].private = TRUE]
    /\ IF Secured(at[p])
       THEN /\ control' = [control EXCEPT ![p] = at[p]]
            /\ Goes(p, "done") /\ UNCHANGED <<at, warned>>
       ELSE Refuses(p)
    /\ UNCHANGED <<place, probes, asked, probed, starts, trouble>>

-----------------------------------------------------------------------------
(* Failures.                                                                *)

\* A call fails; a file that is there is removed even then.
Fail(p) ==
    /\ pc[p] # "done"
    /\ trouble' = TRUE
    /\ probes' = CASE pc[p] = "uid known" -> probes \ {LastNumberProbe(p)}
                   [] pc[p] = "probed" -> probes \ {LastOwnerProbe(p)}
                   [] OTHER -> probes
    /\ asked' = [asked EXCEPT ![p] = IF pc[p] = "uid" THEN @ + 1 ELSE @]
    /\ probed' = [probed EXCEPT ![p] = IF pc[p] = "probe" THEN @ + 1 ELSE @]
    /\ Refuses(p)
    /\ UNCHANGED <<place, entry, starts>>

\* It is killed, or it is over; later there is a process with its number.
Restart(p) ==
    /\ starts[p] < MaxStarts
    /\ starts' = [starts EXCEPT ![p] = @ + 1]
    /\ trouble' = (trouble \/ pc[p] # "done")
    /\ Goes(p, "uid") /\ at' = [at EXCEPT ![p] = 0]
    /\ asked' = [asked EXCEPT ![p] = 0] /\ probed' = [probed EXCEPT ![p] = 0]
    /\ control' = [control EXCEPT ![p] = None] /\ warned' = [warned EXCEPT ![p] = FALSE]
    /\ UNCHANGED <<place, entry, probes>>

Step(p) ==
    \/ AskUid(p) \/ ForgetUid(p) \/ CheckParent(p) \/ Create(p) \/ Inspect(p)
    \/ Probe(p) \/ RemoveProbe(p) \/ Secure(p)

Next == \E p \in Process : Step(p) \/ Fail(p) \/ Restart(p)

Spec == Init /\ [][Next]_vars

-----------------------------------------------------------------------------

TypeOK ==
    /\ \A c \in Candidate :
          entry[c] # None => entry[c].kind \in {"directory", "other"}
                             /\ entry[c].mine \in BOOLEAN /\ entry[c].private \in BOOLEAN
    /\ at \in [Process -> 0 .. 2] /\ control \in [Process -> Candidate \cup {None}]
    /\ \A p \in Process : (pc[p] = "done") = (warned[p] \/ control[p] # None)

\* Connections are only shared through a private directory of the user, in a
\* place where it stays, under a name that is not too long for a socket.
SharesInPrivate ==
    \A p \in Process :
        control[p] # None =>
            /\ entry[control[p]] = OwnDirectory
            /\ place[control[p]].trusted /\ place[control[p]].short

\* Processes that run at the same time share their connections: without trouble
\* they all come to the same directory, or all to none.
SameForAll ==
    ~ trouble =>
        \A p, q \in Process :
            pc[p] = "done" /\ pc[q] = "done" => control[p] = control[q]

\* Without trouble no probe file is left, whatever candidate was refused and why.
NothingLeftBehind ==
    ~ trouble /\ (\A p \in Process : pc[p] = "done") => probes = {}

\* Processes share their connections with each other and with nobody else, and
\* leave nothing else behind.
SharedAmongOwn ==
    /\ TypeOK
    /\ SharesInPrivate
    /\ SameForAll
    /\ NothingLeftBehind
=============================================================================
