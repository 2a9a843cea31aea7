---------------------------- MODULE AtomicStore ----------------------------
(***************************************************************************)
(* What the file store promises of profiles.json, with no files: an update *)
(* takes effect whole and at once or not at all; it is reported as failed  *)
(* only when it had no effect and never will have; a load returns the      *)
(* configuration of the moment; and a power loss brings back the           *)
(* configuration of some moment since the last one made durable.           *)
(***************************************************************************)
CONSTANTS Process,  \* each runs one update or one load
          Unset     \* nothing was loaded

VARIABLES value,    \* the configuration: the updates it shows
          older,    \* those a power loss may bring back, value among them
          outcome,  \* per process, "none" until its command returns
          loaded    \* per process, what its load returned

vars == <<value, older, outcome, loaded>>

Init ==
    /\ value = {}
    /\ older = {{}}
    /\ outcome = [p \in Process |-> "none"]
    /\ loaded = [p \in Process |-> Unset]

Apply(p) ==
    /\ outcome[p] = "none"
    /\ value' = value \union {p}
    /\ older' = older \union {value'}
    /\ UNCHANGED <<outcome, loaded>>

Succeed(p) ==
    /\ outcome[p] = "none"
    /\ p \in value
    /\ outcome' = [outcome EXCEPT ![p] = "ok"]
    /\ UNCHANGED <<value, older, loaded>>

Fail(p) ==
    /\ outcome[p] = "none"
    /\ \A v \in older : p \notin v
    /\ outcome' = [outcome EXCEPT ![p] = "failed"]
    /\ UNCHANGED <<value, older, loaded>>

Load(p) ==
    /\ loaded' = [loaded EXCEPT ![p] = value]
    /\ UNCHANGED <<value, older, outcome>>

MakeDurable ==
    /\ older' = {value}
    /\ UNCHANGED <<value, outcome, loaded>>

PowerLoss ==
    /\ value' \in older
    /\ older' = {value'}
    /\ UNCHANGED <<outcome, loaded>>

Next ==
    \/ \E p \in Process : Apply(p) \/ Succeed(p) \/ Fail(p) \/ Load(p)
    \/ MakeDurable
    \/ PowerLoss

Spec == Init /\ [][Next]_vars
=============================================================================
