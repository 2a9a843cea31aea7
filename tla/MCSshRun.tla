------------------------------ MODULE MCSshRun ------------------------------
(* hb ssh run, for TLC: what its selectors select, and the run of one to    *)
(* three environments, which have their own identities there.  The two are  *)
(* checked apart: an initial state is one of one of them, and the other has *)
(* finished.                                                                *)
EXTENDS RunParts

CONSTANTS e1, e2, e3

UpToThree == {<<e1>>, <<e1, e2>>, <<e1, e2, e3>>}

Setting(failFast, yes, interactive) ==
    [failFast |-> failFast, yes |-> yes, interactive |-> interactive]

AllSettings == {Setting(f, y, i) : f, y, i \in BOOLEAN}

selection == <<selecting, request, response, catalog, result, previous>>

Env(id, name, kind) == [id |-> id, name |-> name, kind |-> kind, domain |-> id]
Site(id, name, labels, environments) ==
    [id |-> id, name |-> name, labels |-> labels, environments |-> environments]

Run(environments, sites, kinds, labels, all) ==
    [command |-> "run", environments |-> environments, sites |-> sites,
     kinds |-> kinds, labels |-> labels, all |-> all]

\* 9 is an identifier or a label nothing has.
CommandLines ==
    {Run(e, s, k, l, FALSE) :
        e \in {{}, {1}, {1, 3}, {2, 9}, {0}}, s \in {{}, {1}, {1, 2}, {9}},
        k \in {{}, {"production"}, {"staging", "other"}}, l \in {{}, {2}, {1, 9}}}
    \cup {Run({}, {}, {}, {}, TRUE)}
    \cup {[Run({id}, {}, {}, {}, FALSE) EXCEPT !.command = "open"] : id \in {0, 1, 3, 9}}
    \cup {[Run({}, {id}, {}, {}, FALSE) EXCEPT !.command = "list"] : id \in {0, 1, 9}}

EitherWay(x, y) == {<<x, y>>, <<y, x>>}

\* Two sites that may share a name and three environments that may share kind
\* and name; an account of distinct identifiers, in every order.
Distinct ==
    UNION {EitherWay(Site(1, 1, {1}, first), Site(2, name, {1, 2}, <<Env(3, 1, kind)>>)) :
              first \in UNION {EitherWay(Env(1, 1, k), Env(2, 1, "LIVE")) :
                                  k \in {"production", "qa"}},
              kind \in {"live", "staging"}, name \in {1, 2}}

\* An identifier is refused, or an environment or a site appears twice.
Confused ==
    {<<Site(1, 1, {1}, <<Env(1, 1, "live"), Env(second, 2, "dev")>>),
       Site(other, 2, {2}, <<Env(third, 1, "live")>>)>> :
        second \in {0, 1, 2}, third \in {1, 3}, other \in {1, 2}}

Accounts == Distinct \cup Confused \cup {<<>>}

\* A broad selection that nobody could confirm.
RunFinished ==
    /\ phase = "done" /\ exit = 6
    /\ selected = <<e1>> /\ broad = TRUE /\ setting = Setting(TRUE, FALSE, FALSE)
    /\ answer = "none" /\ loading = <<"queued">> /\ ssh = <<None>>
    /\ ready = <<>> /\ failures = <<>>
    /\ status = <<>> /\ cancelled = FALSE /\ executed = <<>>
    /\ inherited = None /\ signalCode = None /\ results = <<>>

\* A command line with a malformed identifier, refused twice.
SelectionFinished ==
    /\ selecting = "resolved" /\ response = <<>> /\ catalog = <<>>
    /\ request = [Run({0}, {}, {}, {}, FALSE) EXCEPT !.command = "open"]
    /\ result = Selecting!Refused("InvalidInput") /\ previous = result

RunInit ==
    \/ Init /\ SelectionFinished
    \/ Selecting!Init /\ RunFinished

RunNext ==
    \/ Next /\ UNCHANGED selection
    \/ Selecting!Next /\ UNCHANGED vars

RunSpec == RunInit /\ [][RunNext]_<<vars, selection>>
=============================================================================
