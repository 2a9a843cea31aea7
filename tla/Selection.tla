----------------------------- MODULE Selection -----------------------------
(* The commands that name sites and environments: environment list, show    *)
(* and ssh open take one exact identifier; ssh run takes repeated selectors *)
(* of four categories.  Each fetches the catalog and resolves against it.   *)
(* The provider may answer in any order, and the command may be run again.  *)
(* Identifiers, display names and labels are numbers in the order of their  *)
(* strings; an identifier that OpaqueId refuses is 0.                       *)
EXTENDS Integers, Sequences, FiniteSets

CONSTANTS
    Responses,  \* what the provider may answer: sequences of raw sites
    Requests    \* command lines: [command, environments, sites, kinds, labels, all]

RawEnvironment == [id : Nat, name : Nat, kind : STRING, domain : Nat]
RawSite ==
    [id : Nat, name : Nat, labels : SUBSET Nat, environments : Seq(RawEnvironment)]
CommandLine ==
    [command : {"run", "list", "open"}, environments : SUBSET Nat, sites : SUBSET Nat,
     kinds : SUBSET STRING, labels : SUBSET Nat, all : BOOLEAN]

\* What clap lets through: --all excludes the other selectors, and the exact
\* commands take exactly one identifier.
RequestAssumption ==
    /\ Responses \subseteq Seq(RawSite)
    /\ Requests \subseteq CommandLine
    /\ \A r \in Requests :
          /\ r.all => r.environments \cup r.sites \cup r.kinds \cup r.labels = {}
          /\ r.command = "list" =>
                r.environments = {} /\ \E id \in r.sites : r.sites = {id}
          /\ r.command = "open" =>
                r.sites = {} /\ \E id \in r.environments : r.environments = {id}

VARIABLES
    phase,     \* "fetch", "resolve" or "resolved"
    request,
    response,
    catalog,
    result,    \* [code, targets, broad, domain], or Missing
    previous   \* the result of the first of two runs, or Missing

vars == <<phase, request, response, catalog, result, previous>>

-----------------------------------------------------------------------------
(* What the adapter makes of the provider's list of sites: references, the  *)
(* normalized kinds, and one order, whatever the order of the response.     *)

Missing == [missing |-> TRUE]
NoDomain == 0

\* A finite set in an order: so many of it come before the one at a place.
InOrder(set, before) ==
    [k \in 1 .. Cardinality(set) |->
        CHOOSE x \in set : Cardinality({y \in set : <<y, x>> \in before}) = k - 1]

\* Comparisons of what is compared first, then what is next, and so on.
Less(one, other) ==
    \E n \in DOMAIN one : one[n] < other[n] /\ \A m \in 1 .. n - 1 : one[m] = other[m]

\* Places in the order of their keys; what is not told apart stays in order.
ByKey(keys) ==
    {pair \in (DOMAIN keys) \X (DOMAIN keys) :
        Less(Append(keys[pair[1]], pair[1]), Append(keys[pair[2]], pair[2]))}

SortedBy(list, keys) ==
    LET places == InOrder(DOMAIN list, ByKey(keys))
    IN [k \in DOMAIN list |-> list[places[k]]]

\* normalize_environment_kind: names are compared without their case.
NormalizedKind(name) ==
    CASE name \in {"live", "LIVE", "prod", "production"} -> "production"
      [] name \in {"stage", "staging"} -> "staging"
      [] name \in {"dev", "development"} -> "development"
      [] OTHER -> "other"

KindRank(kind) ==
    CASE kind = "production" -> 0 [] kind = "staging" -> 1
      [] kind = "development" -> 2 [] OTHER -> 3

EnvironmentKey(e) == <<KindRank(e.kind), e.name, e.id>>

SiteKey(s) == <<s.name, s.id>>

MapEnvironment(site, raw) ==
    [site |-> site, id |-> raw.id, name |-> raw.name,
     kind |-> NormalizedKind(raw.kind), domain |-> raw.domain]

\* The domain of the first production environment, which may have none.
PrimaryDomain(environments) ==
    LET production == {k \in DOMAIN environments : environments[k].kind = "production"}
    IN IF production = {} THEN NoDomain
       ELSE environments[CHOOSE k \in production : \A l \in production : k <= l].domain

MapSite(raw) ==
    LET mapped == [i \in DOMAIN raw.environments |->
                      MapEnvironment(raw.id, raw.environments[i])]
        environments == SortedBy(mapped, [i \in DOMAIN mapped |-> EnvironmentKey(mapped[i])])
    IN [id |-> raw.id, name |-> raw.name, labels |-> raw.labels,
        domain |-> PrimaryDomain(environments), environments |-> environments]

\* An identifier that is refused makes the whole response unusable.
Mappable(given) ==
    \A i \in DOMAIN given :
        /\ given[i].id # 0
        /\ \A j \in DOMAIN given[i].environments :
              given[i].environments[j].id # 0

MapCatalog(given) ==
    LET sites == [i \in DOMAIN given |-> MapSite(given[i])]
    IN SortedBy(sites, [i \in DOMAIN sites |-> SiteKey(sites[i])])

\* Every environment of a list of sites: its site's place there, and its own
\* in that site.
Places(sites) ==
    UNION {{i} \X (DOMAIN sites[i].environments) : i \in DOMAIN sites}

InPlace(places) == {pair \in places \X places : Less(pair[1], pair[2])}

At(sites, place) == sites[place[1]].environments[place[2]]

\* The orders a list may be answered in.
Reordered(list) ==
    {[i \in DOMAIN list |-> list[p[i]]] :
        p \in {q \in [DOMAIN list -> DOMAIN list] :
                  \A i, j \in DOMAIN list : q[i] = q[j] => i = j}}

-----------------------------------------------------------------------------
(* What the commands make of the catalog.                                   *)

Refused(code) == [code |-> code, targets |-> <<>>, broad |-> FALSE, domain |-> 0]
Resolved(targets, broad, domain) ==
    [code |-> "ok", targets |-> targets, broad |-> broad, domain |-> domain]

\* A deviation that the checked properties must notice stands just before the
\* definition it replaces, and is used nowhere else.
FirstOf(matches) == IF matches = {} THEN "NotFound" ELSE "ok"

\* No match, one, or several.
Verdict(matches) ==
    CASE matches = {} -> "NotFound" [] \E match \in matches : matches = {match} -> "ok"
      [] OTHER -> "AmbiguousTarget"

SitesOf(snapshot, id) == {i \in DOMAIN snapshot : snapshot[i].id = id}
EnvironmentsOf(snapshot, id) == {p \in Places(snapshot) : At(snapshot, p).id = id}
Labelled(snapshot, label) == \E i \in DOMAIN snapshot : label \in snapshot[i].labels

\* resolve_site and resolve_environment.
ResolveSite(snapshot, id) ==
    LET sites == SitesOf(snapshot, id)
        site == snapshot[CHOOSE i \in sites : TRUE]
    IN IF Verdict(sites) = "ok" THEN Resolved(site.environments, FALSE, site.domain)
       ELSE Refused(Verdict(sites))

ResolveEnvironment(snapshot, id) ==
    LET places == EnvironmentsOf(snapshot, id)
    IN IF Verdict(places) = "ok"
       THEN Resolved(<<At(snapshot, CHOOSE p \in places : TRUE)>>, FALSE, 0)
       ELSE Refused(Verdict(places))

-----------------------------------------------------------------------------
(* ssh run.                                                                 *)

Broad(r) == r.all \/ r.sites # {} \/ r.kinds # {} \/ r.labels # {}

\* validate_selection_syntax: at least one selector, none malformed.
WellFormed(r) ==
    /\ Broad(r) \/ r.environments # {}
    /\ 0 \notin r.environments \cup r.sites \cup r.labels

\* The selectors of a category are validated in the order of a hash set: the
\* first one that fails gives the error.
Refusals(r, snapshot) ==
    LET environments == {Verdict(EnvironmentsOf(snapshot, id)) : id \in r.environments} \ {"ok"}
        sites == {Verdict(SitesOf(snapshot, id)) : id \in r.sites} \ {"ok"}
        labels == IF \A l \in r.labels : Labelled(snapshot, l) THEN {} ELSE {"NotFound"}
    IN IF environments # {} THEN environments
       ELSE IF sites # {} THEN sites ELSE labels

SiteMatches(r, site) ==
    /\ r.sites = {} \/ site.id \in r.sites
    /\ r.labels = {} \/ r.labels \cap site.labels # {}

EnvironmentMatches(r, environment) ==
    /\ r.environments = {} \/ environment.id \in r.environments
    /\ r.kinds = {} \/ environment.kind \in r.kinds

Matching(r, snapshot) ==
    {p \in Places(snapshot) :
        SiteMatches(r, snapshot[p[1]]) /\ EnvironmentMatches(r, At(snapshot, p))}

\* Site after site, and in each environment after environment.
Targets(r, snapshot) ==
    LET order == InOrder(Matching(r, snapshot), InPlace(Matching(r, snapshot)))
    IN [k \in DOMAIN order |-> At(snapshot, order[k])]

SelectEnvironments(r, snapshot) ==
    CASE ~ WellFormed(r) -> {Refused("InvalidInput")}
      [] WellFormed(r) /\ Refusals(r, snapshot) # {} ->
            {Refused(code) : code \in Refusals(r, snapshot)}
      [] OTHER -> {IF Matching(r, snapshot) = {} THEN Refused("NotFound")
                   ELSE Resolved(Targets(r, snapshot), Broad(r), 0)}

\* What a command may make of a catalog.
Resolutions(r, snapshot) ==
    CASE r.command = "run" -> SelectEnvironments(r, snapshot)
      [] r.command = "list" -> {ResolveSite(snapshot, id) : id \in r.sites}
      [] OTHER -> {ResolveEnvironment(snapshot, id) : id \in r.environments}

-----------------------------------------------------------------------------

Init ==
    /\ phase = "fetch"
    /\ request \in Requests
    /\ response \in Responses
    /\ catalog = <<>> /\ result = Missing /\ previous = Missing

\* Syntax is checked before the provider is asked.
Malformed(r) ==
    CASE r.command = "run" -> ~ WellFormed(r)
      [] r.command = "list" -> 0 \in r.sites
      [] OTHER -> 0 \in r.environments

Fetch ==
    /\ phase = "fetch"
    /\ IF Malformed(request)
       THEN result' = Refused("InvalidInput") /\ phase' = "resolved" /\ UNCHANGED catalog
       ELSE IF ~ Mappable(response)
       THEN result' = Refused("ProviderUnavailable") /\ phase' = "resolved"
            /\ UNCHANGED catalog
       ELSE catalog' = MapCatalog(response) /\ phase' = "resolve" /\ UNCHANGED result
    /\ UNCHANGED <<request, response, previous>>

Resolve ==
    /\ phase = "resolve"
    /\ result' \in Resolutions(request, catalog)
    /\ phase' = "resolved"
    /\ UNCHANGED <<request, response, catalog, previous>>

\* The same lists in another order.
SameContent(one, other) ==
    \E shuffled \in Reordered(one) :
        /\ Len(shuffled) = Len(other)
        /\ \A i \in DOMAIN other :
              /\ other[i] \in {[shuffled[i] EXCEPT !.environments = l] :
                                  l \in Reordered(shuffled[i].environments)}

\* The command is run again, and the provider answers in another order.
RunAgain ==
    /\ phase = "resolved" /\ previous = Missing
    /\ response' \in {r \in Responses : SameContent(response, r)}
    /\ previous' = result
    /\ phase' = "fetch" /\ catalog' = <<>> /\ result' = Missing
    /\ UNCHANGED request

Next == Fetch \/ Resolve \/ RunAgain

Spec == Init /\ [][Next]_vars

-----------------------------------------------------------------------------

Codes == {"ok", "InvalidInput", "NotFound", "AmbiguousTarget", "ProviderUnavailable"}

TypeOK ==
    /\ phase \in {"fetch", "resolve", "resolved"}
    /\ request \in Requests /\ response \in Responses
    /\ \A run \in {result, previous} :
          run # Missing =>
              /\ run.code \in Codes /\ run.broad \in BOOLEAN
              /\ run.code = "ok" /\ request.command # "list" => run.targets # <<>>

\* What the response itself says, in no order.
EnvironmentAt(place) == At(response, place)

SitePlaces(id) == {i \in DOMAIN response : response[i].id = id}
EnvironmentPlaces(id) == {place \in Places(response) : EnvironmentAt(place).id = id}

Succeeded == result # Missing /\ result.code = "ok"

\* "Ambiguous or missing exact selectors fail rather than guessing" (README):
\* when a command that names identifiers succeeds, the provider listed each of
\* them exactly once, although the catalog is a list and nothing else refuses
\* an identifier it repeats.
ExactNeverGuesses ==
    Succeeded =>
        /\ \A id \in request.environments :
              \E place \in Places(response) : EnvironmentPlaces(id) = {place}
        /\ \A id \in request.sites :
              \E i \in DOMAIN response : SitePlaces(id) = {i}

\* A selection that needs no confirmation is the environments the command line
\* names and no other, each once.
NarrowIsExact ==
    Succeeded /\ request.command = "run" /\ ~ result.broad =>
        /\ {result.targets[i].id : i \in DOMAIN result.targets} = request.environments
        /\ \A i, j \in DOMAIN result.targets :
              result.targets[i].id = result.targets[j].id => i = j

\* "Repeated values within one selector category are ORed, while different
\* categories are ANDed" (README), said of the response: the targets are the
\* listed environments that every category given admits, one target for each.
Admitted(place) ==
    LET site == response[place[1]] environment == EnvironmentAt(place)
        admits(category, values) == category # {} => category \cap values # {}
    IN /\ admits(request.sites, {site.id})
       /\ admits(request.labels, site.labels)
       /\ admits(request.environments, {environment.id})
       /\ admits(request.kinds, {NormalizedKind(environment.kind)})

SelectsWhatIsAdmitted ==
    Succeeded /\ request.command = "run" =>
        LET admitted == {place \in Places(response) : Admitted(place)}
        IN \E at \in [DOMAIN result.targets -> admitted] :
              /\ \A place \in admitted : \E i \in DOMAIN result.targets : at[i] = place
              /\ \A i, j \in DOMAIN result.targets : at[i] = at[j] => i = j
              /\ \A i \in DOMAIN result.targets :
                    /\ result.targets[i].id = EnvironmentAt(at[i]).id
                    /\ result.targets[i].site = response[at[i][1]].id

Unambiguous ==
    /\ \A i, j \in DOMAIN response : response[i].id = response[j].id => i = j
    /\ \A p, q \in Places(response) : EnvironmentAt(p).id = EnvironmentAt(q).id => p = q

\* "Results remain in deterministic target order" (docs/design/0002): the order
\* of the provider's lists reaches neither the targets, nor their order, nor the
\* domain shown for a site, nor the error.
SameAgain ==
    result # Missing /\ previous # Missing /\ Unambiguous => result = previous

\* What is selected is what the command line names, exactly, and the same from
\* one time to the next.
SelectionIsExact ==
    /\ TypeOK
    /\ ExactNeverGuesses
    /\ NarrowIsExact
    /\ SelectsWhatIsAdmitted
    /\ SameAgain
=============================================================================
