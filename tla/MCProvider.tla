----------------------------- MODULE MCProvider -----------------------------
(* What hb does with the provider: a credential is collected and had back,  *)
(* a request validates it, an inventory is paged.  The three share no state:*)
(* an initial state is one of one of them, and the others have finished.    *)
EXTENDS ProviderParts

Item(name, envs) == [name |-> name, envs |-> envs]
Place(site, env) == [site |-> site, env |-> env]

\* A company with three inventories and three catalogs in turn, one of which
\* lists an environment twice.
SomeVersions ==
    << [stamp |-> "t1", items |-> <<Item("a", {"e1"}), Item("b", {"e1", "e2"}),
                                    Item("c", {"e2"})>>],
       [stamp |-> "t2", items |-> <<Item("a", {"e1"}), Item("c", {"e3"}),
                                    Item("d", {})>>],
       [stamp |-> "t3", items |-> <<>>] >>

SomeCatalogs ==
    << <<Place("s1", "e1"), Place("s1", "e2")>>,
       <<Place("s1", "e1"), Place("s2", "e2"), Place("s2", "e3")>>,
       <<Place("s1", "e1"), Place("s2", "e1")>> >>

FirstItems == {SomeVersions[1].items[i] : i \in 1 .. 3}

SomeStatuses == {200, 204, 302, 400, 401, 403, 404, 408, 429, 503}

\* Nothing, tokens of one to three bytes, line ends behind them and inside, and
\* what is not text.
SomeTexts == {<<>>, <<0>>, <<0, 0>>, <<0, 0, 0>>, <<0, 10>>, <<0, 13, 10>>, <<0, 10, 10>>,
              <<10>>, <<0, 13>>, <<0, 7>>, <<0, 10, 0>>, <<0, 255>>}

inventory == vars
request == <<requestPhase, token, answer, sent, received, expired, outcome>>
credential == <<flags, interactive, piped, variable, store, locked, credentialPhase,
                prompted, source, candidate, resolution>>

\* A call that failed before its first page.
InventoryFinished ==
    /\ honest = TRUE /\ version = 1 /\ catalogVersion = 1
    /\ report = NoReport /\ ended = TRUE /\ phase = "done"
    /\ offset = 0 /\ total = NoTotal /\ refreshedAt = "none"
    /\ items = <<>> /\ pages = 0 /\ body = 0
    /\ catalog = <<>> /\ fetches = 0 /\ error = "InvalidInput"

RequestFinished ==
    /\ requestPhase = "done" /\ token = "unusable" /\ outcome = "InvalidInput"
    /\ answer = [status |-> 200, announces |-> FALSE, size |-> 0, text |-> "malformed"]
    /\ sent = 0 /\ received = 0 /\ expired = FALSE

CredentialFinished ==
    /\ flags = [stdin |-> TRUE, variable |-> TRUE] /\ interactive = FALSE
    /\ piped = <<>> /\ variable = None /\ store = None /\ locked = FALSE
    /\ credentialPhase = "failed" /\ prompted = FALSE /\ source = "none"
    /\ candidate = None /\ resolution = Credentials!Nothing

ProviderInit ==
    \/ Init /\ RequestFinished /\ CredentialFinished
    \/ Request!Init /\ InventoryFinished /\ CredentialFinished
    \/ Credentials!Init /\ InventoryFinished /\ RequestFinished

ProviderNext ==
    \/ Next /\ UNCHANGED <<request, credential>>
    \/ Request!Next /\ UNCHANGED <<inventory, credential>>
    \/ Credentials!Next /\ UNCHANGED <<inventory, request>>

ProviderSpec ==
    /\ ProviderInit /\ [][ProviderNext]_<<inventory, request, credential>>
    /\ Fairness /\ Request!Fairness

-----------------------------------------------------------------------------

\* The inventory and every request end, whatever the server does.
EveryCallEnds == Returns /\ Request!EveryRequestEnds
=============================================================================
