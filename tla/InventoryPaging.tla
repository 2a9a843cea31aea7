-------------------------- MODULE InventoryPaging --------------------------
(* How the Kinsta adapter builds a company's component inventory: pages are *)
(* requested by offset until the announced total is reached, under limits   *)
(* on items, pages and bytes and one deadline for the whole paging; then    *)
(* the catalog is fetched, and once more if an installation names an        *)
(* environment it lacks; then the two are joined.                           *)
(*                                                                          *)
(* The company's data may change between any two requests.  An honest       *)
(* server answers each page from the version that is current when it        *)
(* answers, with as many items as it likes up to the page size; a           *)
(* misbehaving one answers anything.  Titles, versions and the order in     *)
(* which components and installations are listed are left out.              *)
EXTENDS InventoryContract, Integers, FiniteSets

CONSTANTS
    PageSize, MaxItems, MaxPages,
    MaxResponseBody, \* bytes accepted of one response
    MaxBody,         \* bytes accepted of all pages together
    BodySizes,       \* the sizes a page's body may have
    Statuses,        \* the HTTP statuses a request may fail with
    Forged           \* what a misbehaving server may answer with: items

NamesDiffer(list) ==
    \A i, j \in DOMAIN list : i # j => list[i].name # list[j].name

ASSUME LimitsAssumption ==
    /\ PageSize \in Nat \ {0}
    /\ {MaxItems, MaxPages, MaxResponseBody, MaxBody} \subseteq Nat
    /\ BodySizes \subseteq Nat

\* The components any answer may list, and the places any catalog may.
Listed ==
    Forged \cup UNION {{Versions[v].items[i] : i \in DOMAIN Versions[v].items} :
                            v \in DOMAIN Versions}
Placed == UNION {{Catalogs[c][k] : k \in DOMAIN Catalogs[c]} : c \in DOMAIN Catalogs}

\* What the adapter relies on an honest provider for: an inventory has one
\* component of a name, and an inventory that differs has another stamp (one that
\* changes under the same stamp cannot be told from one at rest).
ASSUME VersionsAssumption ==
    /\ Versions \in Seq([stamp : STRING, items : Seq(Listed)])
    /\ Catalogs \in Seq(Seq(Placed))
    /\ Versions # <<>> /\ Catalogs # <<>>
    /\ \A v \in DOMAIN Versions : NamesDiffer(Versions[v].items)
    /\ \A v, w \in DOMAIN Versions :
          Versions[v].stamp = Versions[w].stamp => Versions[v].items = Versions[w].items

\* NoReport is none of the inventories that may be reported.
ASSUME NoReportAssumption ==
    \A n \in 0 .. MaxItems : \A list \in [1 .. n -> Listed], c \in DOMAIN Catalogs :
        Joined(list, Catalogs[c]) # NoReport

VARIABLES
    phase,       \* where component_inventory is
    offset,      \* the offset of the next page
    total,       \* expected_total: -1 until the first page
    refreshedAt, \* the stamp of the first page
    items,       \* the items accepted so far
    pages,       \* the pages requested so far
    body,        \* aggregate_body_bytes
    catalog,     \* the catalog last fetched
    fetches,     \* how often it was fetched
    error        \* the error code the call failed with

paging == <<offset, total, refreshedAt, items, pages, body>>
joining == <<catalog, fetches>>
server == <<honest, version, catalogVersion>>
vars == <<server, report, ended, phase, paging, joining, error>>

NoTotal == -1
NoError == "none"
Phases == {"page", "awaitPage", "catalog", "awaitCatalog", "join", "done"}

\* map_http_status, and the code every other failed request or refused
\* response is reported with.
ErrorOf(status) ==
    CASE status = 400 -> "InvalidInput"
      [] status = 401 -> "AuthenticationFailed"
      [] status = 403 -> "PolicyDenied"
      [] status = 404 -> "NotFound"
      [] OTHER -> "ProviderUnavailable"
ContractError == "ProviderUnavailable"
TransportError == "ProviderUnavailable"
TimeoutError == "ProviderUnavailable"

Init ==
    /\ ContractInit /\ ended = FALSE
    /\ phase = "page"
    /\ offset = 0 /\ total = NoTotal /\ refreshedAt = "none"
    /\ items = <<>> /\ pages = 0 /\ body = 0
    /\ catalog = <<>> /\ fetches = 0
    /\ error = NoError

FailWith(code) ==
    /\ error' = code
    /\ phase' = "done"
    /\ ended' = TRUE
    /\ UNCHANGED <<server, report, paging, joining>>

-----------------------------------------------------------------------------
(* Pages.                                                                   *)

RequestPage ==
    /\ phase = "page"
    /\ pages < MaxPages
    /\ pages' = pages + 1
    /\ phase' = "awaitPage"
    /\ UNCHANGED <<server, report, ended, error, joining,
                   offset, total, refreshedAt, items, body>>

TooManyPages == phase = "page" /\ pages >= MaxPages /\ FailWith(ContractError)

\* The pages the server may answer the current request with.
HonestPages ==
    LET current == Versions[version]
        first == offset + 1
        most == IF offset + PageSize < Len(current.items)
                THEN offset + PageSize ELSE Len(current.items)
    IN { [total |-> Len(current.items), stamp |-> current.stamp,
          items |-> SubSeq(current.items, first, last), size |-> size] :
            last \in (IF first <= most THEN first .. most ELSE {most}),
            size \in BodySizes }

ForgedPages ==
    [total : 0 .. MaxItems + 1,
     stamp : {"forged", "other"},
     items : UNION {[1 .. n -> Forged] : n \in 0 .. PageSize + 1},
     size : BodySizes]

AnswerPages == IF honest THEN HonestPages ELSE ForgedPages

\* component_names.insert succeeds for every item of the page.
NewNames(page) == NamesDiffer(items \o page.items)

SameTotal(page) == page.total <= MaxItems /\ total \in {NoTotal, page.total}

\* Deviations that the checked properties must notice stand just before the
\* definition each of them replaces, and are used nowhere else.
StampIgnored(page) == TRUE

SameStamp(page) == pages = 1 \/ page.stamp = refreshedAt

WithinTotal(page) ==
    LET aggregate == Len(items) + Len(page.items)
    IN aggregate <= MaxItems /\ aggregate <= page.total

WithinBytes(page) == page.size <= MaxResponseBody /\ body + page.size <= MaxBody

Acceptable(page) ==
    /\ WithinBytes(page)
    /\ SameTotal(page)
    /\ SameStamp(page)
    /\ NewNames(page)
    /\ Len(page.items) <= PageSize
    /\ WithinTotal(page)

ShortPageIsLast(page) == Len(page.items) < PageSize

LastPage(page) == Len(items) + Len(page.items) = page.total

\* An empty page that does not complete the total would be asked for forever.
Stalls(page) == Len(page.items) = 0 /\ ~ LastPage(page)

NextOffset(page) == Len(items) + Len(page.items)

ReceivePage(page) ==
    /\ phase = "awaitPage"
    /\ Acceptable(page)
    /\ ~ Stalls(page)
    /\ body' = body + page.size
    /\ total' = page.total
    /\ refreshedAt' = page.stamp
    /\ items' = items \o page.items
    /\ offset' = IF LastPage(page) THEN offset ELSE NextOffset(page)
    /\ phase' = IF LastPage(page) THEN "catalog" ELSE "page"
    /\ UNCHANGED <<server, report, ended, error, joining, pages>>

RefusePage(page) ==
    /\ phase = "awaitPage"
    /\ ~ (Acceptable(page) /\ ~ Stalls(page))
    /\ FailWith(ContractError)

\* One deadline covers the whole paging, and only the paging.
PagingTimeout == phase = "awaitPage" /\ FailWith(TimeoutError)

-----------------------------------------------------------------------------
(* The catalog, and the join.                                               *)

RequestCatalog ==
    /\ phase = "catalog"
    /\ fetches' = fetches + 1
    /\ phase' = "awaitCatalog"
    /\ UNCHANGED <<server, report, ended, error, paging, catalog>>

\* environment_index refuses an environment listed under two sites.
Indexable(answer) ==
    \A i, j \in DOMAIN answer : i # j => answer[i].env # answer[j].env

NeedsRefresh(answer) == fetches = 1 /\ ~ Known(items, answer)

ReceiveCatalog ==
    /\ phase = "awaitCatalog"
    /\ LET answer == Catalogs[catalogVersion]
       IN IF Indexable(answer)
          THEN /\ catalog' = answer
               /\ phase' = IF NeedsRefresh(answer) THEN "catalog" ELSE "join"
               /\ UNCHANGED <<server, report, ended, error, paging, fetches>>
          ELSE FailWith(ContractError)

Awaiting == phase \in {"awaitPage", "awaitCatalog"}

\* The request cannot be sent, is not answered in time, is cut short, or is
\* answered with a failing status.
RequestFails ==
    /\ Awaiting
    /\ \E code \in {TransportError} \cup {ErrorOf(s) : s \in Statuses} :
          FailWith(code)

\* map_inventory.
JoinCatalog ==
    /\ phase = "join"
    /\ Known(items, catalog)
    /\ report' = Joined(items, catalog)
    /\ phase' = "done"
    /\ ended' = TRUE
    /\ UNCHANGED <<server, paging, joining, error>>

UnknownEnvironment ==
    phase = "join" /\ ~ Known(items, catalog) /\ FailWith(ContractError)

-----------------------------------------------------------------------------

\* The company changes its inventory or its catalog.
CompanyChanges ==
    /\ ~ ended
    /\ Refresh
    /\ server' # server
    /\ UNCHANGED <<phase, paging, joining, error>>

AnswerPage == \E page \in AnswerPages : ReceivePage(page) \/ RefusePage(page)

Client ==
    \/ RequestPage \/ TooManyPages \/ AnswerPage \/ PagingTimeout
    \/ RequestCatalog \/ ReceiveCatalog \/ RequestFails
    \/ JoinCatalog \/ UnknownEnvironment

Next == Client \/ CompanyChanges

\* Every wait ends, for the HTTP client gives each request 30 seconds.
Fairness == WF_vars(Client)

Spec == Init /\ [][Next]_vars /\ Fairness

-----------------------------------------------------------------------------

TypeOK ==
    /\ version \in DOMAIN Versions
    /\ catalogVersion \in DOMAIN Catalogs
    /\ phase \in Phases
    /\ offset \in Nat /\ pages \in 0 .. MaxPages /\ body \in 0 .. MaxBody
    /\ total \in {NoTotal} \cup (0 .. MaxItems)
    /\ fetches \in 0 .. 2
    /\ ended = (phase = "done")

Reported == report # NoReport

\* Whatever the server answers, an inventory is reported only when as many
\* components as the server announced were received, each under a name of
\* its own, and each installation has exactly one place in the catalog: a
\* partial inventory is never reported as complete.
NeverPartial ==
    Reported =>
        /\ Cardinality(report) = total
        /\ \A i \in DOMAIN items :
              \E entry \in report :
                 /\ entry.slug = items[i].name
                 /\ {place.env : place \in entry.installations} = items[i].envs
                 /\ Cardinality(entry.installations) = Cardinality(items[i].envs)

\* Whatever the server answers, the items held while paging stay within what
\* the limits and the announced total allow, and the next request starts
\* right after the items received.
PagesAreContiguous ==
    /\ Len(items) <= MaxItems
    /\ total # NoTotal => Len(items) <= total
    /\ phase \in {"page", "awaitPage"} => offset = Len(items) /\ total # Len(items)

\* The call returns, whatever the server answers or leaves unanswered.
Returns == <>ended

\* An honest page is never refused for being short: as long as the inventory
\* is the one the first page came from, and it is within the limits, every
\* page an honest server may answer with is accepted, so nothing was skipped
\* and nothing asked for twice.
HonestNeverRefused ==
    ( /\ honest
      /\ phase = "awaitPage"
      /\ pages = 1 \/ refreshedAt = Versions[version].stamp
      /\ Len(Versions[version].items) <= MaxItems )
    => \A page \in HonestPages :
          WithinBytes(page) => Acceptable(page) /\ ~ Stalls(page)

\* An inventory is reported whole or not at all, page by page, and a server that
\* is honest and does not change it is never refused.
InventoryWhole ==
    /\ TypeOK
    /\ NeverPartial
    /\ PagesAreContiguous
    /\ HonestNeverRefused
=============================================================================
