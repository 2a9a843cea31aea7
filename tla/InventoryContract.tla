------------------------- MODULE InventoryContract -------------------------
(* What a component inventory promises its caller: either it fails, or it   *)
(* reports the whole of one version of the company's inventory, a version   *)
(* that was current at some moment of the call, and joins every             *)
(* installation to a catalog that was current at some moment of the call.   *)
(* That is so if the provider is honest; of one that is not it promises     *)
(* nothing here.                                                            *)
(* Nothing is said of requests, pages, limits or retries: InventoryPaging   *)
(* is the implementation.                                                   *)
EXTENDS Naturals, Sequences

CONSTANTS
    Versions,   \* the inventories the company has in turn: [stamp, items]
    Catalogs,   \* the catalogs it has in turn: sequences of [site, env]
    NoReport    \* the call has not reported an inventory

VARIABLES
    honest,         \* the provider answers what is so; it never changes
    version,        \* the current inventory, an index of Versions
    catalogVersion, \* the current catalog, an index of Catalogs
    report,         \* the inventory the call returned, or NoReport
    ended           \* no call is under way any more

contractVars == <<honest, version, catalogVersion, report, ended>>

\* One component of the report: its slug, and where it is installed.
Joined(items, catalog) ==
    { [slug |-> items[i].name,
       installations |-> {place \in {catalog[k] : k \in DOMAIN catalog} :
                              place.env \in items[i].envs}] :
          i \in DOMAIN items }

\* Every installation names an environment of the catalog.
Known(items, catalog) ==
    \A i \in DOMAIN items :
        items[i].envs \subseteq {catalog[k].env : k \in DOMAIN catalog}

ContractInit ==
    /\ honest \in BOOLEAN
    /\ version = 1
    /\ catalogVersion = 1
    /\ report = NoReport
    /\ ended \in BOOLEAN

Refresh ==
    /\ version' \in version .. Len(Versions)
    /\ catalogVersion' \in catalogVersion .. Len(Catalogs)
    /\ UNCHANGED <<honest, report, ended>>

Fail ==
    /\ ~ ended
    /\ ended' = TRUE
    /\ UNCHANGED <<honest, version, catalogVersion, report>>

Succeed ==
    /\ ~ ended
    /\ IF honest
       THEN \E v \in 1 .. version, c \in 1 .. catalogVersion :
               /\ Known(Versions[v].items, Catalogs[c])
               /\ report' = Joined(Versions[v].items, Catalogs[c])
       ELSE report' # NoReport
    /\ ended' = TRUE
    /\ UNCHANGED <<honest, version, catalogVersion>>

ContractNext == Refresh \/ Fail \/ Succeed

ContractSpec == ContractInit /\ [][ContractNext]_contractVars
=============================================================================
