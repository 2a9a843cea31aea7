\* Pages of two, inventories of three, an honest server and one that forges;
\* bodies of up to five bytes, below, at and above the limit; tokens of at most two.
CONSTANTS
    Versions <- SomeVersions
    Catalogs <- SomeCatalogs
    NoReport = NoReport
    PageSize = 2
    MaxItems = 3
    MaxPages = 3
    MaxResponseBody = 2
    MaxBody = 4
    BodySizes = {1, 2, 3}
    Statuses = {400, 401, 403, 404, 429}
    Forged <- FirstItems
    MaxBytes = 3
    MaxSize = 5
    MaxChunk = 2
    AnswerStatuses <- SomeStatuses
    MaxToken = 2
    TokenTexts <- SomeTexts
    None = None
SPECIFICATION ProviderSpec
INVARIANTS InventoryWhole AnswersAreWhole CredentialHeld
PROPERTIES ContractSpec EveryCallEnds
CHECK_DEADLOCK FALSE
