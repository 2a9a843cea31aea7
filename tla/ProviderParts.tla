--------------------------- MODULE ProviderParts ---------------------------
(* What hb does with a provider: a credential is collected and had back, a  *)
(* request validates it, an inventory is paged.  Each has variables of its  *)
(* own; the three are put side by side to be checked in one run and proved  *)
(* in one module.                                                           *)
EXTENDS InventoryPaging

CONSTANTS
    MaxBytes, MaxSize, MaxChunk, AnswerStatuses, \* of ProviderRequest
    MaxToken, TokenTexts, None                   \* of Credential

VARIABLES
    requestPhase, token, answer, sent, received, expired, outcome,
    flags, interactive, piped, variable, store, locked, credentialPhase, prompted,
    source, candidate, resolution

Request == INSTANCE ProviderRequest WITH
    MaxBody <- MaxBytes, Statuses <- AnswerStatuses, phase <- requestPhase

Credentials == INSTANCE Credential WITH
    Texts <- TokenTexts, phase <- credentialPhase, outcome <- resolution

ASSUME PartsAssumption == Request!RequestAssumption /\ Credentials!CredentialAssumption

\* ProviderRequest: no answer is taken for more than it is.
AnswersAreWhole == Request!AnswersAreWhole

\* Credential: a token is taken whole and had back.
CredentialHeld == Credentials!CredentialHeld
=============================================================================
