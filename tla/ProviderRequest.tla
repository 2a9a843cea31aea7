-------------------------- MODULE ProviderRequest --------------------------
(* One request to the provider, and the validation of a credential on top   *)
(* of it: the token is checked, the request is sent with one timeout for    *)
(* all of it and no redirect is followed, the status is mapped, and the     *)
(* body is read chunk by chunk up to a limit, whatever length was announced.*)
(*                                                                          *)
(* The server may answer with any status and length, stop in the middle, or *)
(* never stop sending.                                                      *)
EXTENDS Integers

CONSTANTS
    MaxBody,   \* max_body_bytes
    MaxSize,   \* bound: the most bytes the server has to send
    MaxChunk,  \* bound: the bytes that arrive at once
    Statuses   \* the HTTP statuses the server answers with

RequestAssumption ==
    /\ {MaxBody, MaxSize} \subseteq Nat /\ MaxChunk \in Nat \ {0}
    /\ Statuses \subseteq 100 .. 599

VARIABLES
    phase,    \* "token", "send", "status", "body", "parse" or "done"
    token,    \* "usable" or "unusable"
    answer,   \* what the server has to say: [status, announces, size, text]
    sent,     \* how much of the body it sent
    received, \* body.len()
    expired,  \* the timeout of the request is over
    outcome   \* "none", "ok" or an error code

vars == <<phase, token, answer, sent, received, expired, outcome>>

\* A body is a valid key, a key with another status, or is not understood.
Texts == {"active", "inactive", "malformed"}

Init ==
    /\ phase = "token" /\ token \in {"usable", "unusable"}
    /\ answer \in [status : Statuses, announces : BOOLEAN, size : 0 .. MaxSize,
                   text : Texts]
    /\ sent = 0 /\ received = 0 /\ expired = FALSE /\ outcome = "none"

ContractError == "ProviderUnavailable"
TransportError == "ProviderUnavailable"

IsSuccess(status) == status \in 200 .. 299

\* map_http_status.
StatusError(status) ==
    CASE status = 400 -> "InvalidInput"
      [] status = 401 -> "AuthenticationFailed"
      [] status = 403 -> "PolicyDenied"
      [] status = 404 -> "NotFound"
      [] OTHER -> "ProviderUnavailable"

Ends(code) ==
    /\ outcome' = code /\ phase' = "done"
    /\ UNCHANGED <<token, answer, sent, received, expired>>

Continues(place) ==
    /\ phase' = place
    /\ UNCHANGED <<token, answer, sent, received, expired, outcome>>

\* ApiToken::new.
CheckToken ==
    /\ phase = "token"
    /\ IF token = "usable" THEN Continues("send") ELSE Ends("InvalidInput")

\* It is connected and sent, or that fails.
Send == phase = "send" /\ (Continues("status") \/ Ends(TransportError))

\* The head of the response arrives.  Redirects are not followed: 3xx is a
\* status like the others.
Judge ==
    /\ phase = "status"
    /\ IF ~ IsSuccess(answer.status) THEN Ends(StatusError(answer.status))
       ELSE IF answer.announces /\ answer.size > MaxBody THEN Ends(ContractError)
       ELSE Continues("body")

\* Deviations that the checked properties must notice stand just before the
\* definition each of them replaces, and are used nowhere else.
ChunkUpToLimit ==
    /\ phase = "body"
    /\ \E n \in 1 .. MaxChunk :
          /\ sent + n <= answer.size
          /\ sent' = sent + n
          /\ IF received + n <= MaxBody
             THEN received' = received + n /\ UNCHANGED phase
             ELSE phase' = "parse" /\ UNCHANGED received
          /\ UNCHANGED <<token, answer, expired, outcome>>

\* One chunk too many is not stored, and ends the request.
Chunk ==
    /\ phase = "body"
    /\ \E n \in 1 .. MaxChunk :
          /\ sent + n <= answer.size
          /\ sent' = sent + n
          /\ IF received + n <= MaxBody
             THEN received' = received + n /\ UNCHANGED <<phase, outcome>>
             ELSE phase' = "done" /\ outcome' = ContractError /\ UNCHANGED received
          /\ UNCHANGED <<token, answer, expired>>

EndOfBody == phase = "body" /\ sent = answer.size /\ Continues("parse")

\* The connection breaks, also in the middle of a body.
Breaks == phase \in {"status", "body"} /\ Ends(TransportError)

\* The clock of the request runs from the connection to the end of the body.
Expire ==
    /\ phase \in {"send", "status", "body"} /\ ~ expired
    /\ expired' = TRUE
    /\ UNCHANGED <<phase, token, answer, sent, received, outcome>>

TimesOutOnConnecting == phase = "send" /\ expired /\ Ends(TransportError)

TimesOut == phase \in {"send", "status", "body"} /\ expired /\ Ends(TransportError)

\* serde and validate_api_key.
Parse ==
    /\ phase = "parse"
    /\ CASE answer.text = "active" -> Ends("ok")
         [] answer.text = "inactive" -> Ends("AuthenticationFailed")
         [] OTHER -> Ends(ContractError)

Client == CheckToken \/ Send \/ EndOfBody \/ TimesOut \/ Parse

Next == Client \/ Judge \/ Chunk \/ Breaks \/ Expire

\* The client runs and time passes; the server need not answer.
Fairness == WF_vars(Client) /\ WF_vars(Expire)

Spec == Init /\ [][Next]_vars /\ Fairness

-----------------------------------------------------------------------------

TypeOK ==
    /\ phase \in {"token", "send", "status", "body", "parse", "done"}
    /\ outcome \in {"none", "ok", "InvalidInput", "AuthenticationFailed", "PolicyDenied",
                    "NotFound", "ProviderUnavailable"}
    /\ (phase = "done") = (outcome # "none")
    /\ received <= sent /\ sent <= answer.size /\ received <= MaxBody

\* A response is only used whole: what is taken for an answer had a success
\* status and is everything the server had to send, never the part that fit or
\* arrived in time, nor the body of a redirect.
UsedWhole ==
    outcome = "ok" =>
        /\ IsSuccess(answer.status)
        /\ received = answer.size /\ answer.text = "active" /\ token = "usable"

\* The user is sent to replace the credential (exit status 4) only on the word
\* of the provider: not for an outage, a timeout or a body that is not
\* understood.
BlamesOnTheProvidersWord ==
    outcome = "AuthenticationFailed" =>
        \/ answer.status = 401
        \/ IsSuccess(answer.status) /\ answer.text = "inactive" /\ received = answer.size

\* Every request ends, whatever the server does: one timeout covers the
\* connection, the answer and the body.
EveryRequestEnds == <>(phase = "done")

\* No answer is taken for more than it is: a part for the whole, or an outage for
\* a rejected credential.
AnswersAreWhole == TypeOK /\ UsedWhole /\ BlamesOnTheProvidersWord
=============================================================================
