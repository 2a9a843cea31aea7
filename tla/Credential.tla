----------------------------- MODULE Credential -----------------------------
(* Where a credential comes from: collected once, from stdin, a variable or *)
(* a hidden prompt, and resolved again by every later command, from the     *)
(* store of the operating system or the variable.  Between the two the      *)
(* store may be locked or emptied, and variables change.                    *)
(*                                                                          *)
(* A text is the sequence of its bytes: 0 a byte of the token, 10 and 13 the*)
(* ends of a line, 7 another control character, 255 what is not UTF-8.      *)
EXTENDS Integers, Sequences

CONSTANTS
    MaxToken, \* MAX_TOKEN_BYTES
    Texts,    \* what is piped in, typed, or put in the variable
    None

CredentialAssumption ==
    /\ MaxToken \in Nat \ {0} /\ Texts \subseteq Seq({0, 7, 10, 13, 255})
    /\ None \notin Seq({0, 7, 10, 13, 255})

VARIABLES
    flags,    \* [stdin, variable]: --token-stdin and --credential-env
    interactive,
    piped,    \* everything on stdin
    variable, \* the value of the variable, or None
    store,    \* the entry of the profile in the store, or None
    locked,   \* the store cannot be used
    phase,    \* "collect", "save", "saved" or "failed"
    prompted,
    source,   \* "none", "keyring" or "environment"
    candidate,\* the token collected, or None
    outcome   \* of the last resolution: [token, code]

given == <<flags, interactive, piped>>
vars == <<given, variable, store, locked, phase, prompted, source, candidate, outcome>>

Control == {7, 10, 13}

InUTF8(text) == \A i \in DOMAIN text : text[i] # 255

\* SecretToken::new.
Usable(text) ==
    /\ text # <<>> /\ Len(text) <= MaxToken
    /\ \A i \in DOMAIN text : text[i] \notin Control

Nothing == [token |-> None, code |-> "none"]
Got(token) == [token |-> token, code |-> "ok"]
Refused(code) == [token |-> None, code |-> code]

Init ==
    /\ flags \in [stdin : BOOLEAN, variable : BOOLEAN]
    /\ interactive \in BOOLEAN
    /\ piped \in Texts /\ variable \in Texts \cup {None}
    /\ store = None /\ locked \in BOOLEAN
    /\ phase = "collect" /\ prompted = FALSE /\ source = "none" /\ candidate = None
    /\ outcome = Nothing

-----------------------------------------------------------------------------
(* collect_credential.                                                      *)

Ends(text, byte) == text # <<>> /\ text[Len(text)] = byte
Front(text) == SubSeq(text, 1, Len(text) - 1)

\* One end of a line is taken off, of either kind.
Line(text) ==
    IF ~ Ends(text, 10) THEN text
    ELSE IF Ends(Front(text), 13) THEN Front(Front(text)) ELSE Front(text)

Taken(text, n) == IF Len(text) <= n THEN text ELSE SubSeq(text, 1, n)

\* A deviation that the checked properties must notice stands just before the
\* definition it replaces, and is used nowhere else.
FromStdinWithLineEnd ==
    LET read == Taken(piped, MaxToken + 1)
    IN IF Len(read) <= MaxToken /\ InUTF8(read) /\ Usable(Line(read))
       THEN Got(read) ELSE Refused("InvalidInput")

\* read_bounded_token: one byte more than the longest token is read.
FromStdin ==
    LET read == Taken(piped, MaxToken + 1)
    IN IF Len(read) <= MaxToken /\ InUTF8(read) /\ Usable(Line(read))
       THEN Got(Line(read)) ELSE Refused("InvalidInput")

\* token_from_environment.
FromVariable ==
    IF variable = None THEN Refused("AuthenticationFailed")
    ELSE IF InUTF8(variable) /\ Usable(variable) THEN Got(variable)
    ELSE Refused("AuthenticationFailed")

Takes(from, got) ==
    /\ IF got.code = "ok"
       THEN phase' = "save" /\ candidate' = got.token /\ source' = from
       ELSE phase' = "failed" /\ UNCHANGED <<candidate, source>>
    /\ UNCHANGED <<given, variable, store, locked, outcome>>

CollectGiven ==
    /\ phase = "collect"
    /\ CASE flags.stdin /\ flags.variable -> Takes("none", Refused("InvalidArguments"))
         [] flags.stdin /\ ~ flags.variable -> Takes("keyring", FromStdin)
         [] ~ flags.stdin /\ flags.variable -> Takes("environment", FromVariable)
         [] OTHER -> ~ interactive /\ Takes("none", Refused("InvalidInput"))
    /\ UNCHANGED prompted

Prompts == phase = "collect" /\ ~ flags.stdin /\ ~ flags.variable /\ interactive

\* rpassword reads one line from the terminal.
Prompt ==
    /\ Prompts
    /\ prompted' = TRUE
    /\ \E typed \in Texts :
          /\ InUTF8(typed)
          /\ Takes("keyring", IF Usable(typed) THEN Got(typed) ELSE Refused("InvalidInput"))

\* Reading stdin or the terminal fails.
InputFails ==
    /\ phase = "collect"
    /\ (flags.stdin /\ ~ flags.variable) \/ Prompts
    /\ Takes("none", Refused("Io"))
    /\ UNCHANGED prompted

-----------------------------------------------------------------------------
(* The store, and later commands.                                           *)

\* keyring.set; an environment-backed profile stores no token.
Save ==
    /\ phase = "save"
    /\ \/ phase' = "saved" /\ (source = "keyring" => ~ locked)
          /\ store' = IF source = "keyring" THEN candidate ELSE store
       \/ source = "keyring" /\ phase' = "failed" /\ UNCHANGED store
    /\ UNCHANGED <<given, variable, locked, prompted, source, candidate, outcome>>

\* get_optional and ok_or_else.
FromStore ==
    IF locked THEN Refused("Unavailable")
    ELSE IF store = None THEN Refused("AuthenticationFailed")
    ELSE IF Usable(store) THEN Got(store) ELSE Refused("InvalidInput")

\* resolve_credential.
Resolve ==
    /\ phase = "saved"
    /\ outcome' = IF source = "keyring" THEN FromStore ELSE FromVariable
    /\ UNCHANGED <<given, variable, store, locked, phase, prompted, source, candidate>>

\* Somebody else locks the store, unlocks it, removes or edits the entry, or the
\* next command runs with another environment.
Meanwhile ==
    /\ phase = "saved"
    /\ outcome' = Nothing
    /\ \/ locked' = ~ locked /\ UNCHANGED <<variable, store>>
       \/ store' \in {text \in Texts : InUTF8(text)} \cup {None} /\ UNCHANGED <<variable, locked>>
       \/ variable' \in Texts \cup {None} /\ UNCHANGED <<store, locked>>
    /\ UNCHANGED <<given, phase, prompted, source, candidate>>

Next == CollectGiven \/ Prompt \/ InputFails \/ Save \/ Resolve \/ Meanwhile

Spec == Init /\ [][Next]_vars

-----------------------------------------------------------------------------

TypeOK ==
    /\ phase \in {"collect", "save", "saved", "failed"}
    /\ source \in {"none", "keyring", "environment"}
    /\ (phase \in {"save", "saved"} => candidate # None) /\ (phase = "collect" => candidate = None)
    /\ (source # "none") = (candidate # None)
    /\ outcome.code \in {"none", "ok", "Unavailable", "AuthenticationFailed", "InvalidInput"}
    /\ (outcome.code = "ok") = (outcome.token # None)
    /\ prompted => interactive /\ ~ flags.stdin /\ ~ flags.variable

\* Whatever is sent to the provider as a token is one line of text: no line end
\* that would break the header, nothing empty, nothing beyond the limit.
OnlyUsableTokens ==
    \A token \in {candidate, outcome.token} :
        token # None => Usable(token) /\ InUTF8(token)

\* A token that is piped in is taken whole or not at all: never the part of it
\* that fits.
NeverAPartOfIt ==
    flags.stdin /\ candidate # None => piped \in {candidate} \cup
        {candidate \o <<10>>, candidate \o <<13, 10>>}

\* A token that was accepted is had back by later commands, unless somebody
\* removed or edited it, locked the store or changed the variable: nothing that is
\* accepted is refused when it is read again.
AcceptedResolves ==
    source = "keyring" /\ outcome.code # "none" /\ store = candidate /\ ~ locked =>
        outcome = Got(candidate)

\* The credential is only blamed (status 4) when it is missing or malformed, not
\* when the store is locked: the user would make a new one in vain.
BlamedOnlyIfMissing ==
    outcome.code = "AuthenticationFailed" =>
        \/ source = "keyring" /\ ~ locked /\ store = None
        \/ source = "environment" /\ (variable = None \/ ~ InUTF8(variable) \/ ~ Usable(variable))

\* A token is taken whole or not at all, and what was taken is had back: no
\* later command refuses it, or blames it for what is not its fault.
CredentialHeld ==
    /\ TypeOK
    /\ OnlyUsableTokens
    /\ NeverAPartOfIt
    /\ AcceptedResolves
    /\ BlamedOnlyIfMissing
=============================================================================
