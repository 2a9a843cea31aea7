----------------------- MODULE ProfileServiceInvariant -----------------------
(***************************************************************************)
(* The inductive invariants behind the theorems of ProfileServiceProofs.   *)
(***************************************************************************)
EXTENDS ProfileService

\* What the step of a command says of the command.
CommandOK(c) ==
    /\ c.op = "none" <=> c.step = "idle"
    /\ c.op \in KeyringOperation \union {"use"} => c.ref \in Ref
    /\ c.op \in {"add", "set_credential"} => c.token \in Token
    /\ c.step = "check" => c.op \in KeyringOperation
    /\ c.step \in {"acquire"} \union Locked => c.op \in KeyringOperation \union {"use"}
    /\ c.step = "read_previous" =>
          Stages(c) /\ c.op = "set_credential" /\ c.wasKeyring
    /\ c.step \in {"stage", "rollback"} => Stages(c)
    /\ c.step = "write" => (c.staged <=> Stages(c))
    /\ c.step = "cleanup" => \/ c.op = "remove"
                             \/ c.op = "set_credential" /\ c.source # "keyring"
    /\ c.step = "report" => c.op = "set_credential"
    /\ c.step \in {"select", "resolve", "open"} => c.op = "session"
    /\ c.step = "resolve" => c.selected \in Profile
    /\ c.step \in {"check", "acquire", "closure", "read_previous", "stage"} => ~c.staged
    /\ c.step \in {"check", "acquire", "closure", "read_previous"} => c.previous = NoToken

\* The lock is held exactly between the first and the last step of an update.
LockOwnership == \A p \in Process : (lock = p) <=> cmd[p].step \in Locked

\* What a command in its update knows of profiles.json: nobody else writes it.
WorkingCopy(c) ==
    /\ c.step \in {"closure", "read_previous", "stage"} => c.working = config
    /\ c.step \in {"read_previous", "stage", "write"} => ~Refused(config, c)
    /\ c.step \in {"read_previous", "stage", "write"} =>
          c.wasKeyring = HadKeyring(config, c)
    /\ c.step = "write" => c.working = Edited(config, c)

Inv ==
    /\ TypeOK
    /\ \A p \in Process : CommandOK(cmd[p])
    /\ LockOwnership
    /\ \A p \in Process : WorkingCopy(cmd[p])
    /\ Valid(config)

-----------------------------------------------------------------------------
\* Under Isolated: one keyring command at a time on a reference.
Isolation ==
    \A p, q \in Process :
        /\ cmd[p].op \in KeyringOperation
        /\ cmd[q].op \in KeyringOperation
        /\ cmd[p].ref = cmd[q].ref
        => p = q

\* The token put back by a rollback belongs to the profile it is put back for.
PreviousFits(c, profile) ==
    IF profile.source = "keyring"
    THEN c.previous # NoToken /\ TokenCompany[c.previous] = profile.company
    ELSE c.previous = NoToken

\* What a command with keyring work to do knows of its reference.
Pending(c) ==
    /\ c.step \in {"stage", "write", "rollback"} /\ c.op = "add" =>
          Named(config, c.ref) = {} /\ c.previous = NoToken
    /\ c.step \in {"stage", "write", "rollback"} /\ Stages(c) /\ c.op = "set_credential" =>
          /\ Named(config, c.ref) # {}
          /\ \A profile \in Named(config, c.ref) :
                PreviousFits(c, profile) /\ profile.company = TokenCompany[c.token]
    /\ c.step = "write" /\ c.staged => keyring[c.ref] = c.token
    /\ c.step = "cleanup" => \A profile \in Named(config, c.ref) :
                                 profile.source # "keyring"

\* Commands whose keyring work is not over.
Unsettled(c) == \/ c.step \in {"rollback", "cleanup"}
                \/ c.step = "write" /\ c.staged

Settled ==
    \A ref \in Ref : keyring[ref] # NoToken =>
        \/ \E profile \in KeyringProfiles : profile.ref = ref
        \/ \E p \in Process : cmd[p].ref = ref /\ Unsettled(cmd[p])
        \/ ref \in abandoned

IsolatedInv ==
    /\ Isolation
    /\ \A p \in Process : Pending(cmd[p])
    /\ CredentialMatchesProfile
    /\ Settled
=============================================================================
