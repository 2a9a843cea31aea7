--------------------------- MODULE ProfileService ---------------------------
(***************************************************************************)
(* The profile commands of HostBraid (login, logout, use, credential set,  *)
(* and the session every provider command opens), run by any number of     *)
(* processes over two stores no transaction spans: profiles.json, replaced *)
(* under a file lock, and the OS keyring.  A command stages its token in   *)
(* the keyring INSIDE the locked update, but undoes a failed update, and   *)
(* cleans up after a committed one, OUTSIDE it.                            *)
(*                                                                         *)
(* profiles.json is read and replaced atomically here: ProfileStore is     *)
(* about how.  An environment credential never enters the keyring, and its *)
(* token is read from the process environment on each use.                 *)
(***************************************************************************)
CONSTANTS
    Process,       \* hb processes
    Ref,           \* provider:name references
    Company,       \* provider companies
    Token,         \* API tokens
    TokenCompany,  \* the company each token authenticates as
    NoRef, NoToken, NoProcess, NoProfile,
    Isolated       \* TRUE: keyring commands on one reference never overlap

ASSUME ConstantsAssumption ==
    /\ TokenCompany \in [Token -> Company]
    /\ NoRef \notin Ref
    /\ NoToken \notin Token
    /\ NoProcess \notin Process
    /\ Isolated \in BOOLEAN

VARIABLES
    config,    \* profiles.json
    keyring,   \* the OS credential store, one entry per reference
    lock,      \* the process holding the exclusive file lock
    cmd,       \* the command each process runs
    abandoned  \* history: references whose keyring entry a crash, or a
               \* reported cleanup or rollback failure, may have left behind

vars == <<config, keyring, lock, cmd, abandoned>>

-----------------------------------------------------------------------------
Source  == {"keyring", "environment"}
Profile == [ref: Ref, company: Company, source: Source]
Config  == [profiles: SUBSET Profile, default: Ref \union {NoRef}]

EmptyConfig == [profiles |-> {}, default |-> NoRef]

Operation == {"none", "add", "remove", "set_credential", "use", "session"}
KeyringOperation == {"add", "remove", "set_credential"}

\* Where a command stands.  The steps of Locked run inside store.update.
Locked == {"closure", "read_previous", "stage", "write"}
Step   == {"idle", "check", "acquire", "rollback", "cleanup", "report",
           "select", "resolve", "open"} \union Locked

Command == [step: Step, op: Operation, ref: Ref \union {NoRef},
            source: Source, token: Token \union {NoToken},
            makeDefault: BOOLEAN, working: Config,
            previous: Token \union {NoToken}, staged: BOOLEAN,
            wasKeyring: BOOLEAN, selected: Profile \union {NoProfile}]

Idle == [step |-> "idle", op |-> "none", ref |-> NoRef,
         source |-> "environment", token |-> NoToken,
         makeDefault |-> FALSE, working |-> EmptyConfig,
         previous |-> NoToken, staged |-> FALSE,
         wasKeyring |-> FALSE, selected |-> NoProfile]

Named(cfg, ref) == {profile \in cfg.profiles : profile.ref = ref}

\* normalize_and_validate: no duplicate reference, and a default that exists.
Valid(cfg) ==
    /\ \A a, b \in cfg.profiles : a.ref = b.ref => a = b
    /\ cfg.default # NoRef => Named(cfg, cfg.default) # {}

\* Deviations that the checked properties must notice stand just before the
\* definition each of them replaces, and are used nowhere else.
AddedUnderItsToken(cfg, c) ==
    [profiles |-> cfg.profiles \union
                    {[ref |-> c.ref, company |-> c.token, source |-> c.source]},
     default  |-> IF c.makeDefault THEN c.ref ELSE cfg.default]

\* What the closure of each operation makes of the configuration.
Added(cfg, c) ==
    [profiles |-> cfg.profiles \union
                    {[ref |-> c.ref, company |-> TokenCompany[c.token],
                      source |-> c.source]},
     default  |-> IF c.makeDefault THEN c.ref ELSE cfg.default]

Removed(cfg, c) ==
    [profiles |-> cfg.profiles \ Named(cfg, c.ref),
     default  |-> IF cfg.default = c.ref THEN NoRef ELSE cfg.default]

Rotated(cfg, c) ==
    [profiles |-> (cfg.profiles \ Named(cfg, c.ref)) \union
                    {[profile EXCEPT !.source = c.source] :
                        profile \in Named(cfg, c.ref)},
     default  |-> cfg.default]

Used(cfg, c) == [profiles |-> cfg.profiles, default |-> c.ref]

Edited(cfg, c) ==
    IF c.op = "add" THEN Added(cfg, c)
    ELSE IF c.op = "remove" THEN Removed(cfg, c)
    ELSE IF c.op = "set_credential" THEN Rotated(cfg, c)
    ELSE Used(cfg, c)

Become(p, c) == cmd' = [cmd EXCEPT ![p] = c]
Finish(p)    == Become(p, Idle)

-----------------------------------------------------------------------------
\* A command starts.  Under Isolated nobody else is between the first and the
\* last keyring step of a command on the same reference.
Start(p, c) ==
    /\ cmd[p].step = "idle"
    /\ (Isolated /\ c.op \in KeyringOperation) =>
          \A q \in Process : ~(cmd[q].op \in KeyringOperation /\ cmd[q].ref = c.ref)
    /\ Become(p, c)
    /\ UNCHANGED <<config, keyring, lock, abandoned>>

Login(p, ref, source, token, makeDefault) ==
    Start(p, [Idle EXCEPT !.step = "check", !.op = "add", !.ref = ref,
                          !.source = source, !.token = token,
                          !.makeDefault = makeDefault])

Logout(p, ref) ==
    Start(p, [Idle EXCEPT !.step = "check", !.op = "remove", !.ref = ref])

SetCredential(p, ref, source, token) ==
    Start(p, [Idle EXCEPT !.step = "check", !.op = "set_credential",
                          !.ref = ref, !.source = source, !.token = token])

Use(p, ref) ==
    Start(p, [Idle EXCEPT !.step = "acquire", !.op = "use", !.ref = ref])

\* A provider command: an explicit --profile, or NoRef for the default.
OpenSession(p, ref) ==
    Start(p, [Idle EXCEPT !.step = "select", !.op = "session", !.ref = ref])

-----------------------------------------------------------------------------
\* The first, short, read of profiles.json: login refuses a configured
\* reference, logout and credential set an unknown one.  The confirmation,
\* the token prompt and the remote authentication follow, with no lock held.
Check(p) ==
    /\ cmd[p].step = "check"
    /\ lock = NoProcess
    /\ IF (cmd[p].op = "add") = (Named(config, cmd[p].ref) = {})
       THEN Become(p, [cmd[p] EXCEPT !.step = "acquire"])
       ELSE Finish(p)
    /\ UNCHANGED <<config, keyring, lock, abandoned>>

\* Everything that fails before a store was changed: a read error, a declined
\* confirmation, a rejected token, a lock error, the reload after a rotation.
GiveUp(p) ==
    /\ cmd[p].step \in {"check", "acquire", "select", "resolve", "report"}
    /\ Finish(p)
    /\ UNCHANGED <<config, keyring, lock, abandoned>>

AcquireShared(p) ==
    /\ cmd[p].step = "acquire"
    /\ lock' = p
    /\ Become(p, [cmd[p] EXCEPT !.step = "closure", !.working = config])
    /\ UNCHANGED <<config, keyring, abandoned>>

\* store.update: take the exclusive lock and read profiles.json.
Acquire(p) ==
    /\ cmd[p].step = "acquire"
    /\ lock = NoProcess
    /\ lock' = p
    /\ Become(p, [cmd[p] EXCEPT !.step = "closure", !.working = config])
    /\ UNCHANGED <<config, keyring, abandoned>>

\* An error inside the update: the lock is dropped, nothing is written.
Release(p) ==
    /\ lock' = NoProcess
    /\ Finish(p)
    /\ UNCHANGED <<config, keyring, abandoned>>

RefusedByNameOnly(cfg, c) == (c.op = "add") = (Named(cfg, c.ref) # {})

\* The closure's decision on the configuration read under the lock.
Refused(cfg, c) ==
    \/ (c.op = "add") = (Named(cfg, c.ref) # {})
    \/ /\ c.op = "set_credential"
       /\ \E profile \in Named(cfg, c.ref) :
             profile.company # TokenCompany[c.token]

HadKeyring(cfg, c) ==
    /\ c.op \in {"remove", "set_credential"}
    /\ \E profile \in Named(cfg, c.ref) : profile.source = "keyring"

Stages(c) == c.op \in {"add", "set_credential"} /\ c.source = "keyring"

Closure(p) ==
    LET c == cmd[p]
        had == HadKeyring(c.working, c)
    IN  /\ c.step = "closure"
        /\ \/ Refused(c.working, c) /\ Release(p)
           \/ /\ ~Refused(c.working, c)
              /\ Become(p, [c EXCEPT
                   !.step = IF ~Stages(c) THEN "write"
                            ELSE IF had THEN "read_previous" ELSE "stage",
                   !.working = IF Stages(c) THEN @ ELSE Edited(@, c),
                   !.wasKeyring = had])
              /\ UNCHANGED <<config, keyring, lock, abandoned>>

\* set_credential remembers the entry it is about to overwrite.
ReadPrevious(p) ==
    /\ cmd[p].step = "read_previous"
    /\ \/ /\ Become(p, [cmd[p] EXCEPT !.step = "stage",
                                      !.previous = keyring[cmd[p].ref]])
          /\ UNCHANGED <<config, keyring, lock, abandoned>>
       \/ Release(p)

\* keyring.set inside the closure, then the edit of the configuration.
Stage(p) ==
    LET c == cmd[p]
    IN  /\ c.step = "stage"
        /\ \/ /\ keyring' = [keyring EXCEPT ![c.ref] = c.token]
              /\ Become(p, [c EXCEPT !.step = "write", !.staged = TRUE,
                                     !.working = Edited(@, c)])
              /\ UNCHANGED <<config, lock, abandoned>>
           \/ Release(p)

CleansOnRemoveOnly(c) == c.wasKeyring /\ c.op = "remove"

\* The profile was in the keyring and is no longer.
Cleans(c) == c.wasKeyring /\ (c.op = "remove" \/ c.source # "keyring")

CommitHoldingTheLock(p) ==
    LET c == cmd[p]
    IN  /\ c.step = "write"
        /\ Valid(c.working)
        /\ config' = c.working
        /\ lock' = IF c.op = "set_credential" THEN lock ELSE NoProcess
        /\ \/ Cleans(c) /\ Become(p, [c EXCEPT !.step = "cleanup"])
           \/ /\ ~Cleans(c) /\ c.op = "set_credential"
              /\ Become(p, [c EXCEPT !.step = "report"])
           \/ ~Cleans(c) /\ c.op # "set_credential" /\ Finish(p)
        /\ UNCHANGED <<keyring, abandoned>>

\* normalize_and_validate and write_unlocked, then the return of update drops
\* the lock.  The write may fail whatever the configuration is.
Commit(p) ==
    LET c == cmd[p]
    IN  /\ c.step = "write"
        /\ Valid(c.working)
        /\ config' = c.working
        /\ lock' = NoProcess
        /\ \/ Cleans(c) /\ Become(p, [c EXCEPT !.step = "cleanup"])
           \/ /\ ~Cleans(c) /\ c.op = "set_credential"
              /\ Become(p, [c EXCEPT !.step = "report"])
           \/ ~Cleans(c) /\ c.op # "set_credential" /\ Finish(p)
        /\ UNCHANGED <<keyring, abandoned>>

WriteFails(p) ==
    LET c == cmd[p]
    IN  /\ c.step = "write"
        /\ lock' = NoProcess
        /\ IF c.staged THEN Become(p, [c EXCEPT !.step = "rollback"])
                       ELSE Finish(p)
        /\ UNCHANGED <<config, keyring, abandoned>>

\* The update failed after the token was staged: with the lock released, put
\* the previous entry back, or delete the staged one.
Rollback(p) ==
    LET c == cmd[p]
    IN  /\ c.step = "rollback"
        /\ \/ /\ keyring' = [keyring EXCEPT ![c.ref] = c.previous]
              /\ UNCHANGED abandoned
           \/ /\ abandoned' = abandoned \union {c.ref}
              /\ UNCHANGED keyring
        /\ Finish(p)
        /\ UNCHANGED <<config, lock>>

\* The update committed and the entry is no longer needed: with the lock
\* released, delete it.
Cleanup(p) ==
    LET c == cmd[p]
    IN  /\ c.step = "cleanup"
        /\ \/ /\ keyring' = [keyring EXCEPT ![c.ref] = NoToken]
              /\ UNCHANGED abandoned
           \/ /\ abandoned' = abandoned \union {c.ref}
              /\ UNCHANGED keyring
        /\ IF c.op = "remove" THEN Finish(p)
           ELSE Become(p, [c EXCEPT !.step = "report"])
        /\ UNCHANGED <<config, lock>>

\* credential set reads profiles.json once more, to report the default.
Report(p) ==
    /\ cmd[p].step = "report"
    /\ lock = NoProcess
    /\ Finish(p)
    /\ UNCHANGED <<config, keyring, lock, abandoned>>

-----------------------------------------------------------------------------
\* A session selects its profile under the lock ...
Select(p) ==
    LET c   == cmd[p]
        ref == IF c.ref = NoRef THEN config.default ELSE c.ref
    IN  /\ c.step = "select"
        /\ lock = NoProcess
        /\ \/ /\ Named(config, ref) = {}
              /\ Finish(p)
           \/ \E profile \in Named(config, ref) :
                 Become(p, [c EXCEPT !.step = "resolve", !.selected = profile])
        /\ UNCHANGED <<config, keyring, lock, abandoned>>

\* ... and reads its token later, outside it.  A missing entry is an error.
Resolve(p) ==
    LET c == cmd[p]
    IN  /\ c.step = "resolve"
        /\ \/ /\ c.selected.source = "environment"
              /\ Become(p, [c EXCEPT !.step = "open"])
           \/ /\ c.selected.source = "keyring"
              /\ keyring[c.selected.ref] # NoToken
              /\ Become(p, [c EXCEPT !.step = "open",
                                     !.token = keyring[c.selected.ref]])
           \/ /\ c.selected.source = "keyring"
              /\ keyring[c.selected.ref] = NoToken
              /\ Finish(p)
        /\ UNCHANGED <<config, keyring, lock, abandoned>>

Close(p) ==
    /\ cmd[p].step = "open"
    /\ Finish(p)
    /\ UNCHANGED <<config, keyring, lock, abandoned>>

\* The process dies; the system drops its lock.  What it had put in the
\* keyring, or still had to take out of it, stays there.
Crash(p) ==
    LET c == cmd[p]
    IN  /\ c.step # "idle"
        /\ lock' = IF lock = p THEN NoProcess ELSE lock
        /\ abandoned' = IF \/ c.step \in {"rollback", "cleanup"}
                           \/ c.step = "write" /\ c.staged
                        THEN abandoned \union {c.ref} ELSE abandoned
        /\ Finish(p)
        /\ UNCHANGED <<config, keyring>>

-----------------------------------------------------------------------------
Init ==
    /\ config = EmptyConfig
    /\ keyring = [ref \in Ref |-> NoToken]
    /\ lock = NoProcess
    /\ cmd = [p \in Process |-> Idle]
    /\ abandoned = {}

Begin(p) ==
    \/ \E ref \in Ref, source \in Source, token \in Token, makeDefault \in BOOLEAN :
          Login(p, ref, source, token, makeDefault)
    \/ \E ref \in Ref : Logout(p, ref) \/ Use(p, ref)
    \/ \E ref \in Ref, source \in Source, token \in Token :
          SetCredential(p, ref, source, token)
    \/ \E ref \in Ref \union {NoRef} : OpenSession(p, ref)

\* The steps of a running command.
Advance(p) ==
    \/ Check(p) \/ Acquire(p) \/ Closure(p) \/ ReadPrevious(p) \/ Stage(p)
    \/ Commit(p) \/ WriteFails(p) \/ Rollback(p) \/ Cleanup(p) \/ Report(p)
    \/ Select(p) \/ Resolve(p) \/ Close(p)

Next == \E p \in Process : Begin(p) \/ Advance(p) \/ GiveUp(p) \/ Crash(p)

Spec == Init /\ [][Next]_vars

-----------------------------------------------------------------------------
\* The shape of every variable.
TypeOK ==
    /\ config \in Config
    /\ keyring \in [Ref -> Token \union {NoToken}]
    /\ lock \in Process \union {NoProcess}
    /\ cmd \in [Process -> Command]
    /\ abandoned \subseteq Ref

\* No command ever builds a configuration normalize_and_validate refuses: the
\* closures keep references unique and drop a default with its profile, so a
\* failed write is the store's doing, and profiles.json can always be read.
ConfigurationsStayValid ==
    /\ Valid(config)
    /\ \A p \in Process : cmd[p].step = "write" => Valid(cmd[p].working)

KeyringProfiles == {profile \in config.profiles : profile.source = "keyring"}

\* A profile that names the keyring has an entry there: the token is staged
\* before the profile is committed and removed only after it is gone.
CredentialPresent ==
    \A profile \in KeyringProfiles : keyring[profile.ref] # NoToken

\* The entry of a profile authenticates as the profile's company, whatever
\* became of the commands that staged, restored or failed to remove it.
CredentialCompany ==
    \A profile \in KeyringProfiles :
        keyring[profile.ref] # NoToken =>
            TokenCompany[keyring[profile.ref]] = profile.company

\* What the documentation says of logout: it removes a profile and the entry of
\* that profile (README.md:123).  It does not hold when another command has
\* given the reference to a new profile since the logout's update.
LogoutRemovesItsOwnEntry ==
    [][\A p \in Process :
         (cmd[p].op = "remove" /\ cmd[p].step = "cleanup" /\ keyring' # keyring) =>
             ~\E profile \in KeyringProfiles : profile.ref = cmd[p].ref]_vars

\* Under Isolated both hold, through every crash and failure.
CredentialMatchesProfile == CredentialPresent /\ CredentialCompany

\* A token outlives its profile only where a crash or a reported failure left
\* it: a command that ends quietly has taken its staged or obsolete entry out.
NoSilentOrphan ==
    \A ref \in Ref : keyring[ref] # NoToken =>
        \/ \E profile \in KeyringProfiles : profile.ref = ref
        \/ \E p \in Process : cmd[p].ref = ref /\ cmd[p].op \in KeyringOperation
        \/ ref \in abandoned

\* A session selects its profile and reads its token at two moments.  While
\* the profile it selected is still the configured one, the token it gets is
\* a token of that profile's company.
SessionTokenIsTheProfiles ==
    [][\A p \in Process :
         /\ cmd[p].step = "resolve" /\ cmd'[p].step = "open"
         /\ cmd[p].selected.source = "keyring"
         /\ cmd[p].selected \in config.profiles
         => TokenCompany[cmd'[p].token] = cmd[p].selected.company]_vars

\* Whatever the processes interleave, every commit is one legal registry
\* operation on the registry as it is then: no update is lost, no profile is
\* registered twice, none changes company, and the default follows.
Registry == INSTANCE ProfileRegistry WITH registry <- config
RegistrySpec == Registry!Spec

\* A command that got the exclusive lock ends, with everything it still has to
\* do in the keyring and the store: no read it makes waits for its own lock.
UpdateEnds == \A p \in Process : (lock = p) ~> (cmd[p].step = "idle")

\* A running process keeps executing; nothing makes a user start a command.
\* The lock may be held by others again and again: flock gives it in time.
FairSpec ==
    /\ Spec
    /\ \A p \in Process : WF_vars(Advance(p)) /\ SF_vars(Report(p))
=============================================================================
