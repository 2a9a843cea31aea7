------------------------ MODULE ProfileServiceProofs ------------------------
(***************************************************************************)
(* Proofs about ProfileService, for any processes, references, companies   *)
(* and tokens.  Inv and IsolatedInv are defined in ProfileServiceInvariant.*)
(***************************************************************************)
EXTENDS ProfileServiceInvariant, TLAPS

\* A process that is not running a command satisfies what is said of commands.
LEMMA IdleOK == Idle \in Command /\ CommandOK(Idle)
BY ConstantsAssumption DEF Idle, Command, CommandOK, Step, Locked, Operation,
   KeyringOperation, Source, Config, EmptyConfig, Stages

\* The closure of a well-formed command makes a configuration of one.
LEMMA EditedType ==
    ASSUME NEW cfg \in Config, NEW c \in Command, CommandOK(c),
           c.op \in KeyringOperation \union {"use"}
    PROVE  Edited(cfg, c) \in Config
<1>. /\ cfg.profiles \in SUBSET Profile
     /\ cfg.default \in Ref \union {NoRef}
     /\ c.source \in Source /\ c.makeDefault \in BOOLEAN
     /\ c.op \in Operation
  BY DEF Config, Command
<1>1. CASE c.op = "add"
  <2>1. c.ref \in Ref /\ TokenCompany[c.token] \in Company
    BY <1>1, ConstantsAssumption DEF CommandOK, KeyringOperation
  <2>. QED  BY <1>1, <2>1 DEF Edited, Added, Config, Profile
<1>2. CASE c.op = "remove"
  BY <1>2 DEF Edited, Removed, Config, Named
<1>3. CASE c.op = "set_credential"
  <2>1. \A profile \in Profile : [profile EXCEPT !.source = c.source] \in Profile
    BY DEF Profile
  <2>2. {[profile EXCEPT !.source = c.source] : profile \in Named(cfg, c.ref)}
          \in SUBSET Profile
    BY <2>1 DEF Named
  <2>. QED  BY <1>3, <2>2 DEF Edited, Rotated, Config, Named
<1>4. CASE c.op = "use"
  BY <1>4 DEF Edited, Used, Config, CommandOK
<1>. QED  BY <1>1, <1>2, <1>3, <1>4 DEF KeyringOperation

\* One command changes: the others keep their shape.
LEMMA BecomeOK ==
    ASSUME TypeOK, \A q \in Process : CommandOK(cmd[q]),
           NEW p \in Process, NEW c \in Command, CommandOK(c), Become(p, c)
    PROVE  /\ cmd' \in [Process -> Command]
           /\ \A q \in Process : CommandOK(cmd'[q])
           /\ cmd'[p] = c
           /\ \A q \in Process : q # p => cmd'[q] = cmd[q]
BY DEF TypeOK, Become

\* The three ways a step moves a command: outside the update, inside it, and
\* out of it.  None of them writes profiles.json.
LEMMA OutsideStep ==
    ASSUME Inv, NEW p \in Process, NEW c \in Command, CommandOK(c), Become(p, c),
           cmd[p].step \notin Locked, c.step \notin Locked,
           config' = config, lock' = lock,
           keyring' \in [Ref -> Token \union {NoToken}], abandoned' \subseteq Ref
    PROVE  Inv'
<1>1. /\ cmd' \in [Process -> Command]
      /\ \A q \in Process : CommandOK(cmd'[q])
      /\ cmd'[p] = c
      /\ \A q \in Process : q # p => cmd'[q] = cmd[q]
  BY BecomeOK DEF Inv
<1>2. TypeOK'
  BY <1>1 DEF Inv, TypeOK
<1>3. LockOwnership'
  BY <1>1 DEF Inv, LockOwnership
<1>4. \A q \in Process : WorkingCopy(cmd[q])'
  BY <1>1 DEF Inv, WorkingCopy, Locked
<1>5. Valid(config)'
  BY DEF Inv
<1>. QED  BY <1>1, <1>2, <1>3, <1>4, <1>5 DEF Inv

LEMMA InsideStep ==
    ASSUME Inv, NEW p \in Process, NEW c \in Command, CommandOK(c), Become(p, c),
           cmd[p].step \in Locked, c.step \in Locked, WorkingCopy(c),
           config' = config, lock' = lock,
           keyring' \in [Ref -> Token \union {NoToken}], abandoned' \subseteq Ref
    PROVE  Inv'
<1>1. /\ cmd' \in [Process -> Command]
      /\ \A q \in Process : CommandOK(cmd'[q])
      /\ cmd'[p] = c
      /\ \A q \in Process : q # p => cmd'[q] = cmd[q]
  BY BecomeOK DEF Inv
<1>2. TypeOK'
  BY <1>1 DEF Inv, TypeOK
<1>3. LockOwnership'
  BY <1>1 DEF Inv, LockOwnership
<1>4. \A q \in Process : WorkingCopy(cmd[q])'
  BY <1>1 DEF Inv, WorkingCopy
<1>5. Valid(config)'
  BY DEF Inv
<1>. QED  BY <1>1, <1>2, <1>3, <1>4, <1>5 DEF Inv

LEMMA LeaveStep ==
    ASSUME Inv, NEW p \in Process, NEW c \in Command, CommandOK(c), Become(p, c),
           cmd[p].step \in Locked, c.step \notin Locked,
           config' = config, lock' = NoProcess,
           keyring' = keyring, abandoned' \subseteq Ref
    PROVE  Inv'
<1>1. /\ cmd' \in [Process -> Command]
      /\ \A q \in Process : CommandOK(cmd'[q])
      /\ cmd'[p] = c
      /\ \A q \in Process : q # p => cmd'[q] = cmd[q]
  BY BecomeOK DEF Inv
<1>2. TypeOK'
  BY <1>1 DEF Inv, TypeOK
<1>3. LockOwnership'
  BY <1>1, ConstantsAssumption DEF Inv, LockOwnership
<1>4. \A q \in Process : WorkingCopy(cmd[q])'
  BY <1>1 DEF Inv, WorkingCopy, Locked
<1>5. Valid(config)'
  BY DEF Inv
<1>. QED  BY <1>1, <1>2, <1>3, <1>4, <1>5 DEF Inv

\* What an accepted closure makes of a valid configuration is valid.
LEMMA EditedValid ==
    ASSUME NEW cfg \in Config, Valid(cfg), NEW c \in Command, CommandOK(c),
           c.op \in KeyringOperation \union {"use"}, ~Refused(cfg, c)
    PROVE  Valid(Edited(cfg, c))
<1>. /\ cfg.profiles \in SUBSET Profile
     /\ cfg.default \in Ref \union {NoRef}
     /\ c.ref \in Ref
  BY DEF Config, CommandOK
<1>1. CASE c.op = "add"
  <2>. DEFINE new == [ref |-> c.ref, company |-> TokenCompany[c.token],
                      source |-> c.source]
  <2>1. /\ Edited(cfg, c).profiles = cfg.profiles \union {new}
        /\ Edited(cfg, c).default \in {c.ref, cfg.default}
    BY <1>1 DEF Edited, Added
  <2>2. new.ref = c.ref
    OBVIOUS
  <2>3. \A old \in cfg.profiles : old.ref # c.ref
    BY <1>1 DEF Refused, Named
  <2>. HIDE DEF new
  <2>. QED  BY <2>1, <2>2, <2>3 DEF Valid, Named
<1>2. CASE c.op = "remove"
  BY <1>2 DEF Edited, Removed, Valid, Named, Refused
<1>3. CASE c.op = "set_credential"
  <2>1. PICK profile \in cfg.profiles : Named(cfg, c.ref) = {profile}
    BY <1>3 DEF Refused, Named, Valid
  <2>2. Rotated(cfg, c).profiles =
          (cfg.profiles \ {profile}) \union {[profile EXCEPT !.source = c.source]}
    BY <2>1 DEF Rotated
  <2>3. [profile EXCEPT !.source = c.source].ref = c.ref
    BY <2>1 DEF Named, Profile
  <2>4. Rotated(cfg, c).default = cfg.default
    BY DEF Rotated
  <2>5. \A a, b \in Rotated(cfg, c).profiles : a.ref = b.ref => a = b
    BY <2>1, <2>2, <2>3 DEF Valid, Named
  <2>6. cfg.default # NoRef => Named(Rotated(cfg, c), cfg.default) # {}
    <3>. SUFFICES ASSUME cfg.default # NoRef
                  PROVE  \E new \in Rotated(cfg, c).profiles : new.ref = cfg.default
      BY DEF Named
    <3>1. PICK old \in cfg.profiles : old.ref = cfg.default
      BY DEF Valid, Named
    <3>2. CASE old = profile
      BY <3>1, <3>2, <2>1, <2>2, <2>3 DEF Named
    <3>3. CASE old # profile
      BY <3>1, <3>3, <2>2
    <3>. QED  BY <3>2, <3>3
  <2>. QED  BY <1>3, <2>4, <2>5, <2>6 DEF Edited, Valid
<1>4. CASE c.op = "use"
  BY <1>4 DEF Edited, Used, Valid, Named, Refused
<1>. QED  BY <1>1, <1>2, <1>3, <1>4 DEF KeyringOperation

LEMMA InvInit == Init => Inv
<1>. SUFFICES ASSUME Init PROVE Inv
  OBVIOUS
<1>1. TypeOK
  BY IdleOK DEF Init, TypeOK, EmptyConfig, Config
<1>2. \A p \in Process : CommandOK(cmd[p])
  BY IdleOK DEF Init
<1>3. LockOwnership
  BY ConstantsAssumption DEF Init, LockOwnership, Idle, Locked
<1>4. \A p \in Process : WorkingCopy(cmd[p])
  BY DEF Init, WorkingCopy, Idle
<1>5. Valid(config)
  BY DEF Init, Valid, EmptyConfig
<1>. QED  BY <1>1, <1>2, <1>3, <1>4, <1>5 DEF Inv

\* A command that starts, or that ends outside the update, keeps Inv.
LEMMA BeginInv == ASSUME Inv, NEW p \in Process, Begin(p) PROVE Inv'
<1>1. \A c \in Command : CommandOK(c) /\ c.step \notin Locked /\ Start(p, c) => Inv'
  <2>. SUFFICES ASSUME NEW c \in Command, CommandOK(c), c.step \notin Locked, Start(p, c)
                PROVE  Inv'
    OBVIOUS
  <2>1. cmd[p].step \notin Locked
    BY DEF Start, Locked
  <2>. QED  BY <2>1, OutsideStep DEF Start, Inv, TypeOK
<1>. USE DEF Idle, Command, CommandOK, Step, Locked, Operation, KeyringOperation,
             Source, Config, EmptyConfig, Stages
<1>2. ASSUME NEW ref \in Ref, NEW source \in Source, NEW token \in Token,
             NEW makeDefault \in BOOLEAN, Login(p, ref, source, token, makeDefault)
      PROVE  Inv'
  BY <1>1, <1>2 DEF Login
<1>3. ASSUME NEW ref \in Ref, Logout(p, ref) PROVE Inv'
  BY <1>1, <1>3 DEF Logout
<1>4. ASSUME NEW ref \in Ref, Use(p, ref) PROVE Inv'
  BY <1>1, <1>4 DEF Use
<1>5. ASSUME NEW ref \in Ref, NEW source \in Source, NEW token \in Token,
             SetCredential(p, ref, source, token)
      PROVE  Inv'
  BY <1>1, <1>5 DEF SetCredential
<1>6. ASSUME NEW ref \in Ref \union {NoRef}, OpenSession(p, ref) PROVE Inv'
  BY <1>1, <1>6 DEF OpenSession
<1>. QED  BY <1>2, <1>3, <1>4, <1>5, <1>6 DEF Begin

\* A command may be dropped wherever the lock is not held, or with the lock.
LEMMA FinishInv ==
    ASSUME Inv, NEW p \in Process, Finish(p), config' = config,
           lock' = IF lock = p THEN NoProcess ELSE lock,
           keyring' \in [Ref -> Token \union {NoToken}], abandoned' \subseteq Ref,
           lock = p => keyring' = keyring
    PROVE  Inv'
<1>. /\ Idle \in Command /\ CommandOK(Idle) /\ Idle.step \notin Locked
     /\ Become(p, Idle)
  BY IdleOK DEF Idle, Locked, Finish
<1>1. CASE cmd[p].step \in Locked
  <2>1. lock = p
    BY <1>1 DEF Inv, LockOwnership
  <2>. QED  BY <1>1, <2>1, LeaveStep
<1>2. CASE cmd[p].step \notin Locked
  <2>1. lock' = lock
    BY <1>2 DEF Inv, LockOwnership
  <2>. QED  BY <1>2, <2>1, OutsideStep
<1>. QED  BY <1>1, <1>2

LEMMA ReleaseInv ==
    ASSUME Inv, NEW p \in Process, cmd[p].step \in Locked, Release(p)
    PROVE  Inv'
<1>1. lock = p
  BY DEF Inv, LockOwnership
<1>. QED  BY <1>1, FinishInv DEF Release, Inv, TypeOK

LEMMA EndInv ==
    ASSUME Inv, NEW p \in Process, cmd[p].step \notin Locked, Finish(p),
           config' = config, lock' = lock,
           keyring' \in [Ref -> Token \union {NoToken}], abandoned' \subseteq Ref
    PROVE  Inv'
<1>1. lock # p
  BY DEF Inv, LockOwnership
<1>. QED  BY <1>1, FinishInv

\* The steps of an update: into it, ...
LEMMA AcquireInv == ASSUME Inv, NEW p \in Process, Acquire(p) PROVE Inv'
<1>. DEFINE c == [cmd[p] EXCEPT !.step = "closure", !.working = config]
<1>1. c \in Command /\ CommandOK(c)
  BY DEF Inv, TypeOK, Acquire, Command, CommandOK, Step, Locked, Stages
<1>2. Become(p, c) /\ c.step = "closure" /\ c.working = config
  BY DEF Acquire, Inv, TypeOK, Command
<1>3. /\ cmd' \in [Process -> Command]
      /\ \A q \in Process : CommandOK(cmd'[q])
      /\ cmd'[p] = c
      /\ \A q \in Process : q # p => cmd'[q] = cmd[q]
  BY <1>1, <1>2, BecomeOK DEF Inv
<1>. HIDE DEF c
<1>4. TypeOK'
  BY <1>3 DEF Inv, TypeOK, Acquire
<1>5. LockOwnership'
  BY <1>2, <1>3, ConstantsAssumption DEF Inv, LockOwnership, Acquire, Locked
<1>6. \A q \in Process : WorkingCopy(cmd[q])'
  BY <1>2, <1>3 DEF Inv, WorkingCopy, Acquire
<1>7. Valid(config)'
  BY DEF Inv, Acquire
<1>. QED  BY <1>3, <1>4, <1>5, <1>6, <1>7 DEF Inv

\* ... through the closure, ...
LEMMA ClosureInv == ASSUME Inv, NEW p \in Process, Closure(p) PROVE Inv'
<1>. DEFINE old == cmd[p]
            had == HadKeyring(old.working, old)
            c == [old EXCEPT
                   !.step = IF ~Stages(old) THEN "write"
                            ELSE IF had THEN "read_previous" ELSE "stage",
                   !.working = IF Stages(old) THEN @ ELSE Edited(@, old),
                   !.wasKeyring = had]
<1>1. /\ old \in Command /\ CommandOK(old) /\ old.step = "closure"
      /\ WorkingCopy(old) /\ old.working = config
      /\ old.op \in KeyringOperation \union {"use"}
  BY DEF Inv, TypeOK, Closure, WorkingCopy, CommandOK, Locked
<1>2. CASE Release(p)
  BY <1>1, <1>2, ReleaseInv DEF Locked
<1>3. CASE /\ ~Refused(config, old)
           /\ Become(p, c)
           /\ UNCHANGED <<config, keyring, lock, abandoned>>
  <2>1. had \in BOOLEAN /\ (had => old.op \in {"remove", "set_credential"})
    BY DEF HadKeyring
  <2>2. Edited(config, old) \in Config /\ config \in Config
    BY <1>1, EditedType DEF Inv, TypeOK
  <2>3. /\ c \in Command
        /\ c.op = old.op /\ c.ref = old.ref /\ c.source = old.source
        /\ c.token = old.token /\ c.makeDefault = old.makeDefault
        /\ c.staged = old.staged /\ c.previous = old.previous
        /\ c.wasKeyring = had
        /\ c.step = IF ~Stages(old) THEN "write"
                    ELSE IF had THEN "read_previous" ELSE "stage"
        /\ c.working = IF Stages(old) THEN config ELSE Edited(config, old)
    BY <1>1, <2>1, <2>2 DEF Command, Step, Locked
  <2>. HIDE DEF c
  <2>4. CommandOK(c)
    <3>1. CASE ~Stages(old)
      BY <1>1, <2>1, <2>3, <3>1 DEF CommandOK, Stages, Locked, KeyringOperation
    <3>2. CASE Stages(old) /\ had
      BY <1>1, <2>1, <2>3, <3>2 DEF CommandOK, Stages, Locked, KeyringOperation
    <3>3. CASE Stages(old) /\ ~had
      BY <1>1, <2>1, <2>3, <3>3 DEF CommandOK, Stages, Locked, KeyringOperation
    <3>. QED  BY <3>1, <3>2, <3>3
  <2>5. Refused(config, c) = Refused(config, old)
    BY <2>3 DEF Refused
  <2>6. had = HadKeyring(config, c)
    BY <1>1, <2>3 DEF HadKeyring
  <2>7. Edited(config, c) = Edited(config, old)
    BY <2>3 DEF Edited, Added, Removed, Rotated, Used
  <2>8. WorkingCopy(c)
    BY <1>3, <2>3, <2>5, <2>6, <2>7 DEF WorkingCopy
  <2>9. c.step \in Locked /\ cmd[p].step \in Locked
    BY <1>1, <2>3 DEF Locked
  <2>. QED  BY <1>3, <2>3, <2>4, <2>8, <2>9, InsideStep DEF Inv, TypeOK
<1>. QED  BY <1>1, <1>2, <1>3 DEF Closure

LEMMA ReadPreviousInv == ASSUME Inv, NEW p \in Process, ReadPrevious(p) PROVE Inv'
<1>. DEFINE old == cmd[p]
            c == [old EXCEPT !.step = "stage", !.previous = keyring[old.ref]]
<1>1. /\ old \in Command /\ CommandOK(old) /\ old.step = "read_previous"
      /\ WorkingCopy(old) /\ old.ref \in Ref
  BY DEF Inv, TypeOK, ReadPrevious, CommandOK, Locked
<1>2. CASE Release(p)
  BY <1>1, <1>2, ReleaseInv DEF Locked
<1>3. CASE Become(p, c) /\ UNCHANGED <<config, keyring, lock, abandoned>>
  <2>1. keyring[old.ref] \in Token \union {NoToken}
    BY <1>1 DEF Inv, TypeOK
  <2>2. /\ c \in Command
        /\ c.op = old.op /\ c.ref = old.ref /\ c.source = old.source
        /\ c.token = old.token /\ c.makeDefault = old.makeDefault
        /\ c.staged = old.staged /\ c.working = old.working
        /\ c.wasKeyring = old.wasKeyring /\ c.step = "stage"
    BY <1>1, <2>1 DEF Command, Step, Locked
  <2>. HIDE DEF c
  <2>3. CommandOK(c)
    BY <1>1, <2>2 DEF CommandOK, Stages, Locked, KeyringOperation
  <2>4. /\ Refused(config, c) = Refused(config, old)
        /\ HadKeyring(config, c) = HadKeyring(config, old)
    BY <2>2 DEF Refused, HadKeyring
  <2>5. WorkingCopy(c)
    BY <1>1, <2>2, <2>4 DEF WorkingCopy
  <2>. QED
    BY <1>1, <1>3, <2>2, <2>3, <2>5, InsideStep DEF Inv, TypeOK, Locked
<1>. QED  BY <1>2, <1>3 DEF ReadPrevious

LEMMA StageInv == ASSUME Inv, NEW p \in Process, Stage(p) PROVE Inv'
<1>. DEFINE old == cmd[p]
            c == [old EXCEPT !.step = "write", !.staged = TRUE,
                             !.working = Edited(@, old)]
<1>1. /\ old \in Command /\ CommandOK(old) /\ old.step = "stage"
      /\ WorkingCopy(old) /\ Stages(old)
      /\ old.ref \in Ref /\ old.token \in Token
      /\ old.op \in KeyringOperation \union {"use"}
  BY DEF Inv, TypeOK, Stage, CommandOK, Locked, Stages, KeyringOperation
<1>2. CASE Release(p)
  BY <1>1, <1>2, ReleaseInv DEF Locked
<1>3. CASE /\ keyring' = [keyring EXCEPT ![old.ref] = old.token]
           /\ Become(p, c)
           /\ UNCHANGED <<config, lock, abandoned>>
  <2>1. old.working = config
    BY <1>1 DEF WorkingCopy
  <2>2. Edited(config, old) \in Config
    BY <1>1, EditedType DEF Inv, TypeOK
  <2>3. /\ c \in Command
        /\ c.op = old.op /\ c.ref = old.ref /\ c.source = old.source
        /\ c.token = old.token /\ c.makeDefault = old.makeDefault
        /\ c.staged = TRUE /\ c.working = Edited(config, old)
        /\ c.wasKeyring = old.wasKeyring /\ c.step = "write"
    BY <1>1, <2>1, <2>2 DEF Command, Step, Locked
  <2>. HIDE DEF c
  <2>4. CommandOK(c)
    BY <1>1, <2>3 DEF CommandOK, Stages, Locked, KeyringOperation
  <2>5. /\ Refused(config, c) = Refused(config, old)
        /\ HadKeyring(config, c) = HadKeyring(config, old)
        /\ Edited(config, c) = Edited(config, old)
    BY <2>3 DEF Refused, HadKeyring, Edited, Added, Removed, Rotated, Used
  <2>6. WorkingCopy(c)
    BY <1>1, <2>3, <2>5 DEF WorkingCopy
  <2>7. keyring' \in [Ref -> Token \union {NoToken}]
    BY <1>1, <1>3 DEF Inv, TypeOK
  <2>. QED
    BY <1>1, <1>3, <2>3, <2>4, <2>6, <2>7, InsideStep DEF Inv, TypeOK, Locked
<1>. QED  BY <1>1, <1>2, <1>3 DEF Stage

\* ... and out of it: profiles.json changes only here.
LEMMA CommitInv == ASSUME Inv, NEW p \in Process, Commit(p) PROVE Inv'
<1>. DEFINE old == cmd[p]
<1>1. /\ old \in Command /\ CommandOK(old) /\ old.step = "write"
      /\ WorkingCopy(old) /\ lock = p
      /\ config' = Edited(config, old) /\ lock' = NoProcess
      /\ keyring' = keyring /\ abandoned' = abandoned
      /\ old.op \in KeyringOperation \union {"use"}
  BY DEF Inv, TypeOK, Commit, WorkingCopy, LockOwnership, CommandOK, Locked
<1>2. PICK c \in Command : /\ Become(p, c) /\ CommandOK(c)
                           /\ c.step \notin Locked
  <2>1. CASE /\ Cleans(old)
             /\ Become(p, [old EXCEPT !.step = "cleanup"])
    <3>. DEFINE new == [old EXCEPT !.step = "cleanup"]
    <3>1. new \in Command /\ new.step = "cleanup" /\ new.op = old.op
          /\ new.source = old.source /\ new.ref = old.ref /\ new.token = old.token
      BY <1>1 DEF Command, Step
    <3>2. HadKeyring(config, old)
      BY <1>1, <2>1 DEF Cleans, WorkingCopy
    <3>. HIDE DEF new
    <3>3. CommandOK(new)
      BY <1>1, <2>1, <3>1, <3>2
         DEF CommandOK, Cleans, HadKeyring, Locked, KeyringOperation
    <3>4. Become(p, new)
      BY <2>1 DEF new
    <3>. QED  BY <3>1, <3>3, <3>4 DEF Locked
  <2>2. CASE /\ old.op = "set_credential"
             /\ Become(p, [old EXCEPT !.step = "report"])
    <3>. DEFINE new == [old EXCEPT !.step = "report"]
    <3>1. new \in Command /\ new.step = "report" /\ new.op = old.op
          /\ new.source = old.source /\ new.ref = old.ref /\ new.token = old.token
      BY <1>1 DEF Command, Step
    <3>. HIDE DEF new
    <3>2. CommandOK(new)
      BY <1>1, <2>2, <3>1 DEF CommandOK, Locked, KeyringOperation
    <3>3. Become(p, new)
      BY <2>2 DEF new
    <3>. QED  BY <3>1, <3>2, <3>3 DEF Locked
  <2>3. CASE Finish(p)
    BY <2>3, IdleOK DEF Finish, Idle, Locked
  <2>. QED  BY <2>1, <2>2, <2>3 DEF Commit
<1>3. /\ cmd' \in [Process -> Command]
      /\ \A q \in Process : CommandOK(cmd'[q])
      /\ cmd'[p] = c
      /\ \A q \in Process : q # p => cmd'[q] = cmd[q]
  BY <1>2, BecomeOK DEF Inv
<1>4. TypeOK'
  BY <1>1, <1>3, EditedType DEF Inv, TypeOK
<1>5. LockOwnership'
  BY <1>1, <1>2, <1>3, ConstantsAssumption DEF Inv, LockOwnership
<1>6. \A q \in Process : WorkingCopy(cmd[q])'
  BY <1>2, <1>3, <1>5, <1>1, ConstantsAssumption DEF LockOwnership, WorkingCopy, Locked
<1>7. Valid(config)'
  <2>1. Valid(config')
    BY <1>1, EditedValid DEF Inv, TypeOK, WorkingCopy
  <2>. QED  BY <2>1 DEF Valid, Named
<1>. QED  BY <1>3, <1>4, <1>5, <1>6, <1>7 DEF Inv

LEMMA WriteFailsInv == ASSUME Inv, NEW p \in Process, WriteFails(p) PROVE Inv'
<1>. DEFINE old == cmd[p]
            c == [old EXCEPT !.step = "rollback"]
<1>1. old \in Command /\ CommandOK(old) /\ old.step = "write" /\ lock = p
  BY DEF Inv, TypeOK, WriteFails, LockOwnership, Locked
<1>2. CASE old.staged /\ Become(p, c)
  <2>1. c \in Command /\ c.step = "rollback" /\ c.op = old.op
        /\ c.source = old.source /\ c.ref = old.ref /\ c.token = old.token
    BY <1>1 DEF Command, Step
  <2>. HIDE DEF c
  <2>2. CommandOK(c)
    BY <1>1, <1>2, <2>1 DEF CommandOK, Stages, Locked, KeyringOperation
  <2>. QED
    BY <1>1, <1>2, <2>1, <2>2, LeaveStep DEF WriteFails, Locked, Inv, TypeOK
<1>3. CASE Finish(p)
  BY <1>1, <1>3, FinishInv DEF WriteFails, Inv, TypeOK
<1>. QED  BY <1>2, <1>3 DEF WriteFails

\* The keyring work after an update.
LEMMA AfterwardsInv ==
    ASSUME Inv, NEW p \in Process, Rollback(p) \/ Cleanup(p) PROVE Inv'
<1>. DEFINE old == cmd[p]
<1>1. /\ old \in Command /\ CommandOK(old) /\ old.ref \in Ref
      /\ old.previous \in Token \union {NoToken}
      /\ old.step \notin Locked /\ old.step \in {"rollback", "cleanup"}
  BY DEF Inv, TypeOK, Rollback, Cleanup, CommandOK, Locked, Stages,
         KeyringOperation, Command
<1>2. CASE Rollback(p)
  <2>1. /\ keyring' \in [Ref -> Token \union {NoToken}]
        /\ abandoned' \subseteq Ref
    BY <1>1, <1>2 DEF Rollback, Inv, TypeOK
  <2>. QED  BY <1>1, <1>2, <2>1, EndInv DEF Rollback
<1>3. CASE Cleanup(p)
  <2>1. /\ keyring' \in [Ref -> Token \union {NoToken}]
        /\ abandoned' \subseteq Ref
    BY <1>1, <1>3 DEF Cleanup, Inv, TypeOK
  <2>2. CASE Finish(p)
    BY <1>1, <1>3, <2>1, <2>2, EndInv DEF Cleanup
  <2>3. CASE old.op # "remove" /\ Become(p, [old EXCEPT !.step = "report"])
    <3>. DEFINE c == [old EXCEPT !.step = "report"]
    <3>1. c \in Command /\ c.step = "report" /\ c.op = old.op
          /\ c.source = old.source /\ c.ref = old.ref /\ c.token = old.token
      BY <1>1 DEF Command, Step
    <3>. HIDE DEF c
    <3>2. CommandOK(c)
      BY <1>1, <1>3, <2>3, <3>1 DEF Cleanup, CommandOK, Locked, KeyringOperation
    <3>3. Become(p, c)
      BY <2>3 DEF c
    <3>. QED
      BY <1>1, <1>3, <2>1, <3>1, <3>2, <3>3, OutsideStep DEF Cleanup, Locked
  <2>. QED  BY <1>3, <2>2, <2>3 DEF Cleanup
<1>. QED  BY <1>2, <1>3

\* The steps that touch neither store, and the crash.
LEMMA ReadersInv ==
    ASSUME Inv, NEW p \in Process,
           Check(p) \/ Report(p) \/ Select(p) \/ Resolve(p) \/ Close(p) \/ GiveUp(p)
    PROVE  Inv'
<1>. DEFINE old == cmd[p]
<1>1. /\ old \in Command /\ CommandOK(old) /\ old.step \notin Locked
      /\ config' = config /\ lock' = lock
      /\ keyring' = keyring /\ abandoned' = abandoned
      /\ keyring \in [Ref -> Token \union {NoToken}] /\ abandoned \subseteq Ref
  BY DEF Inv, TypeOK, Check, Report, Select, Resolve, Close, GiveUp, Locked
<1>2. CASE Finish(p)
  BY <1>1, <1>2, EndInv
<1>3. CASE old.step = "check" /\ Become(p, [old EXCEPT !.step = "acquire"])
  <2>. DEFINE c == [old EXCEPT !.step = "acquire"]
  <2>1. c \in Command /\ c.step = "acquire" /\ c.op = old.op
        /\ c.source = old.source /\ c.ref = old.ref /\ c.token = old.token
        /\ c.staged = old.staged /\ c.previous = old.previous
    BY <1>1 DEF Command, Step
  <2>. HIDE DEF c
  <2>2. CommandOK(c)
    BY <1>1, <1>3, <2>1 DEF CommandOK, Locked, KeyringOperation
  <2>3. Become(p, c)
    BY <1>3 DEF c
  <2>. QED  BY <1>1, <2>1, <2>2, <2>3, OutsideStep DEF Locked
<1>4. CASE \E profile \in config.profiles :
              /\ old.step = "select"
              /\ Become(p, [old EXCEPT !.step = "resolve", !.selected = profile])
  <2>1. PICK profile \in config.profiles :
           old.step = "select"
           /\ Become(p, [old EXCEPT !.step = "resolve", !.selected = profile])
    BY <1>4
  <2>. DEFINE c == [old EXCEPT !.step = "resolve", !.selected = profile]
  <2>2. profile \in Profile
    BY DEF Inv, TypeOK, Config
  <2>3. c \in Command /\ c.step = "resolve" /\ c.selected = profile
        /\ c.op = old.op
    BY <1>1, <2>2 DEF Command, Step
  <2>. HIDE DEF c
  <2>4. CommandOK(c)
    BY <1>1, <2>1, <2>2, <2>3 DEF CommandOK, Locked, KeyringOperation
  <2>5. Become(p, c)
    BY <2>1 DEF c
  <2>. QED  BY <1>1, <2>3, <2>4, <2>5, OutsideStep DEF Locked
<1>5. CASE \E token \in Token \union {NoToken} :
              /\ old.step = "resolve"
              /\ Become(p, [old EXCEPT !.step = "open", !.token = token])
  <2>1. PICK token \in Token \union {NoToken} :
           old.step = "resolve"
           /\ Become(p, [old EXCEPT !.step = "open", !.token = token])
    BY <1>5
  <2>. DEFINE c == [old EXCEPT !.step = "open", !.token = token]
  <2>2. c \in Command /\ c.step = "open" /\ c.op = old.op
    BY <1>1 DEF Command, Step
  <2>. HIDE DEF c
  <2>3. CommandOK(c)
    BY <1>1, <2>1, <2>2 DEF CommandOK, Locked, KeyringOperation
  <2>4. Become(p, c)
    BY <2>1 DEF c
  <2>. QED  BY <1>1, <2>2, <2>3, <2>4, OutsideStep DEF Locked
<1>6. CASE Check(p)
  BY <1>2, <1>3, <1>6 DEF Check
<1>7. CASE Select(p)
  <2>1. \A ref : Named(config, ref) \subseteq config.profiles
    BY DEF Named
  <2>. QED  BY <1>2, <1>4, <1>7, <2>1 DEF Select
<1>8. CASE Resolve(p)
  <2>1. CASE Finish(p)
    BY <2>1, <1>2
  <2>2. CASE old.step = "resolve" /\ Become(p, [old EXCEPT !.step = "open"])
    <3>1. [old EXCEPT !.step = "open"] = [old EXCEPT !.step = "open", !.token = old.token]
          /\ old.token \in Token \union {NoToken}
      BY <1>1 DEF Command
    <3>. QED  BY <1>5, <2>2, <3>1
  <2>3. CASE /\ old.step = "resolve"
             /\ Become(p, [old EXCEPT !.step = "open",
                                      !.token = keyring[old.selected.ref]])
    <3>1. old.selected \in Profile
      BY <1>1, <2>3 DEF CommandOK
    <3>2. keyring[old.selected.ref] \in Token \union {NoToken}
      BY <1>1, <3>1 DEF Profile
    <3>. QED  BY <1>5, <2>3, <3>2
  <2>. QED  BY <1>8, <2>1, <2>2, <2>3 DEF Resolve
<1>. QED  BY <1>2, <1>6, <1>7, <1>8 DEF Report, Close, GiveUp

LEMMA CrashInv == ASSUME Inv, NEW p \in Process, Crash(p) PROVE Inv'
<1>1. cmd[p] \in Command /\ CommandOK(cmd[p])
  BY DEF Inv, TypeOK
<1>2. abandoned' \subseteq Ref
  BY <1>1 DEF Crash, CommandOK, Stages, Locked, KeyringOperation, Inv, TypeOK
<1>. QED  BY <1>2, FinishInv DEF Crash, Inv, TypeOK

LEMMA InvNext == Inv /\ [Next]_vars => Inv'
<1>. SUFFICES ASSUME Inv, [Next]_vars PROVE Inv'
  OBVIOUS
<1>1. CASE UNCHANGED vars
  <2>1. \A p \in Process : WorkingCopy(cmd[p])'
    BY <1>1 DEF Inv, vars, WorkingCopy
  <2>. QED
    BY <1>1, <2>1 DEF Inv, vars, TypeOK, LockOwnership
<1>2. ASSUME NEW p \in Process, Begin(p) PROVE Inv'
  BY <1>2, BeginInv
<1>3. ASSUME NEW p \in Process, Advance(p) PROVE Inv'
  BY <1>3, AcquireInv, ClosureInv, ReadPreviousInv, StageInv, CommitInv,
     WriteFailsInv, AfterwardsInv, ReadersInv DEF Advance
<1>4. ASSUME NEW p \in Process, GiveUp(p) PROVE Inv'
  BY <1>4, ReadersInv
<1>5. ASSUME NEW p \in Process, Crash(p) PROVE Inv'
  BY <1>5, CrashInv
<1>. QED  BY <1>1, <1>2, <1>3, <1>4, <1>5 DEF Next

THEOREM Invariance == Spec => []Inv
BY InvInit, InvNext, PTL DEF Spec

\* Type correctness of every reachable state.
THEOREM TypeCorrect == Spec => []TypeOK
<1>1. Inv => TypeOK
  BY DEF Inv
<1>. QED  BY <1>1, Invariance, PTL

\* Any number of commands, overlapping in any way, failing and crashing: the
\* configuration on disk, and every one about to be written, passes
\* normalize_and_validate.
THEOREM ConfigurationsValid == Spec => []ConfigurationsStayValid
<1>1. Inv => ConfigurationsStayValid
  <2>. SUFFICES ASSUME Inv, NEW p \in Process, cmd[p].step = "write"
                PROVE  Valid(cmd[p].working)
    BY DEF Inv, ConfigurationsStayValid
  <2>1. /\ cmd[p] \in Command /\ CommandOK(cmd[p]) /\ config \in Config
        /\ cmd[p].working = Edited(config, cmd[p]) /\ ~Refused(config, cmd[p])
        /\ cmd[p].op \in KeyringOperation \union {"use"}
    BY DEF Inv, TypeOK, WorkingCopy, CommandOK, Locked
  <2>. QED  BY <2>1, EditedValid DEF Inv
<1>. QED  BY <1>1, Invariance, PTL

-----------------------------------------------------------------------------
\* A commit is the registry operation of its command, on profiles.json as it
\* is at the commit.
LEMMA CommitRefines ==
    ASSUME Inv, NEW p \in Process, Commit(p) PROVE Registry!Next
<1>. DEFINE c == cmd[p]
<1>1. /\ c \in Command /\ CommandOK(c) /\ config \in Config /\ Valid(config)
      /\ ~Refused(config, c) /\ config' = Edited(config, c)
      /\ c.op \in KeyringOperation \union {"use"} /\ c.ref \in Ref
  BY DEF Inv, TypeOK, Commit, WorkingCopy, CommandOK, Locked
<1>2. \A ref : Registry!Named(ref) = Named(config, ref)
  BY DEF Registry!Named, Named
<1>3. CASE c.op = "add"
  <2>. DEFINE profile == [ref |-> c.ref, company |-> TokenCompany[c.token],
                          source |-> c.source]
  <2>1. c.token \in Token /\ c.source \in Source /\ c.makeDefault \in BOOLEAN
    BY <1>1, <1>3 DEF CommandOK, Command
  <2>2. profile \in Registry!Profile /\ profile.ref = c.ref
    BY <1>1, <2>1, ConstantsAssumption DEF Registry!Profile, Registry!Source, Source
  <2>3. config' = [profiles |-> config.profiles \union {profile},
                   default |-> IF c.makeDefault THEN c.ref ELSE config.default]
    BY <1>1, <1>3 DEF Edited, Added
  <2>4. Named(config, c.ref) = {}
    BY <1>1, <1>3 DEF Refused
  <2>. HIDE DEF profile
  <2>5. Registry!Register(profile, c.makeDefault)
    BY <1>2, <2>2, <2>3, <2>4 DEF Registry!Register
  <2>. QED  BY <2>1, <2>2, <2>5 DEF Registry!Next
<1>4. CASE c.op = "remove"
  <2>1. Registry!Unregister(c.ref)
    BY <1>1, <1>2, <1>4 DEF Registry!Unregister, Edited, Removed, Refused
  <2>. QED  BY <1>1, <2>1 DEF Registry!Next
<1>5. CASE c.op = "set_credential"
  <2>1. PICK profile \in config.profiles : Named(config, c.ref) = {profile}
    BY <1>1, <1>5 DEF Refused, Named, Valid
  <2>2. config' = [profiles |-> (config.profiles \ {profile}) \union
                                  {[profile EXCEPT !.source = c.source]},
                   default |-> config.default]
    BY <1>1, <1>5, <2>1 DEF Edited, Rotated
  <2>3. config = [profiles |-> config.profiles, default |-> config.default]
    BY <1>1 DEF Config
  <2>4. Registry!Rotate(profile, c.source)
    BY <2>2, <2>3 DEF Registry!Rotate
  <2>5. c.source \in Registry!Source
    BY <1>1 DEF Command, Source, Registry!Source
  <2>. QED  BY <2>4, <2>5 DEF Registry!Next
<1>6. CASE c.op = "use"
  <2>1. config = [profiles |-> config.profiles, default |-> config.default]
    BY <1>1 DEF Config
  <2>2. Registry!Use(c.ref)
    BY <1>1, <1>2, <1>6, <2>1 DEF Registry!Use, Edited, Used, Refused
  <2>. QED  BY <1>1, <2>2 DEF Registry!Next
<1>. QED  BY <1>1, <1>3, <1>4, <1>5, <1>6 DEF KeyringOperation

\* Every step is a registry operation or leaves profiles.json as it is.
LEMMA StepRefines == Inv /\ [Next]_vars => [Registry!Next]_config
<1>. SUFFICES ASSUME Inv, [Next]_vars PROVE Registry!Next \/ config' = config
  OBVIOUS
<1>1. CASE UNCHANGED vars
  BY <1>1 DEF vars
<1>2. ASSUME NEW p \in Process, Begin(p) PROVE config' = config
  BY <1>2 DEF Begin, Login, Logout, SetCredential, Use, OpenSession, Start
<1>3. ASSUME NEW p \in Process, Advance(p), ~Commit(p) PROVE config' = config
  BY <1>3 DEF Advance, Check, Acquire, Closure, Release, ReadPrevious, Stage,
     WriteFails, Rollback, Cleanup, Report, Select, Resolve, Close
<1>4. ASSUME NEW p \in Process, GiveUp(p) \/ Crash(p) PROVE config' = config
  BY <1>4 DEF GiveUp, Crash
<1>. QED  BY <1>1, <1>2, <1>3, <1>4, CommitRefines DEF Next

\* Commands of any number of processes, however they overlap, fail or crash,
\* implement the registry: each takes effect at once, on the current registry.
THEOREM ImplementsRegistry == Spec => RegistrySpec
<1>1. Init => Registry!Init
  BY DEF Init, Registry!Init, EmptyConfig
<1>. QED
  BY <1>1, StepRefines, Invariance, PTL DEF Spec, RegistrySpec, Registry!Spec

-----------------------------------------------------------------------------
\* What every step of a running command does to the commands.
LEMMA CommandMoves ==
    ASSUME Inv, NEW p \in Process, Advance(p) \/ GiveUp(p) \/ Crash(p)
    PROVE  /\ \A q \in Process : q # p => cmd'[q] = cmd[q]
           /\ \/ cmd'[p] = Idle
              \/ cmd'[p].op = cmd[p].op /\ cmd'[p].ref = cmd[p].ref
<1>. cmd \in [Process -> Command]
  BY DEF Inv, TypeOK
<1>1. ASSUME NEW c, Become(p, c)
      PROVE  cmd'[p] = c /\ \A q \in Process : q # p => cmd'[q] = cmd[q]
  BY <1>1 DEF Become
<1>2. CASE Finish(p)
  BY <1>1, <1>2 DEF Finish
<1>. DEFINE Kept(c) == c.op = cmd[p].op /\ c.ref = cmd[p].ref
<1>. USE DEF Command
<1>3. cmd[p] \in Command
  BY DEF Inv, TypeOK
<1>4. CASE \E c : Kept(c) /\ Become(p, c)
  BY <1>1, <1>4
<1>5. CASE Acquire(p)
  BY <1>2, <1>3, <1>4, <1>5 DEF Acquire
<1>6. CASE Closure(p)
  BY <1>2, <1>3, <1>4, <1>6 DEF Closure, Release
<1>7. CASE ReadPrevious(p)
  BY <1>2, <1>3, <1>4, <1>7 DEF ReadPrevious, Release
<1>8. CASE Stage(p)
  BY <1>2, <1>3, <1>4, <1>8 DEF Stage, Release
<1>9. CASE Commit(p)
  BY <1>2, <1>3, <1>4, <1>9 DEF Commit
<1>10. CASE WriteFails(p)
  BY <1>2, <1>3, <1>4, <1>10 DEF WriteFails
<1>11. CASE Cleanup(p)
  BY <1>2, <1>3, <1>4, <1>11 DEF Cleanup
<1>12. CASE Check(p)
  BY <1>2, <1>3, <1>4, <1>12 DEF Check
<1>13. CASE Select(p)
  BY <1>2, <1>3, <1>4, <1>13 DEF Select
<1>14. CASE Resolve(p)
  BY <1>2, <1>3, <1>4, <1>14 DEF Resolve
<1>. QED
  BY <1>2, <1>5, <1>6, <1>7, <1>8, <1>9, <1>10, <1>11, <1>12, <1>13, <1>14
     DEF Advance, GiveUp, Crash, Rollback, Report, Close

\* A command on its own reference stays alone on it.
LEMMA IsolationNext ==
    ASSUME Isolated, Inv, Isolation, [Next]_vars PROVE Isolation'
<1>. cmd \in [Process -> Command]
  BY DEF Inv, TypeOK
<1>1. CASE UNCHANGED vars
  BY <1>1 DEF vars, Isolation
<1>2. ASSUME NEW p \in Process, Begin(p) PROVE Isolation'
  <2>1. PICK c : Start(p, c)
    BY <1>2 DEF Begin, Login, Logout, SetCredential, Use, OpenSession
  <2>2. cmd'[p] = c /\ \A q \in Process : q # p => cmd'[q] = cmd[q]
    BY <2>1 DEF Start, Become
  <2>. QED  BY <2>1, <2>2 DEF Start, Isolation
<1>3. ASSUME NEW p \in Process, Advance(p) \/ GiveUp(p) \/ Crash(p)
      PROVE  Isolation'
  <2>1. "none" \notin KeyringOperation /\ Idle.op = "none"
    BY DEF KeyringOperation, Idle
  <2>. QED  BY <1>3, <2>1, CommandMoves DEF Isolation
<1>. QED  BY <1>1, <1>2, <1>3 DEF Next

\* A step that changes neither profiles.json nor the keyring.
LEMMA QuietStep ==
    ASSUME Inv, IsolatedInv, NEW p \in Process, Isolation',
           \A q \in Process : q # p => cmd'[q] = cmd[q],
           config' = config, keyring' = keyring, abandoned \subseteq abandoned',
           Pending(cmd'[p]),
           Unsettled(cmd[p]) =>
              \/ Unsettled(cmd'[p]) /\ cmd'[p].ref = cmd[p].ref
              \/ cmd[p].ref \in abandoned'
    PROVE  IsolatedInv'
<1>1. \A q \in Process : Pending(cmd[q])'
  BY DEF IsolatedInv, Pending, PreviousFits, Named
<1>2. CredentialMatchesProfile'
  BY DEF IsolatedInv, CredentialMatchesProfile, CredentialPresent,
         CredentialCompany, KeyringProfiles
<1>3. Settled'
  BY DEF IsolatedInv, Settled, Unsettled, KeyringProfiles
<1>. QED  BY <1>1, <1>2, <1>3 DEF IsolatedInv

\* Starting, reading and ending a command, with nothing to take back.
LEMMA PlainSteps ==
    ASSUME Inv, IsolatedInv, Isolation', NEW p \in Process,
           Begin(p) \/ Check(p) \/ GiveUp(p) \/ Acquire(p) \/ Report(p)
             \/ Select(p) \/ Resolve(p) \/ Close(p)
    PROVE  IsolatedInv'
<1>. DEFINE old == cmd[p]
            quiet == {"idle", "check", "acquire", "closure", "report",
                      "select", "resolve", "open"}
<1>1. old \in Command /\ cmd \in [Process -> Command]
  BY DEF Inv, TypeOK
<1>2. ASSUME NEW c, Become(p, c), c.step \in quiet, old.step \in quiet,
             config' = config, keyring' = keyring, abandoned' = abandoned
      PROVE  IsolatedInv'
  <2>1. cmd'[p] = c /\ \A q \in Process : q # p => cmd'[q] = cmd[q]
    BY <1>1, <1>2 DEF Become
  <2>2. Pending(cmd'[p]) /\ ~Unsettled(old)
    BY <1>2, <2>1 DEF Pending, Unsettled
  <2>. QED  BY <1>2, <2>1, <2>2, QuietStep
<1>3. Idle.step \in quiet
  BY DEF Idle
<1>4. CASE Begin(p)
  <2>1. ASSUME NEW c, Start(p, c), c.step \in quiet PROVE IsolatedInv'
    BY <1>2, <2>1 DEF Start
  <2>2. ASSUME NEW ref \in Ref, NEW source \in Source, NEW token \in Token,
               NEW makeDefault \in BOOLEAN,
               Login(p, ref, source, token, makeDefault)
        PROVE  IsolatedInv'
    BY <2>1, <2>2 DEF Login, Idle
  <2>3. ASSUME NEW ref \in Ref, Logout(p, ref) PROVE IsolatedInv'
    BY <2>1, <2>3 DEF Logout, Idle
  <2>4. ASSUME NEW ref \in Ref, Use(p, ref) PROVE IsolatedInv'
    BY <2>1, <2>4 DEF Use, Idle
  <2>5. ASSUME NEW ref \in Ref, NEW source \in Source, NEW token \in Token,
               SetCredential(p, ref, source, token)
        PROVE  IsolatedInv'
    BY <2>1, <2>5 DEF SetCredential, Idle
  <2>6. ASSUME NEW ref \in Ref \union {NoRef}, OpenSession(p, ref)
        PROVE  IsolatedInv'
    BY <2>1, <2>6 DEF OpenSession, Idle
  <2>. QED  BY <1>4, <2>2, <2>3, <2>4, <2>5, <2>6 DEF Begin
<1>5. CASE Check(p)
  BY <1>1, <1>2, <1>3, <1>5 DEF Check, Finish, Command
<1>6. CASE GiveUp(p)
  BY <1>2, <1>3, <1>6 DEF GiveUp, Finish
<1>7. CASE Acquire(p)
  BY <1>1, <1>2, <1>7 DEF Acquire, Command
<1>8. CASE Report(p) \/ Close(p)
  BY <1>2, <1>3, <1>8 DEF Report, Close, Finish
<1>9. CASE Select(p)
  BY <1>1, <1>2, <1>3, <1>9 DEF Select, Finish, Command
<1>10. CASE Resolve(p)
  BY <1>1, <1>2, <1>3, <1>10 DEF Resolve, Finish, Command
<1>. QED  BY <1>4, <1>5, <1>6, <1>7, <1>8, <1>9, <1>10

\* Leaving a command without touching the stores: what it staged or still had
\* to remove is then on record.
LEMMA DropStep ==
    ASSUME Inv, IsolatedInv, Isolation', NEW p \in Process, Finish(p),
           config' = config, keyring' = keyring, abandoned \subseteq abandoned',
           Unsettled(cmd[p]) => cmd[p].ref \in abandoned'
    PROVE  IsolatedInv'
<1>1. cmd'[p] = Idle /\ \A q \in Process : q # p => cmd'[q] = cmd[q]
  BY DEF Inv, TypeOK, Finish, Become
<1>2. Pending(cmd'[p])
  BY <1>1 DEF Pending, Idle
<1>. QED  BY <1>1, <1>2, QuietStep

LEMMA CrashIsolated ==
    ASSUME Inv, IsolatedInv, Isolation', NEW p \in Process, Crash(p)
    PROVE  IsolatedInv'
BY DropStep DEF Crash, Unsettled

LEMMA ClosureIsolated ==
    ASSUME Inv, IsolatedInv, Isolation', NEW p \in Process, Closure(p)
    PROVE  IsolatedInv'
<1>. DEFINE old == cmd[p]
            had == HadKeyring(old.working, old)
            c == [old EXCEPT
                   !.step = IF ~Stages(old) THEN "write"
                            ELSE IF had THEN "read_previous" ELSE "stage",
                   !.working = IF Stages(old) THEN @ ELSE Edited(@, old),
                   !.wasKeyring = had]
<1>1. /\ old \in Command /\ CommandOK(old) /\ old.step = "closure"
      /\ old.working = config /\ cmd \in [Process -> Command]
      /\ config \in Config /\ ~old.staged /\ old.previous = NoToken
  BY DEF Inv, TypeOK, Closure, WorkingCopy, CommandOK
<1>2. CASE Release(p)
  BY <1>1, <1>2, DropStep DEF Release, Unsettled
<1>3. CASE /\ ~Refused(config, old) /\ Become(p, c)
           /\ UNCHANGED <<config, keyring, lock, abandoned>>
  <2>1. /\ c.op = old.op /\ c.ref = old.ref /\ c.source = old.source
        /\ c.token = old.token /\ ~c.staged /\ c.previous = NoToken
        /\ c.step = IF ~Stages(old) THEN "write"
                    ELSE IF had THEN "read_previous" ELSE "stage"
    BY <1>1 DEF Command
  <2>2. cmd'[p] = c /\ \A q \in Process : q # p => cmd'[q] = cmd[q]
    BY <1>1, <1>3 DEF Become
  <2>3. \A profile \in Named(config, c.ref) : profile.source \in Source
    BY <1>1 DEF Named, Config, Profile
  <2>. HIDE DEF c
  <2>4. c.op = "add" => Named(config, c.ref) = {}
    BY <1>3, <2>1 DEF Refused
  <2>5. c.op = "set_credential" =>
           /\ Named(config, c.ref) # {}
           /\ \A profile \in Named(config, c.ref) :
                 profile.company = TokenCompany[c.token]
    BY <1>3, <2>1 DEF Refused
  <2>6. c.step = "stage" /\ c.op = "set_credential" =>
           \A profile \in Named(config, c.ref) : PreviousFits(c, profile)
    <3>. SUFFICES ASSUME c.step = "stage", c.op = "set_credential",
                         NEW profile \in Named(config, c.ref)
                  PROVE  PreviousFits(c, profile)
      OBVIOUS
    <3>1. ~had
      BY <2>1
    <3>2. profile.source # "keyring"
      BY <1>1, <2>1, <3>1 DEF HadKeyring
    <3>. QED  BY <2>1, <3>2 DEF PreviousFits
  <2>7. Pending(c)
    BY <2>1, <2>4, <2>5, <2>6 DEF Pending, Stages
  <2>8. ~Unsettled(old)
    BY <1>1 DEF Unsettled
  <2>. QED  BY <1>3, <2>2, <2>7, <2>8, QuietStep
<1>. QED  BY <1>1, <1>2, <1>3 DEF Closure

LEMMA ReadPreviousIsolated ==
    ASSUME Inv, IsolatedInv, Isolation', NEW p \in Process, ReadPrevious(p)
    PROVE  IsolatedInv'
<1>. DEFINE old == cmd[p]
            c == [old EXCEPT !.step = "stage", !.previous = keyring[old.ref]]
<1>1. /\ old \in Command /\ CommandOK(old) /\ old.step = "read_previous"
      /\ cmd \in [Process -> Command] /\ config \in Config /\ Valid(config)
      /\ ~Refused(config, old) /\ HadKeyring(config, old)
      /\ Stages(old) /\ old.op = "set_credential"
  BY DEF Inv, TypeOK, ReadPrevious, WorkingCopy, CommandOK
<1>2. CASE Release(p)
  BY <1>1, <1>2, DropStep DEF Release, Unsettled
<1>3. CASE Become(p, c) /\ UNCHANGED <<config, keyring, lock, abandoned>>
  <2>1. /\ c.op = old.op /\ c.ref = old.ref /\ c.source = old.source
        /\ c.token = old.token /\ c.previous = keyring[c.ref] /\ c.step = "stage"
    BY <1>1 DEF Command
  <2>2. cmd'[p] = c /\ \A q \in Process : q # p => cmd'[q] = cmd[q]
    BY <1>1, <1>3 DEF Become
  <2>. HIDE DEF c
  <2>3. \A profile \in Named(config, c.ref) :
           /\ profile \in KeyringProfiles /\ profile.ref = c.ref
           /\ profile.company = TokenCompany[c.token]
    BY <1>1, <2>1 DEF HadKeyring, Valid, Named, KeyringProfiles, Refused
  <2>4. \A profile \in Named(config, c.ref) : PreviousFits(c, profile)
    BY <2>1, <2>3 DEF PreviousFits, IsolatedInv, CredentialMatchesProfile,
       CredentialPresent, CredentialCompany, KeyringProfiles
  <2>5. Named(config, c.ref) # {}
    BY <1>1, <2>1 DEF Refused
  <2>6. Pending(c) /\ ~Unsettled(old)
    BY <1>1, <2>1, <2>3, <2>4, <2>5 DEF Pending, Unsettled
  <2>. QED  BY <1>3, <2>2, <2>6, QuietStep
<1>. QED  BY <1>2, <1>3 DEF ReadPrevious

LEMMA WriteFailsIsolated ==
    ASSUME Inv, IsolatedInv, Isolation', NEW p \in Process, WriteFails(p)
    PROVE  IsolatedInv'
<1>. DEFINE old == cmd[p]
            c == [old EXCEPT !.step = "rollback"]
<1>1. /\ old \in Command /\ old.step = "write" /\ Pending(old)
      /\ cmd \in [Process -> Command]
  BY DEF Inv, TypeOK, WriteFails, IsolatedInv
<1>2. CASE ~old.staged /\ Finish(p)
  BY <1>1, <1>2, DropStep DEF WriteFails, Unsettled
<1>3. CASE old.staged /\ Become(p, c)
  <2>1. /\ c.op = old.op /\ c.ref = old.ref /\ c.source = old.source
        /\ c.token = old.token /\ c.previous = old.previous
        /\ c.step = "rollback"
    BY <1>1 DEF Command
  <2>2. cmd'[p] = c /\ \A q \in Process : q # p => cmd'[q] = cmd[q]
    BY <1>1, <1>3 DEF Become
  <2>. HIDE DEF c
  <2>3. Pending(c)
    BY <1>1, <2>1 DEF Pending, Stages, PreviousFits
  <2>4. Unsettled(c)
    BY <2>1 DEF Unsettled
  <2>. QED  BY <2>1, <2>2, <2>3, <2>4, QuietStep DEF WriteFails
<1>. QED  BY <1>2, <1>3 DEF WriteFails

\* The command a keyring step belongs to is the only one on its reference.
LEMMA AloneOnRef ==
    ASSUME Isolation, NEW p \in Process, cmd[p].op \in KeyringOperation
    PROVE  \A q \in Process : /\ q # p
                              /\ cmd[q].op \in KeyringOperation
                              => cmd[q].ref # cmd[p].ref
BY DEF Isolation

\* A step that changes the keyring entry of its own reference only.
LEMMA OwnEntryStep ==
    ASSUME Inv, IsolatedInv, Isolation', NEW p \in Process,
           cmd[p].op \in KeyringOperation, cmd[p].ref \in Ref,
           \A q \in Process : q # p => cmd'[q] = cmd[q],
           config' = config, NEW entry,
           keyring' = [keyring EXCEPT ![cmd[p].ref] = entry],
           abandoned' = abandoned,
           Pending(cmd[p])',
           \A profile \in Named(config, cmd[p].ref) : profile.source = "keyring" =>
              entry # NoToken /\ TokenCompany[entry] = profile.company,
           entry # NoToken =>
              \/ \E profile \in KeyringProfiles : profile.ref = cmd[p].ref
              \/ Unsettled(cmd'[p]) /\ cmd'[p].ref = cmd[p].ref
    PROVE  IsolatedInv'
<1>. keyring \in [Ref -> Token \union {NoToken}]
  BY DEF Inv, TypeOK
<1>. config \in Config
  BY DEF Inv, TypeOK
<1>1. /\ keyring'[cmd[p].ref] = entry
      /\ \A ref \in Ref : ref # cmd[p].ref => keyring'[ref] = keyring[ref]
  OBVIOUS
<1>2. \A q \in Process : Pending(cmd[q])'
  <2>. SUFFICES ASSUME NEW q \in Process, q # p PROVE Pending(cmd[q])'
    OBVIOUS
  <2>1. Pending(cmd[q]) /\ CommandOK(cmd[q]) /\ cmd'[q] = cmd[q]
    BY DEF IsolatedInv, Inv
  <2>2. cmd[q].step = "write" /\ cmd[q].staged =>
           cmd[q].ref \in Ref /\ cmd[q].ref # cmd[p].ref
    BY <2>1, AloneOnRef DEF CommandOK, Stages, KeyringOperation, IsolatedInv
  <2>. QED  BY <1>1, <2>1, <2>2 DEF Pending, PreviousFits, Named
<1>3. CredentialMatchesProfile'
  <2>. SUFFICES ASSUME NEW profile \in KeyringProfiles
                PROVE  /\ keyring'[profile.ref] # NoToken
                       /\ TokenCompany[keyring'[profile.ref]] = profile.company
    BY DEF CredentialMatchesProfile, CredentialPresent, CredentialCompany,
           KeyringProfiles
  <2>1. profile \in config.profiles /\ profile.source = "keyring" /\ profile.ref \in Ref
    BY DEF KeyringProfiles, Config, Profile
  <2>2. CASE profile.ref = cmd[p].ref
    BY <1>1, <2>1, <2>2 DEF Named
  <2>3. CASE profile.ref # cmd[p].ref
    BY <1>1, <2>1, <2>3 DEF IsolatedInv, CredentialMatchesProfile,
       CredentialPresent, CredentialCompany
  <2>. QED  BY <2>2, <2>3
<1>4. Settled'
  <2>1. KeyringProfiles' = KeyringProfiles
    BY DEF KeyringProfiles
  <2>2. ASSUME NEW ref \in Ref, keyring'[ref] # NoToken
        PROVE  \/ \E profile \in KeyringProfiles : profile.ref = ref
               \/ \E q \in Process : cmd'[q].ref = ref /\ Unsettled(cmd'[q])
               \/ ref \in abandoned
    <3>1. CASE ref = cmd[p].ref
      BY <1>1, <2>2, <3>1
    <3>2. CASE ref # cmd[p].ref
      <4>1. \/ \E profile \in KeyringProfiles : profile.ref = ref
            \/ \E q \in Process : cmd[q].ref = ref /\ Unsettled(cmd[q])
            \/ ref \in abandoned
        BY <1>1, <2>2, <3>2 DEF IsolatedInv, Settled
      <4>. QED  BY <3>2, <4>1
    <3>. QED  BY <3>1, <3>2
  <2>. QED  BY <2>1, <2>2 DEF Settled, Unsettled
<1>. QED  BY <1>2, <1>3, <1>4 DEF IsolatedInv

LEMMA StageIsolated ==
    ASSUME Inv, IsolatedInv, Isolation', NEW p \in Process, Stage(p)
    PROVE  IsolatedInv'
<1>. DEFINE old == cmd[p]
            c == [old EXCEPT !.step = "write", !.staged = TRUE,
                             !.working = Edited(@, old)]
<1>1. /\ old \in Command /\ CommandOK(old) /\ old.step = "stage" /\ Pending(old)
      /\ cmd \in [Process -> Command] /\ Stages(old)
      /\ old.ref \in Ref /\ old.op \in KeyringOperation
      /\ keyring \in [Ref -> Token \union {NoToken}]
      /\ old.token \in Token
  BY DEF Inv, TypeOK, Stage, CommandOK, IsolatedInv, Stages, KeyringOperation
<1>2. CASE Release(p)
  BY <1>1, <1>2, DropStep DEF Release, Unsettled
<1>3. CASE /\ keyring' = [keyring EXCEPT ![old.ref] = old.token]
           /\ Become(p, c)
           /\ UNCHANGED <<config, lock, abandoned>>
  <2>1. /\ c.op = old.op /\ c.ref = old.ref /\ c.source = old.source
        /\ c.token = old.token /\ c.previous = old.previous
        /\ c.step = "write" /\ c.staged
    BY <1>1 DEF Command
  <2>2. cmd'[p] = c /\ \A q \in Process : q # p => cmd'[q] = cmd[q]
    BY <1>1, <1>3 DEF Become
  <2>. HIDE DEF c
  <2>3. keyring'[c.ref] = c.token /\ config' = config
    BY <1>1, <1>3, <2>1
  <2>4. Pending(cmd[p])'
    BY <1>1, <2>1, <2>2, <2>3 DEF Pending, Stages, PreviousFits, Named
  <2>5. \A profile \in Named(config, old.ref) :
           profile.company = TokenCompany[old.token]
    BY <1>1 DEF Pending, Stages, KeyringOperation
  <2>6. Unsettled(cmd'[p]) /\ cmd'[p].ref = old.ref /\ old.token # NoToken
    BY <1>1, <2>1, <2>2, ConstantsAssumption DEF Unsettled
  <2>7. keyring' = [keyring EXCEPT ![old.ref] = old.token] /\ abandoned' = abandoned
    BY <1>3
  <2>. DEFINE entry == old.token
  <2>8. /\ \A profile \in Named(config, old.ref) : profile.source = "keyring" =>
              entry # NoToken /\ TokenCompany[entry] = profile.company
        /\ entry # NoToken =>
              \/ \E profile \in KeyringProfiles : profile.ref = old.ref
              \/ Unsettled(cmd'[p]) /\ cmd'[p].ref = old.ref
    BY <2>5, <2>6
  <2>9. keyring' = [keyring EXCEPT ![old.ref] = entry]
    BY <2>7
  <2>. HIDE DEF entry
  <2>. QED
    BY <1>1, <2>2, <2>3, <2>4, <2>7, <2>8, <2>9, OwnEntryStep
<1>. QED  BY <1>1, <1>2, <1>3 DEF Stage

\* The rollback puts back what fits the profile, or nothing.
LEMMA RollbackIsolated ==
    ASSUME Inv, IsolatedInv, Isolation', NEW p \in Process, Rollback(p)
    PROVE  IsolatedInv'
<1>. DEFINE old == cmd[p]
<1>1. /\ old \in Command /\ CommandOK(old) /\ old.step = "rollback"
      /\ Pending(old) /\ Stages(old) /\ old.ref \in Ref
      /\ old.op \in KeyringOperation /\ config \in Config
  BY DEF Inv, TypeOK, Rollback, CommandOK, IsolatedInv, Stages, KeyringOperation
<1>2. cmd'[p] = Idle /\ \A q \in Process : q # p => cmd'[q] = cmd[q]
  BY DEF Rollback, Finish, Become, Inv, TypeOK
<1>3. CASE keyring' = [keyring EXCEPT ![old.ref] = old.previous]
           /\ UNCHANGED abandoned
  <2>1. Pending(cmd[p])'
    BY <1>2 DEF Pending, Idle
  <2>2. \A profile \in Named(config, old.ref) : profile.source = "keyring" =>
           old.previous # NoToken /\ TokenCompany[old.previous] = profile.company
    BY <1>1 DEF Pending, PreviousFits, Stages, KeyringOperation
  <2>3. old.previous # NoToken =>
           \E profile \in KeyringProfiles : profile.ref = old.ref
    <3>1. CASE old.op = "add"
      BY <1>1, <3>1 DEF Pending
    <3>2. CASE old.op = "set_credential"
      <4>1. PICK profile \in Named(config, old.ref) : PreviousFits(old, profile)
        BY <1>1, <3>2 DEF Pending
      <4>. QED  BY <4>1 DEF PreviousFits, KeyringProfiles, Named
    <3>. QED  BY <1>1, <3>1, <3>2 DEF Stages
  <2>. DEFINE entry == old.previous
  <2>4. /\ \A profile \in Named(config, old.ref) : profile.source = "keyring" =>
              entry # NoToken /\ TokenCompany[entry] = profile.company
        /\ entry # NoToken =>
              \/ \E profile \in KeyringProfiles : profile.ref = old.ref
              \/ Unsettled(cmd'[p]) /\ cmd'[p].ref = old.ref
        /\ keyring' = [keyring EXCEPT ![old.ref] = entry]
    BY <1>3, <2>2, <2>3
  <2>5. config' = config /\ abandoned' = abandoned
    BY <1>3 DEF Rollback
  <2>. HIDE DEF entry
  <2>. QED  BY <1>1, <1>2, <2>1, <2>4, <2>5, OwnEntryStep
<1>4. CASE abandoned' = abandoned \union {old.ref} /\ UNCHANGED keyring
  BY <1>4, DropStep DEF Rollback
<1>. QED  BY <1>3, <1>4 DEF Rollback

\* The cleanup deletes an entry no profile names.
LEMMA CleanupIsolated ==
    ASSUME Inv, IsolatedInv, Isolation', NEW p \in Process, Cleanup(p)
    PROVE  IsolatedInv'
<1>. DEFINE old == cmd[p]
<1>1. /\ old \in Command /\ CommandOK(old) /\ old.step = "cleanup"
      /\ Pending(old) /\ old.ref \in Ref /\ old.op \in KeyringOperation
      /\ cmd \in [Process -> Command]
  BY DEF Inv, TypeOK, Cleanup, CommandOK, IsolatedInv, KeyringOperation
<1>. DEFINE reporting == [old EXCEPT !.step = "report"]
<1>a. /\ Become(p, Idle) \/ Become(p, reporting)
      /\ Idle.step = "idle" /\ reporting.step = "report"
  BY <1>1 DEF Cleanup, Finish, Idle, Command
<1>. HIDE DEF reporting
<1>2. PICK c : Become(p, c) /\ c.step \in {"idle", "report"}
  BY <1>a
<1>3. cmd'[p] = c /\ \A q \in Process : q # p => cmd'[q] = cmd[q]
  BY <1>1, <1>2 DEF Become
<1>4. Pending(cmd'[p]) /\ Pending(cmd[p])'
  BY <1>2, <1>3 DEF Pending
<1>5. CASE keyring' = [keyring EXCEPT ![old.ref] = NoToken] /\ UNCHANGED abandoned
  <2>1. \A profile \in Named(config, old.ref) : profile.source # "keyring"
    BY <1>1 DEF Pending
  <2>. QED  BY <1>1, <1>3, <1>4, <1>5, <2>1, OwnEntryStep DEF Cleanup
<1>6. CASE abandoned' = abandoned \union {old.ref} /\ UNCHANGED keyring
  BY <1>3, <1>4, <1>6, QuietStep DEF Cleanup
<1>. QED  BY <1>5, <1>6 DEF Cleanup

\* What a committed update leaves alone, what it adds, and what it drops.
LEMMA CommitEdit ==
    ASSUME Inv, IsolatedInv, NEW p \in Process, Commit(p)
    PROVE  /\ \A ref : \/ Named(config', ref) = Named(config, ref)
                       \/ ref = cmd[p].ref /\ cmd[p].op \in KeyringOperation
           /\ \A profile \in config'.profiles :
                 \/ profile \in config.profiles
                 \/ /\ profile.ref = cmd[p].ref /\ profile.source = cmd[p].source
                    /\ profile.company = TokenCompany[cmd[p].token]
                    /\ cmd[p].op \in {"add", "set_credential"}
           /\ Stages(cmd[p]) =>
                 \E profile \in KeyringProfiles' : profile.ref = cmd[p].ref
           /\ Cleans(cmd[p]) => \A profile \in Named(config', cmd[p].ref) :
                                   profile.source # "keyring"
           /\ \A profile \in KeyringProfiles :
                 \/ profile \in KeyringProfiles'
                 \/ profile.ref = cmd[p].ref /\ (Stages(cmd[p]) \/ Cleans(cmd[p]))
<1>. DEFINE c == cmd[p]
<1>1. /\ c \in Command /\ CommandOK(c) /\ c.step = "write"
      /\ ~Refused(config, c) /\ c.wasKeyring = HadKeyring(config, c)
      /\ config' = Edited(config, c) /\ config \in Config
      /\ c.op \in KeyringOperation \union {"use"} /\ c.ref \in Ref
  BY DEF Inv, TypeOK, Commit, WorkingCopy, CommandOK, Locked
<1>2. \A profile \in config.profiles :
         /\ profile = [ref |-> profile.ref, company |-> profile.company,
                       source |-> profile.source]
         /\ profile.source \in Source
  BY <1>1 DEF Config, Profile
<1>. HIDE DEF c
<1>3. CASE c.op = "use"
  <2>1. config'.profiles = config.profiles /\ ~Stages(c) /\ ~Cleans(c)
    BY <1>1, <1>3 DEF Edited, Used, Stages, Cleans, HadKeyring
  <2>2. \A ref : Named(config', ref) = Named(config, ref)
    BY <2>1 DEF Named
  <2>. QED  BY <2>1, <2>2 DEF KeyringProfiles, c
<1>4. CASE c.op = "add"
  <2>. DEFINE new == [ref |-> c.ref, company |-> TokenCompany[c.token],
                      source |-> c.source]
  <2>1. config'.profiles = config.profiles \union {new} /\ ~Cleans(c)
    BY <1>1, <1>4 DEF Edited, Added, Cleans, HadKeyring
  <2>2. new.ref = c.ref /\ new.source = c.source /\ new.company = TokenCompany[c.token]
    OBVIOUS
  <2>. HIDE DEF new
  <2>3. \A ref : ref # c.ref => Named(config', ref) = Named(config, ref)
    BY <2>1, <2>2 DEF Named
  <2>4. Stages(c) => new \in KeyringProfiles'
    BY <2>1, <2>2 DEF Stages, KeyringProfiles
  <2>5. KeyringProfiles \subseteq KeyringProfiles'
    BY <2>1 DEF KeyringProfiles
  <2>. QED  BY <1>4, <2>1, <2>2, <2>3, <2>4, <2>5 DEF KeyringOperation, c
<1>5. CASE c.op = "remove"
  <2>1. config'.profiles = config.profiles \ Named(config, c.ref) /\ ~Stages(c)
    BY <1>1, <1>5 DEF Edited, Removed, Stages
  <2>2. \A ref : ref # c.ref => Named(config', ref) = Named(config, ref)
    BY <2>1 DEF Named
  <2>3. Named(config', c.ref) = {}
    BY <2>1 DEF Named, c
  <2>4. \A profile \in KeyringProfiles : profile \notin KeyringProfiles' =>
           profile.ref = c.ref /\ Cleans(c)
    BY <1>1, <1>5, <2>1 DEF KeyringProfiles, Cleans, HadKeyring, Named
  <2>. QED  BY <1>5, <2>1, <2>2, <2>3, <2>4 DEF KeyringOperation, c
<1>6. CASE c.op = "set_credential"
  <2>. DEFINE rotated(profile) == [profile EXCEPT !.source = c.source]
  <2>1. config'.profiles = (config.profiles \ Named(config, c.ref)) \union
                              {rotated(profile) : profile \in Named(config, c.ref)}
    BY <1>1, <1>6 DEF Edited, Rotated
  <2>2. \A profile \in Named(config, c.ref) :
           /\ rotated(profile).ref = c.ref /\ rotated(profile).source = c.source
           /\ rotated(profile).company = TokenCompany[c.token]
    BY <1>1, <1>2, <1>6 DEF Named, Refused
  <2>. HIDE DEF rotated
  <2>3. \A ref : ref # c.ref => Named(config', ref) = Named(config, ref)
    BY <2>1, <2>2 DEF Named
  <2>4. Named(config, c.ref) # {}
    BY <1>1, <1>6 DEF Refused
  <2>5. Stages(c) => \E profile \in KeyringProfiles' : profile.ref = c.ref
    BY <2>1, <2>2, <2>4 DEF Stages, KeyringProfiles
  <2>6. \A profile \in config'.profiles :
           \/ profile \in config.profiles /\ profile.ref # c.ref
           \/ /\ profile.ref = c.ref /\ profile.source = c.source
              /\ profile.company = TokenCompany[c.token]
    BY <2>1, <2>2 DEF Named
  <2>7. Cleans(c) => \A profile \in Named(config', c.ref) : profile.source # "keyring"
    BY <1>6, <2>6 DEF Cleans, Named, c
  <2>8. \A profile \in KeyringProfiles : profile \notin KeyringProfiles' =>
           profile.ref = c.ref /\ (Stages(c) \/ Cleans(c))
    BY <1>1, <1>6, <2>1 DEF KeyringProfiles, Cleans, Stages, HadKeyring, Named
  <2>. QED  BY <1>6, <2>3, <2>5, <2>6, <2>7, <2>8 DEF KeyringOperation, c
<1>. QED  BY <1>1, <1>3, <1>4, <1>5, <1>6 DEF KeyringOperation

\* The commit makes the staged entry the profile's, or the obsolete one the
\* cleanup's.
LEMMA CommitIsolated ==
    ASSUME Inv, IsolatedInv, Isolation', NEW p \in Process, Commit(p)
    PROVE  IsolatedInv'
<1>. DEFINE c == cmd[p]
            After(step) == [c EXCEPT !.step = step]
<1>1. /\ c \in Command /\ CommandOK(c) /\ c.step = "write" /\ Pending(c)
      /\ cmd \in [Process -> Command] /\ keyring' = keyring /\ abandoned' = abandoned
      /\ c.ref \in Ref /\ (c.staged <=> Stages(c))
      /\ (c.staged => keyring[c.ref] = c.token /\ c.token # NoToken)
  BY ConstantsAssumption
     DEF Inv, TypeOK, Commit, CommandOK, Locked, IsolatedInv, Pending, Stages
<1>2. /\ \A q \in Process : q # p => cmd'[q] = cmd[q]
      /\ \/ Cleans(c) /\ cmd'[p] = After("cleanup")
         \/ ~Cleans(c) /\ (cmd'[p] = After("report") \/ cmd'[p] = Idle)
  BY <1>1 DEF Commit, Become, Finish
<1>3. /\ After("cleanup").step = "cleanup" /\ After("report").step = "report"
      /\ After("cleanup").ref = c.ref /\ Idle.step = "idle"
  BY <1>1 DEF Idle, Command
<1>. HIDE DEF After
<1>4. \A q \in Process : Pending(cmd[q])'
  <2>1. ASSUME NEW q \in Process, q # p PROVE Pending(cmd[q])'
    <3>1. Pending(cmd[q]) /\ CommandOK(cmd[q]) /\ cmd'[q] = cmd[q]
      BY <1>2, <2>1 DEF IsolatedInv, Inv
    <3>2. CASE cmd[q].op \in KeyringOperation
      <4>1. Named(config', cmd[q].ref) = Named(config, cmd[q].ref)
        BY <2>1, <3>1, <3>2, CommitEdit DEF IsolatedInv, Isolation, Named
      <4>. QED  BY <1>1, <3>1, <4>1 DEF Pending, PreviousFits, Named
    <3>3. CASE cmd[q].op \notin KeyringOperation
      BY <3>1, <3>3 DEF Pending, CommandOK, Stages, KeyringOperation
    <3>. QED  BY <3>2, <3>3
  <2>2. Pending(cmd[p])'
    <3>1. CASE Cleans(c) /\ cmd'[p] = After("cleanup")
      <4>1. \A profile \in Named(config', c.ref) : profile.source # "keyring"
        BY <3>1, CommitEdit
      <4>2. cmd'[p].step = "cleanup" /\ cmd'[p].ref = c.ref
        BY <1>3, <3>1
      <4>. QED  BY <4>1, <4>2 DEF Pending, Named
    <3>2. CASE cmd'[p].step \in {"report", "idle"}
      BY <3>2 DEF Pending
    <3>. QED  BY <1>2, <1>3, <3>1, <3>2
  <2>. QED  BY <2>1, <2>2
<1>5. CredentialMatchesProfile'
  <2>1. ASSUME NEW profile \in KeyringProfiles'
        PROVE  /\ keyring[profile.ref] # NoToken
               /\ TokenCompany[keyring[profile.ref]] = profile.company
    <3>1. profile \in config'.profiles /\ profile.source = "keyring"
      BY <2>1 DEF KeyringProfiles
    <3>2. CASE profile \in config.profiles
      BY <3>1, <3>2 DEF IsolatedInv, CredentialMatchesProfile,
         CredentialPresent, CredentialCompany, KeyringProfiles
    <3>3. CASE profile \notin config.profiles
      <4>1. /\ profile.ref = c.ref /\ profile.company = TokenCompany[c.token]
            /\ Stages(c)
        BY <3>1, <3>3, CommitEdit DEF Stages
      <4>. QED  BY <1>1, <4>1
    <3>. QED  BY <3>2, <3>3
  <2>. QED
    BY <1>1, <2>1 DEF CredentialMatchesProfile, CredentialPresent, CredentialCompany
<1>6. Settled'
  <2>1. ASSUME NEW ref \in Ref, keyring[ref] # NoToken
        PROVE  \/ \E profile \in KeyringProfiles' : profile.ref = ref
               \/ \E q \in Process : cmd'[q].ref = ref /\ Unsettled(cmd'[q])
               \/ ref \in abandoned
    <3>1. ref = c.ref /\ Cleans(c) => cmd'[p].ref = ref /\ Unsettled(cmd'[p])
      BY <1>2, <1>3 DEF Unsettled
    <3>2. ref = c.ref /\ Stages(c) => \E profile \in KeyringProfiles' : profile.ref = ref
      BY CommitEdit
    <3>3. CASE \E profile \in KeyringProfiles : profile.ref = ref
      BY <3>1, <3>2, <3>3, CommitEdit
    <3>4. CASE \E q \in Process : cmd[q].ref = ref /\ Unsettled(cmd[q])
      <4>1. PICK q \in Process : cmd[q].ref = ref /\ Unsettled(cmd[q])
        BY <3>4
      <4>2. q = p => Stages(c)
        BY <1>1, <4>1 DEF Unsettled
      <4>. QED  BY <1>2, <3>2, <4>1, <4>2
    <3>. QED  BY <2>1, <3>3, <3>4 DEF IsolatedInv, Settled
  <2>. QED  BY <1>1, <2>1 DEF Settled, Unsettled
<1>. QED  BY <1>4, <1>5, <1>6 DEF IsolatedInv

LEMMA IsolatedInit == Init => IsolatedInv
<1>. SUFFICES ASSUME Init PROVE IsolatedInv
  OBVIOUS
<1>1. KeyringProfiles = {} /\ \A p \in Process : cmd[p] = Idle
  BY DEF Init, EmptyConfig, KeyringProfiles
<1>2. Isolation
  BY <1>1 DEF Isolation, KeyringOperation, Idle
<1>3. \A p \in Process : Pending(cmd[p])
  <2>1. Idle.step = "idle"
    BY DEF Idle
  <2>. QED  BY <1>1, <2>1 DEF Pending
<1>4. CredentialMatchesProfile
  BY <1>1 DEF CredentialMatchesProfile, CredentialPresent, CredentialCompany
<1>5. Settled
  BY DEF Settled, Init
<1>. QED  BY <1>2, <1>3, <1>4, <1>5 DEF IsolatedInv

LEMMA IsolatedNext ==
    ASSUME Isolated, Inv, IsolatedInv, [Next]_vars PROVE IsolatedInv'
<1>1. Isolation'
  BY IsolationNext DEF IsolatedInv
<1>2. CASE UNCHANGED vars
  <2>1. CredentialMatchesProfile'
    BY <1>2 DEF IsolatedInv, CredentialMatchesProfile, CredentialPresent,
       CredentialCompany, KeyringProfiles, vars
  <2>2. Settled'
    BY <1>2 DEF IsolatedInv, Settled, Unsettled, KeyringProfiles, vars
  <2>3. \A p \in Process : Pending(cmd[p])'
    BY <1>2 DEF IsolatedInv, Pending, PreviousFits, Named, vars
  <2>. QED  BY <1>1, <2>1, <2>2, <2>3 DEF IsolatedInv
<1>3. ASSUME NEW p \in Process, Begin(p) \/ Advance(p) \/ GiveUp(p) \/ Crash(p)
      PROVE  IsolatedInv'
  BY <1>1, <1>3, PlainSteps, ClosureIsolated, ReadPreviousIsolated,
     StageIsolated, CommitIsolated, WriteFailsIsolated, RollbackIsolated,
     CleanupIsolated, CrashIsolated
     DEF Advance
<1>. QED  BY <1>2, <1>3 DEF Next

LEMMA IsolatedInvariance == ASSUME Isolated PROVE Spec => [](Inv /\ IsolatedInv)
<1>1. Inv /\ IsolatedInv /\ [Next]_vars => (Inv /\ IsolatedInv)'
  BY InvNext, IsolatedNext
<1>2. Init => Inv /\ IsolatedInv
  BY InvInit, IsolatedInit
<1>. QED  BY <1>1, <1>2, PTL DEF Spec

\* With one keyring command at a time on a reference, every profile that names
\* the keyring has a token of its own company there: in every state, through
\* every failure, rollback and crash, for any number of processes.
THEOREM CredentialsMatch == ASSUME Isolated PROVE Spec => []CredentialMatchesProfile
BY IsolatedInvariance, PTL DEF IsolatedInv

\* And no token stays behind unless a crash or a reported failure left it.
THEOREM NoTokenLeftSilently == ASSUME Isolated PROVE Spec => []NoSilentOrphan
<1>1. Inv /\ IsolatedInv => NoSilentOrphan
  <2>. SUFFICES ASSUME Inv, IsolatedInv PROVE NoSilentOrphan
    OBVIOUS
  <2>1. \A p \in Process : Unsettled(cmd[p]) => cmd[p].op \in KeyringOperation
    BY DEF Inv, CommandOK, Unsettled, Stages, KeyringOperation
  <2>. QED  BY <2>1 DEF IsolatedInv, Settled, NoSilentOrphan
<1>. QED  BY <1>1, IsolatedInvariance, PTL

\* The token of a session belongs to the company of the profile it selected,
\* if that profile is still the configured one when the token is read.
LEMMA SessionStep ==
    ASSUME Inv, IsolatedInv, [Next]_vars, NEW p \in Process,
           cmd[p].step = "resolve", cmd'[p].step = "open",
           cmd[p].selected.source = "keyring", cmd[p].selected \in config.profiles
    PROVE  TokenCompany[cmd'[p].token] = cmd[p].selected.company
<1>1. cmd \in [Process -> Command] /\ cmd[p] \in Command
  BY DEF Inv, TypeOK
<1>2. Resolve(p)
  <2>1. PICK q \in Process : Begin(q) \/ Advance(q) \/ GiveUp(q) \/ Crash(q)
    BY DEF Next, vars
  <2>2. CASE Begin(q)
    <3>1. PICK c : Start(q, c)
      BY <2>2 DEF Begin, Login, Logout, SetCredential, Use, OpenSession
    <3>. QED  BY <1>1, <3>1 DEF Start, Become
  <2>3. CASE Advance(q) \/ GiveUp(q) \/ Crash(q)
    <3>1. q = p
      BY <2>3, CommandMoves
    <3>2. cmd'[p] # Idle
      BY DEF Idle
    <3>3. ~GiveUp(p) /\ ~Crash(p)
      BY <1>1, <3>2 DEF GiveUp, Crash, Finish, Become
    <3>. QED
      BY <2>3, <3>1, <3>3
         DEF Advance, Check, Acquire, Closure, ReadPrevious, Stage, Commit,
             WriteFails, Rollback, Cleanup, Report, Select, Close
  <2>. QED  BY <2>1, <2>2, <2>3
<1>3. /\ keyring[cmd[p].selected.ref] # NoToken
      /\ cmd'[p].token = keyring[cmd[p].selected.ref]
  <2>. DEFINE new == [cmd[p] EXCEPT !.step = "open",
                                    !.token = keyring[cmd[p].selected.ref]]
  <2>1. new.token = keyring[cmd[p].selected.ref]
    BY <1>1 DEF Command
  <2>2. Become(p, new) \/ Finish(p)
    BY <1>2 DEF Resolve
  <2>3. cmd'[p] = new
    BY <1>1, <2>2 DEF Become, Finish, Idle
  <2>4. ~Finish(p)
    BY <1>1 DEF Finish, Become, Idle
  <2>5. keyring[cmd[p].selected.ref] # NoToken
    BY <1>2, <2>4 DEF Resolve
  <2>. QED  BY <2>1, <2>3, <2>5
<1>4. cmd[p].selected \in KeyringProfiles
  BY DEF KeyringProfiles
<1>. QED
  BY <1>3, <1>4
     DEF IsolatedInv, CredentialMatchesProfile, CredentialCompany

THEOREM SessionTokens == ASSUME Isolated PROVE Spec => SessionTokenIsTheProfiles
<1>1. Inv /\ IsolatedInv /\ [Next]_vars =>
         [\A p \in Process :
            /\ cmd[p].step = "resolve" /\ cmd'[p].step = "open"
            /\ cmd[p].selected.source = "keyring"
            /\ cmd[p].selected \in config.profiles
            => TokenCompany[cmd'[p].token] = cmd[p].selected.company]_vars
  BY SessionStep
<1>. QED
  BY <1>1, IsolatedInvariance, PTL DEF Spec, SessionTokenIsTheProfiles
=============================================================================
