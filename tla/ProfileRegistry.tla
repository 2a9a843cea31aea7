-------------------------- MODULE ProfileRegistry --------------------------
(***************************************************************************)
(* What the profile commands of HostBraid promise of profiles.json, with   *)
(* no processes, no lock and no keyring: every command takes effect in one *)
(* step, against the registry as it is at that step.  A profile's company  *)
(* is chosen when the profile is registered and is never rewritten; the    *)
(* default is always a registered profile.                                 *)
(***************************************************************************)
CONSTANTS Ref,      \* provider:name references
          Company,  \* provider companies a token authenticates as
          NoRef     \* no default profile

VARIABLE registry   \* [profiles: a set of profiles, default: Ref or NoRef]

Source == {"keyring", "environment"}
Profile == [ref: Ref, company: Company, source: Source]

Named(ref) == {profile \in registry.profiles : profile.ref = ref}

Init == registry = [profiles |-> {}, default |-> NoRef]

Register(profile, makeDefault) ==
    /\ Named(profile.ref) = {}
    /\ registry' = [profiles |-> registry.profiles \union {profile},
                    default  |-> IF makeDefault THEN profile.ref
                                                ELSE registry.default]

Unregister(ref) ==
    /\ Named(ref) # {}
    /\ registry' = [profiles |-> registry.profiles \ Named(ref),
                    default  |-> IF registry.default = ref
                                 THEN NoRef ELSE registry.default]

Rotate(profile, source) ==
    /\ profile \in registry.profiles
    /\ registry' = [registry EXCEPT !.profiles =
                      (@ \ {profile}) \union {[profile EXCEPT !.source = source]}]

Use(ref) ==
    /\ Named(ref) # {}
    /\ registry' = [registry EXCEPT !.default = ref]

Next ==
    \/ \E profile \in Profile, makeDefault \in BOOLEAN :
          Register(profile, makeDefault)
    \/ \E ref \in Ref : Unregister(ref) \/ Use(ref)
    \/ \E profile \in registry.profiles, source \in Source :
          Rotate(profile, source)

Spec == Init /\ [][Next]_registry
=============================================================================
