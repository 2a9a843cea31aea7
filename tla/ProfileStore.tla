---------------------------- MODULE ProfileStore ----------------------------
(***************************************************************************)
(* The file operations behind ProfileStore::load and ::update: lock,       *)
(* recover (Windows), read, write a temporary file, sync it, move it over  *)
(* profiles.json, sync the directory.  Any call may fail, a process may    *)
(* die between any two, and the power may go at any time.                  *)
(*                                                                         *)
(* A configuration is the set of updates it shows; each process runs one   *)
(* command.  The Windows fallback moves the old file to a backup first;    *)
(* the next command that takes the lock puts it back if it has to.         *)
(*                                                                         *)
(* Power: data of a file is on disk once it is synced; names reach the     *)
(* disk in the order they changed, at the latest when the directory is     *)
(* synced.                                                                 *)
(***************************************************************************)
CONSTANTS Process, Nobody,
          None,   \* no file of that name
          Unset   \* nothing was loaded

ASSUME StoreAssumption ==
    /\ Nobody \notin Process
    /\ None \notin [value: SUBSET Process, state: {"partial", "whole", "synced"}]

VARIABLES
    windows,    \* the system, which stays what it is
    names,      \* the files profiles.json and its backup
    past,       \* what names may be after a power loss
    temp,       \* per process, its temporary file
    pc, working,
    exclusive, shared,  \* who holds the lock, and how
    outcome, loaded,    \* what update and load returned
    durable,    \* history: what a directory sync has made durable
    left        \* history: processes whose temporary file nobody unlinked

vars == <<windows, names, past, temp, pc, working, exclusive, shared, outcome, loaded,
          durable, left>>

locks    == <<exclusive, shared>>
returned == <<outcome, loaded>>
history  == <<durable, left>>

-----------------------------------------------------------------------------
File == [value: SUBSET Process, state: {"partial", "whole", "synced"}]

Contents(file) == IF file = None THEN {} ELSE file.value
Readable(file) == file # None => file.state # "partial"

Move(p, from, to) ==
    /\ pc[p] = from
    /\ pc' = [pc EXCEPT ![p] = to]

Place(n) ==
    /\ names' = n
    /\ past' = past \union {n}

Forgotten == [names EXCEPT !.backup = None]
Restored  == [config |-> names.backup, backup |-> None]

Unlock(p) ==
    /\ exclusive' = IF exclusive = p THEN Nobody ELSE exclusive
    /\ shared' = shared \ {p}

-----------------------------------------------------------------------------
(* The lock.                                                               *)

\* prepare_home, open_lock or the lock itself fails.
GiveUp(p) ==
    /\ Move(p, "idle", "fail")
    /\ UNCHANGED <<windows, names, past, temp, working, locks, returned, history>>

StartUpdate(p) ==
    /\ Move(p, "idle", IF windows THEN "recover_update" ELSE "edit")
    /\ exclusive = Nobody
    /\ shared = {}
    /\ exclusive' = p
    /\ UNCHANGED <<windows, names, past, temp, working, shared, returned, history>>

\* Deviations that the checked properties must notice stand just before the
\* definition each of them replaces, and are used nowhere else.
StartLoadUnlocked(p) ==
    /\ ~windows
    /\ Move(p, "idle", "read")
    /\ shared' = shared \union {p}
    /\ UNCHANGED <<windows, names, past, temp, working, exclusive, returned, history>>

StartLoad(p) ==
    /\ exclusive = Nobody
    /\ \/ /\ windows
          /\ shared = {}
          /\ Move(p, "idle", "recover_load")
          /\ exclusive' = p
          /\ UNCHANGED shared
       \/ /\ ~windows
          /\ Move(p, "idle", "read")
          /\ shared' = shared \union {p}
          /\ UNCHANGED exclusive
    /\ UNCHANGED <<windows, names, past, temp, working, returned, history>>

\* recover_interrupted_replacement; clearing a stale backup is best effort.
Recover(p, from, to) ==
    /\ \/ /\ names.config # None
          /\ Move(p, from, to)
          /\ Place(Forgotten) \/ UNCHANGED <<names, past>>
       \/ /\ names.config = None
          /\ names.backup # None
          /\ Move(p, from, to)
          /\ Place(Restored)
       \/ /\ names.config = None
          /\ names.backup = None
          /\ Move(p, from, to)
          /\ UNCHANGED <<names, past>>
       \/ Move(p, from, "fail") /\ UNCHANGED <<names, past>>
    /\ UNCHANGED <<windows, temp, working, locks, returned, history>>

Read(p) ==
    /\ \/ /\ Move(p, "read", "done")
          /\ Readable(names.config)
          /\ loaded' = [loaded EXCEPT ![p] = Contents(names.config)]
          /\ Unlock(p)
       \/ /\ Move(p, "read", "fail")
          /\ UNCHANGED <<loaded, locks>>
    /\ UNCHANGED <<windows, names, past, temp, working, outcome, history>>

-----------------------------------------------------------------------------
(* An update.                                                              *)

\* load_unlocked and the operation, which may refuse.
Edit(p) ==
    /\ \/ /\ Move(p, "edit", "create")
          /\ Readable(names.config)
          /\ working' = [working EXCEPT ![p] = Contents(names.config) \union {p}]
       \/ Move(p, "edit", "fail") /\ UNCHANGED working
    /\ UNCHANGED <<windows, names, past, temp, locks, returned, history>>

\* The name may be that of a dead process's file; then the guard, armed before
\* the call, unlinks that one.
Create(p) ==
    /\ \/ /\ Move(p, "create", "write")
          /\ temp' = [temp EXCEPT ![p] = [value |-> working[p], state |-> "partial"]]
       \/ /\ Move(p, "create", "fail")
          /\ \/ UNCHANGED temp
             \/ \E q \in Process :
                   /\ pc[q] = "dead"
                   /\ temp' = [temp EXCEPT ![q] = None]
    /\ UNCHANGED <<windows, names, past, working, locks, returned, history>>

WriteUnsynced(p) ==
    /\ \/ /\ Move(p, "write", "replace")
          /\ temp' = [temp EXCEPT ![p].state = "whole"]
       \/ Move(p, "write", "cleanup") /\ UNCHANGED temp
    /\ UNCHANGED <<windows, names, past, working, locks, returned, history>>

Write(p) ==
    /\ \/ /\ Move(p, "write", "sync")
          /\ temp' = [temp EXCEPT ![p].state = "whole"]
       \/ Move(p, "write", "cleanup") /\ UNCHANGED temp
    /\ UNCHANGED <<windows, names, past, working, locks, returned, history>>

Sync(p) ==
    /\ \/ /\ Move(p, "sync", "replace")
          /\ temp' = [temp EXCEPT ![p].state = "synced"]
       \/ Move(p, "sync", "cleanup") /\ UNCHANGED temp
    /\ UNCHANGED <<windows, names, past, working, locks, returned, history>>

Install(p) ==
    /\ Place([names EXCEPT !.config = temp[p]])
    /\ temp' = [temp EXCEPT ![p] = None]

Replace(p) ==
    /\ \/ Move(p, "replace", "sync_parent") /\ Install(p)
       \/ Move(p, "replace", "cleanup") /\ UNCHANGED <<names, past, temp>>
       \/ /\ windows
          /\ names.config # None
          /\ Move(p, "replace", "discard")
          /\ UNCHANGED <<names, past, temp>>
    /\ UNCHANGED <<windows, working, locks, returned, history>>

\* The fallback of replace_file: an older backup goes first, if it can ...
Discard(p) ==
    /\ Move(p, "discard", "aside")
    /\ Place(Forgotten) \/ UNCHANGED <<names, past>>
    /\ UNCHANGED <<windows, temp, working, locks, returned, history>>

\* ... then the old file is moved there ...
Aside(p) ==
    /\ \/ /\ Move(p, "aside", "install")
          /\ Place([config |-> None, backup |-> names.config])
       \/ Move(p, "aside", "cleanup") /\ UNCHANGED <<names, past>>
    /\ UNCHANGED <<windows, temp, working, locks, returned, history>>

\* ... the new one takes its name, or the old one is put back.
SecondReplace(p) ==
    /\ \/ Move(p, "install", "tidy") /\ Install(p)
       \/ Move(p, "install", "restore") /\ UNCHANGED <<names, past, temp>>
    /\ UNCHANGED <<windows, working, locks, returned, history>>

Restore(p) ==
    /\ Move(p, "restore", "cleanup")
    /\ Place(Restored) \/ UNCHANGED <<names, past>>
    /\ UNCHANGED <<windows, temp, working, locks, returned, history>>

Tidy(p) ==
    /\ Move(p, "tidy", "sync_parent")
    /\ Place(Forgotten) \/ UNCHANGED <<names, past>>
    /\ UNCHANGED <<windows, temp, working, locks, returned, history>>

SyncParentOrFail(p) ==
    /\ \/ /\ ~windows
          /\ Move(p, "sync_parent", "ok")
          /\ past' = {names}
          /\ durable' = Contents(names.config)
       \/ Move(p, "sync_parent", "fail") /\ UNCHANGED <<past, durable>>
    /\ UNCHANGED <<windows, names, temp, working, locks, returned, left>>

\* Best effort, and nothing at all on Windows.
SyncParent(p) ==
    /\ Move(p, "sync_parent", "ok")
    /\ \/ /\ ~windows
          /\ past' = {names}
          /\ durable' = Contents(names.config)
       \/ UNCHANGED <<past, durable>>
    /\ UNCHANGED <<windows, names, temp, working, locks, returned, left>>

\* TempFileCleanup::drop
CleanUp(p) ==
    /\ Move(p, "cleanup", "fail")
    /\ \/ temp' = [temp EXCEPT ![p] = None] /\ UNCHANGED left
       \/ left' = left \union {p} /\ UNCHANGED temp
    /\ UNCHANGED <<windows, names, past, working, locks, returned, durable>>

Return(p) ==
    /\ \/ Move(p, "ok", "done") /\ outcome' = [outcome EXCEPT ![p] = "ok"]
       \/ Move(p, "fail", "done") /\ outcome' = [outcome EXCEPT ![p] = "failed"]
    /\ Unlock(p)
    /\ UNCHANGED <<windows, names, past, temp, working, loaded, history>>

-----------------------------------------------------------------------------
Busy == {p \in Process : pc[p] \notin {"idle", "done", "dead"}}

Crash(p) ==
    /\ p \in Busy
    /\ pc' = [pc EXCEPT ![p] = "dead"]
    /\ left' = left \union {p}
    /\ Unlock(p)
    /\ UNCHANGED <<windows, names, past, temp, working, returned, durable>>

Torn(file) == IF file = None \/ file.state = "synced" THEN file
              ELSE [file EXCEPT !.state = "partial"]

PowerLoss ==
    /\ \E n \in past : names' = [config |-> Torn(n.config), backup |-> Torn(n.backup)]
    /\ past' = {names'}
    /\ temp' = [p \in Process |-> Torn(temp[p])]
    /\ pc' = [p \in Process |-> IF p \in Busy THEN "dead" ELSE pc[p]]
    /\ left' = left \union Busy
    /\ exclusive' = Nobody
    /\ shared' = {}
    /\ UNCHANGED <<windows, working, returned, durable>>

-----------------------------------------------------------------------------
Init ==
    /\ windows \in BOOLEAN
    /\ names = [config |-> None, backup |-> None]
    /\ past = {names}
    /\ temp = [p \in Process |-> None]
    /\ pc = [p \in Process |-> "idle"]
    /\ working = [p \in Process |-> {}]
    /\ exclusive = Nobody
    /\ shared = {}
    /\ outcome = [p \in Process |-> "none"]
    /\ loaded = [p \in Process |-> Unset]
    /\ durable = {}
    /\ left = {}

Step(p) ==
    \/ GiveUp(p) \/ StartUpdate(p) \/ StartLoad(p)
    \/ Recover(p, "recover_update", "edit") \/ Recover(p, "recover_load", "read")
    \/ Read(p) \/ Edit(p) \/ Create(p) \/ Write(p) \/ Sync(p) \/ Replace(p)
    \/ Discard(p) \/ Aside(p) \/ SecondReplace(p) \/ Restore(p) \/ Tidy(p)
    \/ SyncParent(p) \/ CleanUp(p) \/ Return(p) \/ Crash(p)

Next == (\E p \in Process : Step(p)) \/ PowerLoss

Spec == Init /\ [][Next]_vars

-----------------------------------------------------------------------------
Pc == {"idle", "recover_update", "recover_load", "read", "edit", "create",
       "write", "sync", "replace", "discard", "aside", "install", "restore",
       "tidy", "sync_parent", "cleanup", "ok", "fail", "done", "dead"}

\* The shape of every variable, the lock included: one writer or any readers.
TypeOK ==
    /\ windows \in BOOLEAN
    /\ names \in [config: File \union {None}, backup: File \union {None}]
    /\ past \subseteq [config: File \union {None}, backup: File \union {None}]
    /\ temp \in [Process -> File \union {None}]
    /\ pc \in [Process -> Pc]
    /\ working \in [Process -> SUBSET Process]
    /\ exclusive \in Process \union {Nobody}
    /\ shared \subseteq Process
    /\ exclusive = Nobody \/ shared = {}
    /\ outcome \in [Process -> {"none", "ok", "failed"}]
    /\ loaded \in [Process -> (SUBSET Process) \union {Unset}]
    /\ durable \subseteq Process
    /\ left \subseteq Process

\* Whatever is lost, profiles.json and its backup are whole: a name never
\* reaches the disk before the data it stands for.
ConfigurationWhole ==
    \A n \in past : /\ Readable(Torn(n.config))
                    /\ Readable(Torn(n.backup))

\* The next command that takes the lock works on this.
Effective(n) == Contents(IF n.config = None THEN n.backup ELSE n.config)

\* What a directory sync has made durable comes back from every power loss.
DurableSurvives == \A n \in past : durable \subseteq Effective(n)

\* A temporary file outlives its command only if the process died or the
\* unlink failed.
NoStrayTemporary ==
    \A p \in Process : pc[p] \in {"fail", "ok", "done"} /\ temp[p] # None => p \in left

\* "If the new destination already exists, it is the committed, fsynced
\* temporary file and a remaining backup is stale", at every crash point.
BackupIsStale ==
    \A n \in past : n.config # None /\ n.backup # None =>
                       Contents(n.backup) \subseteq Contents(n.config)
                       /\ n.backup # n.config

\* The files keep the promise of the store.
Store == INSTANCE AtomicStore WITH value <- Effective(names),
                                   older <- {Effective(n) : n \in past}
StoreSpec == Store!Spec

\* Whatever may be on the disk after the next crash is a configuration: whole,
\* with all that was made durable, no backup that could pass for a newer one,
\* and no temporary file of a command that lived to remove it.
DiskIsSound ==
    /\ ConfigurationWhole
    /\ DurableSurvives
    /\ BackupIsStale
    /\ NoStrayTemporary
=============================================================================
