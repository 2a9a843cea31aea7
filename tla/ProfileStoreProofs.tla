------------------------- MODULE ProfileStoreProofs -------------------------
(***************************************************************************)
(* What is proved of ProfileStore for every set of processes: the type     *)
(* invariant, DiskIsSound, and that the files keep the promise of          *)
(* AtomicStore.  Then of ConfigFiles, for any limit and any number of      *)
(* directories and of changes by others: a command works on private files  *)
(* of the user's own, and what is saved loads.                             *)
(***************************************************************************)
EXTENDS StoreParts, Naturals, TLAPS

-----------------------------------------------------------------------------
(* The inductive invariant.                                                *)

\* Where a command holds the lock for itself, on either system.
Locked == {"recover_update", "recover_load", "edit", "create", "write", "sync",
           "replace", "discard", "aside", "install", "restore", "tidy",
           "sync_parent", "cleanup", "ok"}

\* Where only the fallback and the recovery of Windows lead.
WindowsOnly == {"recover_update", "recover_load", "discard", "aside", "install",
                "restore", "tidy"}

\* Where the update's own file has taken the name.
Applied == {"tidy", "sync_parent", "ok"}

\* Where the update has a configuration of its own, a file for it, and that
\* file on the disk.
Drafted == {"create", "write", "sync", "replace", "discard", "aside", "install"}
Filed   == Drafted \ {"create"}
Flushed == Filed \ {"write", "sync"}

\* Where the guard of the temporary file is armed.
Guarded == Filed \union {"restore", "cleanup"}

Exclusion ==
    \A p \in Process : /\ pc[p] \in Locked => exclusive = p
                       /\ windows /\ pc[p] = "read" => exclusive = p

UnixHasNoBackup ==
    ~windows => /\ \A n \in past : n.backup = None
                /\ \A p \in Process : pc[p] \notin WindowsOnly

\* Only files whose data is on the disk have a name.
Synced(file) == file # None => file.state = "synced"

NamedAreSynced ==
    /\ names \in past
    /\ \A n \in past : Synced(n.config) /\ Synced(n.backup)

\* How the two names stand at each step of a command that looks at them.
NamesFit(p) ==
    /\ pc[p] \in {"read", "edit", "create", "write", "sync", "replace"} =>
          names.config # None \/ names.backup = None
    /\ pc[p] \in Applied \union {"discard", "aside"} => names.config # None
    /\ pc[p] \in {"install", "restore"} => names.config = None /\ names.backup # None

\* The configuration of the update is the one in place and the update itself,
\* up to the moment its file takes the name.
DraftFits(p) ==
    /\ pc[p] \in Drafted => working[p] = Effective(names) \union {p}
    /\ pc[p] \in Filed => temp[p] # None /\ temp[p].value = working[p]
    /\ pc[p] \in Flushed => temp[p].state = "synced"

\* An update shows in no configuration before that moment, and in the current
\* one from there until the lock is released.
EffectFits(p) ==
    /\ pc[p] \notin Applied \union {"done", "dead"} =>
          \A n \in past : p \notin Effective(n)
    /\ pc[p] \in Applied => p \in Effective(names)

ReturnFits(p) == pc[p] # "done" => outcome[p] = "none"

TempFits(p) == pc[p] \notin Guarded /\ temp[p] # None => p \in left

CommandFits(p) ==
    NamesFit(p) /\ DraftFits(p) /\ EffectFits(p) /\ ReturnFits(p) /\ TempFits(p)

IInv ==
    /\ TypeOK
    /\ Exclusion
    /\ UnixHasNoBackup
    /\ NamedAreSynced
    /\ DurableSurvives
    /\ BackupIsStale
    /\ \A p \in Process : CommandFits(p)

-----------------------------------------------------------------------------
(* The operators.                                                          *)

Pair == [config: File \union {None}, backup: File \union {None}]

LEMMA FileFacts ==
    /\ None \notin File
    /\ \A file \in File : file.value \subseteq Process
    /\ \A file \in File \union {None} :
          /\ Contents(file) \subseteq Process
          /\ Torn(file) \in File \union {None}
          /\ Synced(file) => Torn(file) = file
BY StoreAssumption DEF File, Contents, Torn, Synced

LEMMA PairFacts ==
    /\ \A n \in Pair : /\ n = [config |-> n.config, backup |-> n.backup]
                       /\ Effective(n) \subseteq Process
    /\ \A config, backup \in File \union {None} :
          /\ [config |-> config, backup |-> backup] \in Pair
          /\ [config |-> config, backup |-> backup].config = config
          /\ [config |-> config, backup |-> backup].backup = backup
BY FileFacts DEF Pair, Effective

\* The files named in a state of the invariant.
LEMMA NamesFacts ==
    ASSUME IInv
    PROVE  /\ names \in Pair
           /\ past \subseteq Pair
           /\ names.config \in File \union {None}
           /\ names.backup \in File \union {None}
           /\ Forgotten = [config |-> names.config, backup |-> None]
           /\ Restored = [config |-> names.backup, backup |-> None]
           /\ Forgotten \in Pair
           /\ Restored \in Pair
           /\ Effective(names) \subseteq Process
<1>1. names \in Pair /\ past \subseteq Pair
  BY DEF IInv, TypeOK, Pair
<1>2. names.config \in File \union {None} /\ names.backup \in File \union {None}
  BY <1>1 DEF Pair
<1>3. Forgotten = [config |-> names.config, backup |-> None]
  BY <1>1 DEF Pair, Forgotten
<1>. QED  BY <1>1, <1>2, <1>3, PairFacts DEF Restored

LEMMA Moves ==
    ASSUME TypeOK, NEW p \in Process, NEW from, NEW to, Move(p, from, to)
    PROVE  /\ pc[p] = from
           /\ pc'[p] = to
           /\ \A q \in Process \ {p} : pc'[q] = pc[q]
           /\ to \in Pc => pc' \in [Process -> Pc]
BY DEF TypeOK, Move

-----------------------------------------------------------------------------
(* What a step does to the files.                                          *)

FilesFit == NamedAreSynced /\ DurableSurvives /\ BackupIsStale

\* No update shows that did not.
NothingNew ==
    \A q \in Process : (\A n \in past : q \notin Effective(n)) =>
                          (\A n \in past' : q \notin Effective(n))

LEMMA FilesRest ==
    ASSUME IInv, UNCHANGED <<names, past, durable>>
    PROVE  FilesFit' /\ NothingNew /\ Effective(names') = Effective(names)
BY DEF IInv, FilesFit, NamedAreSynced, DurableSurvives, BackupIsStale, NothingNew, Synced,
       Effective, Contents

\* The names change, and the configuration they stand for does not.
LEMMA FilesRearranged ==
    ASSUME IInv, NEW n \in Pair, Place(n), durable' = durable,
           Synced(n.config), Synced(n.backup), n.config = None \/ n.backup = None,
           Effective(n) = Effective(names)
    PROVE  FilesFit' /\ NothingNew /\ Effective(names') = Effective(names)
<1>1. names' = n /\ past' = past \union {n}
  BY DEF Place
<1>2. NamedAreSynced'
  BY <1>1 DEF IInv, NamedAreSynced
<1>3. durable \subseteq Effective(n)
  BY DEF IInv, NamedAreSynced, DurableSurvives
<1>4. DurableSurvives'
  BY <1>1, <1>3 DEF IInv, DurableSurvives
<1>5. BackupIsStale'
  BY <1>1 DEF IInv, BackupIsStale
<1>6. NothingNew
  BY <1>1 DEF IInv, NamedAreSynced, NothingNew
<1>. QED  BY <1>1, <1>2, <1>4, <1>5, <1>6 DEF FilesFit

\* Clearing a backup that is stale, and putting one back that is not.
LEMMA ForgetsStale ==
    ASSUME IInv, names.config # None, Place(Forgotten) \/ UNCHANGED <<names, past>>,
           durable' = durable
    PROVE  /\ FilesFit' /\ NothingNew
           /\ Effective(names') = Effective(names)
           /\ names' \in Pair /\ past' \subseteq Pair
           /\ names'.config = names.config
           /\ names'.backup \in {names.backup, None}
           /\ past' \subseteq past \union {[config |-> names.config, backup |-> None]}
<1>1. CASE UNCHANGED <<names, past>>
  BY <1>1, FilesRest, NamesFacts
<1>2. CASE Place(Forgotten)
  <2>1. Forgotten.config = names.config /\ Forgotten.backup = None
    BY NamesFacts, PairFacts
  <2>2. Synced(Forgotten.config) /\ Synced(Forgotten.backup)
    BY <2>1 DEF Synced, IInv, NamedAreSynced
  <2>3. Effective(Forgotten) = Effective(names)
    BY <2>1 DEF Effective
  <2>4. FilesFit' /\ NothingNew /\ Effective(names') = Effective(names)
    BY <1>2, <2>1, <2>2, <2>3, NamesFacts, FilesRearranged
  <2>. QED  BY <1>2, <2>1, <2>4, NamesFacts DEF Place
<1>. QED  BY <1>1, <1>2

LEMMA PutsBack ==
    ASSUME IInv, names.config = None, names.backup # None,
           Place(Restored) \/ UNCHANGED <<names, past>>, durable' = durable
    PROVE  /\ FilesFit' /\ NothingNew
           /\ Effective(names') = Effective(names)
           /\ names' \in Pair /\ past' \subseteq Pair
           /\ \A n \in past' : n \in past \/ n.backup = None
           /\ Place(Restored) => names'.config # None /\ names'.backup = None
<1>1. Restored.config = names.backup /\ Restored.backup = None
  BY NamesFacts, PairFacts
<1>2. CASE UNCHANGED <<names, past>>
  BY <1>1, <1>2, FilesRest, NamesFacts DEF Place
<1>3. CASE Place(Restored)
  <2>1. Synced(Restored.config) /\ Synced(Restored.backup)
    BY <1>1 DEF Synced, IInv, NamedAreSynced
  <2>2. Effective(Restored) = Effective(names)
    BY <1>1 DEF Effective
  <2>3. FilesFit' /\ NothingNew /\ Effective(names') = Effective(names)
    BY <1>1, <1>3, <2>1, <2>2, NamesFacts, FilesRearranged
  <2>. QED  BY <1>1, <1>3, <2>3, NamesFacts DEF Place
<1>. QED  BY <1>2, <1>3

-----------------------------------------------------------------------------
(* The other commands, and the invariant as a whole.                       *)

\* What a step of p does to the state of another command.
Apart(p) ==
    /\ \A q \in Process \ {p} :
          /\ pc'[q] = pc[q]
          /\ working'[q] = working[q]
          /\ outcome'[q] = outcome[q]
          /\ temp'[q] = temp[q] \/ (pc[q] = "dead" /\ temp'[q] = None)
          /\ (\A n \in past : q \notin Effective(n)) =>
                (\A n \in past' : q \notin Effective(n))
    /\ left \subseteq left'
    /\ windows' = windows
    /\ exclusive = p \/ UNCHANGED names

\* Only the holder of the lock changes the names, so nobody who relies on them
\* sees them change.
LEMMA OthersFit ==
    ASSUME IInv, NEW p \in Process, Apart(p), UnixHasNoBackup', names' \in past',
           NEW q \in Process \ {p}
    PROVE  CommandFits(q)'
<1>. USE DEF IInv, CommandFits, Apart
<1>1. UNCHANGED names \/ pc[q] \notin Locked
  BY DEF Exclusion
<1>2. NamesFit(q)'
  BY <1>1 DEF NamesFit, Exclusion, UnixHasNoBackup, Applied, Locked
<1>3. DraftFits(q)'
  BY <1>1 DEF DraftFits, Drafted, Filed, Flushed, Locked
<1>4. EffectFits(q)'
  BY <1>1 DEF EffectFits, Applied, Locked
<1>5. ReturnFits(q)'
  BY DEF ReturnFits
<1>6. TempFits(q)'
  BY DEF TempFits
<1>. QED  BY <1>2, <1>3, <1>4, <1>5, <1>6

LEMMA AllFit ==
    ASSUME IInv, NEW p \in Process, Apart(p), TypeOK', Exclusion', UnixHasNoBackup',
           FilesFit', CommandFits(p)'
    PROVE  IInv'
<1>1. names' \in past'
  BY DEF FilesFit, NamedAreSynced
<1>2. \A q \in Process : CommandFits(q)'
  BY <1>1, OthersFit
<1>. QED  BY <1>2 DEF IInv, FilesFit

\* The steps that leave the files their names.
LEMMA NamesRest ==
    ASSUME IInv, UNCHANGED <<windows, names, past, durable>>
    PROVE  /\ FilesFit' /\ NothingNew
           /\ (\A q \in Process : pc'[q] = pc[q] \/ pc'[q] \notin WindowsOnly \/ windows) =>
                 UnixHasNoBackup'
BY FilesRest DEF IInv, UnixHasNoBackup

-----------------------------------------------------------------------------
(* The lock.                                                               *)

LEMMA GiveUpKeeps ==
    ASSUME IInv, NEW p \in Process, GiveUp(p)
    PROVE  IInv'
<1>. USE DEF GiveUp, locks, returned, history
<1>1. pc[p] = "idle" /\ pc'[p] = "fail" /\ \A q \in Process \ {p} : pc'[q] = pc[q]
  BY Moves DEF IInv
<1>2. TypeOK'
  BY Moves DEF IInv, TypeOK, Pc
<1>3. Exclusion'
  BY <1>1 DEF IInv, Exclusion, Locked
<1>4. FilesFit' /\ NothingNew /\ UnixHasNoBackup'
  BY <1>1, NamesRest DEF WindowsOnly
<1>5. CommandFits(p)'
  BY <1>1, <1>4 DEF IInv, CommandFits, NamesFit, DraftFits, EffectFits, ReturnFits, TempFits,
     Applied, Drafted, Filed, Flushed, Guarded
<1>6. Apart(p)
  BY <1>1, <1>4 DEF Apart, NothingNew
<1>. QED  BY <1>2, <1>3, <1>4, <1>5, <1>6, AllFit

LEMMA StartUpdateKeeps ==
    ASSUME IInv, NEW p \in Process, StartUpdate(p)
    PROVE  IInv'
<1>. USE DEF StartUpdate, locks, returned, history
<1>1. /\ pc[p] = "idle" /\ \A q \in Process \ {p} : pc'[q] = pc[q]
      /\ pc'[p] = IF windows THEN "recover_update" ELSE "edit"
  BY Moves DEF IInv
<1>2. TypeOK'
  BY Moves DEF IInv, TypeOK, Pc
<1>3. Exclusion'
  BY <1>1, StoreAssumption DEF IInv, Exclusion, Locked
<1>4. FilesFit' /\ NothingNew /\ UnixHasNoBackup'
  BY <1>1, NamesRest DEF WindowsOnly
<1>5. CommandFits(p)'
  BY <1>1, <1>4 DEF IInv, CommandFits, NamesFit, DraftFits, EffectFits, ReturnFits, TempFits,
     Applied, Drafted, Filed, Flushed, Guarded, UnixHasNoBackup, NamedAreSynced
<1>6. Apart(p)
  BY <1>1, <1>4 DEF Apart, NothingNew
<1>. QED  BY <1>2, <1>3, <1>4, <1>5, <1>6, AllFit

LEMMA StartLoadKeeps ==
    ASSUME IInv, NEW p \in Process, StartLoad(p)
    PROVE  IInv'
<1>. USE DEF StartLoad, locks, returned, history
<1>1. /\ pc[p] = "idle" /\ \A q \in Process \ {p} : pc'[q] = pc[q]
      /\ pc'[p] = IF windows THEN "recover_load" ELSE "read"
  BY Moves DEF IInv
<1>2. TypeOK'
  BY Moves DEF IInv, TypeOK, Pc
<1>3. Exclusion'
  BY <1>1, StoreAssumption DEF IInv, Exclusion, Locked
<1>4. FilesFit' /\ NothingNew /\ UnixHasNoBackup'
  BY <1>1, NamesRest DEF WindowsOnly
<1>5. CommandFits(p)'
  BY <1>1, <1>4 DEF IInv, CommandFits, NamesFit, DraftFits, EffectFits, ReturnFits, TempFits,
     Applied, Drafted, Filed, Flushed, Guarded, UnixHasNoBackup, NamedAreSynced
<1>6. Apart(p)
  BY <1>1, <1>4 DEF Apart, NothingNew
<1>. QED  BY <1>2, <1>3, <1>4, <1>5, <1>6, AllFit

LEMMA ReadKeeps ==
    ASSUME IInv, NEW p \in Process, Read(p)
    PROVE  IInv'
<1>. USE DEF Read, locks, returned, history
<1>1. /\ pc[p] = "read" /\ pc'[p] \in {"done", "fail"}
      /\ \A q \in Process \ {p} : pc'[q] = pc[q]
  BY Moves DEF IInv
<1>2. TypeOK'
  BY Moves, FileFacts, NamesFacts DEF IInv, TypeOK, Pc, Unlock
<1>3. Exclusion'
  BY <1>1, StoreAssumption DEF IInv, Exclusion, Locked, Unlock
<1>4. FilesFit' /\ NothingNew /\ UnixHasNoBackup'
  BY <1>1, NamesRest DEF WindowsOnly
<1>5. CommandFits(p)'
  BY <1>1, <1>4 DEF IInv, CommandFits, NamesFit, DraftFits, EffectFits, ReturnFits, TempFits,
     Applied, Drafted, Filed, Flushed, Guarded
<1>6. Apart(p)
  BY <1>1, <1>4 DEF Apart, NothingNew
<1>. QED  BY <1>2, <1>3, <1>4, <1>5, <1>6, AllFit

LEMMA ReturnKeeps ==
    ASSUME IInv, NEW p \in Process, Return(p)
    PROVE  IInv'
<1>. USE DEF Return, locks, returned, history
<1>1. /\ pc[p] \in {"ok", "fail"} /\ pc'[p] = "done"
      /\ \A q \in Process \ {p} : pc'[q] = pc[q]
  BY Moves DEF IInv
<1>2. TypeOK'
  BY Moves DEF IInv, TypeOK, Pc, Unlock
<1>3. Exclusion'
  BY <1>1, StoreAssumption DEF IInv, Exclusion, Locked, Unlock
<1>4. FilesFit' /\ NothingNew /\ UnixHasNoBackup'
  BY <1>1, NamesRest DEF WindowsOnly
<1>5. CommandFits(p)'
  BY <1>1, <1>4 DEF IInv, CommandFits, NamesFit, DraftFits, EffectFits, ReturnFits, TempFits,
     Applied, Drafted, Filed, Flushed, Guarded
<1>6. Apart(p)
  BY <1>1, <1>4 DEF Apart, NothingNew, IInv, TypeOK
<1>. QED  BY <1>2, <1>3, <1>4, <1>5, <1>6, AllFit

LEMMA CrashKeeps ==
    ASSUME IInv, NEW p \in Process, Crash(p)
    PROVE  IInv'
<1>. USE DEF Crash, locks, returned, history
<1>1. /\ pc[p] \notin {"idle", "done", "dead"} /\ pc'[p] = "dead"
      /\ \A q \in Process \ {p} : pc'[q] = pc[q]
  BY DEF IInv, TypeOK, Busy
<1>2. TypeOK'
  BY DEF IInv, TypeOK, Pc, Unlock
<1>3. Exclusion'
  BY <1>1, StoreAssumption DEF IInv, Exclusion, Locked, Unlock
<1>4. FilesFit' /\ NothingNew /\ UnixHasNoBackup'
  BY <1>1, NamesRest DEF WindowsOnly
<1>5. CommandFits(p)'
  BY <1>1, <1>4 DEF IInv, CommandFits, NamesFit, DraftFits, EffectFits, ReturnFits, TempFits,
     Applied, Drafted, Filed, Flushed, Guarded
<1>6. Apart(p)
  BY <1>1, <1>4 DEF Apart, NothingNew
<1>. QED  BY <1>2, <1>3, <1>4, <1>5, <1>6, AllFit

-----------------------------------------------------------------------------
(* The temporary file.                                                     *)

LEMMA StateChanges ==
    \A file \in File, state \in {"partial", "whole", "synced"} :
        /\ [file EXCEPT !.state = state] \in File
        /\ [file EXCEPT !.state = state].value = file.value
        /\ [file EXCEPT !.state = state].state = state
BY DEF File

LEMMA EditKeeps ==
    ASSUME IInv, NEW p \in Process, Edit(p)
    PROVE  IInv'
<1>. USE DEF Edit, locks, returned, history
<1>1. /\ pc[p] = "edit" /\ pc'[p] \in {"create", "fail"}
      /\ \A q \in Process \ {p} : pc'[q] = pc[q]
  BY Moves DEF IInv
<1>2. pc'[p] = "create" => working'[p] = Effective(names) \union {p}
  BY <1>1, FileFacts DEF IInv, TypeOK, CommandFits, NamesFit, Effective, Contents, Move
<1>3. working' \in [Process -> SUBSET Process]
  BY NamesFacts, FileFacts DEF IInv, TypeOK
<1>4. \A q \in Process \ {p} : working'[q] = working[q]
  BY DEF IInv, TypeOK
<1>5. TypeOK'
  BY Moves, <1>3 DEF IInv, TypeOK, Pc
<1>6. Exclusion'
  BY <1>1 DEF IInv, Exclusion, Locked
<1>7. FilesFit' /\ NothingNew /\ UnixHasNoBackup'
  BY <1>1, NamesRest DEF WindowsOnly
<1>8. CommandFits(p)'
  BY <1>1, <1>7, <1>2
     DEF IInv, TypeOK, CommandFits, NamesFit, DraftFits, EffectFits, ReturnFits, TempFits,
         Applied, Drafted, Filed, Flushed, Guarded
<1>9. Apart(p)
  BY <1>1, <1>7, <1>4 DEF Apart, NothingNew, IInv, TypeOK
<1>. QED  BY <1>5, <1>6, <1>7, <1>8, <1>9, AllFit

LEMMA CreateKeeps ==
    ASSUME IInv, NEW p \in Process, Create(p)
    PROVE  IInv'
<1>. USE DEF Create, locks, returned, history
<1>1. /\ pc[p] = "create" /\ pc'[p] \in {"write", "fail"}
      /\ \A q \in Process \ {p} : pc'[q] = pc[q]
  BY Moves DEF IInv
<1>2. temp' \in [Process -> File \union {None}]
  BY FileFacts DEF IInv, TypeOK, File
<1>3. /\ pc'[p] = "write" => temp'[p] = [value |-> working[p], state |-> "partial"]
      /\ pc'[p] = "fail" => temp'[p] = temp[p]
  BY <1>1 DEF IInv, TypeOK, Move
<1>4. [value |-> working[p], state |-> "partial"] \in File
  BY DEF IInv, TypeOK, File
<1>5. \A q \in Process \ {p} : temp'[q] = temp[q] \/ (pc[q] = "dead" /\ temp'[q] = None)
  BY DEF IInv, TypeOK
<1>6. TypeOK'
  BY Moves, <1>2 DEF IInv, TypeOK, Pc
<1>7. Exclusion'
  BY <1>1 DEF IInv, Exclusion, Locked
<1>8. FilesFit' /\ NothingNew /\ UnixHasNoBackup'
  BY <1>1, NamesRest DEF WindowsOnly
<1>9. CommandFits(p)'
  BY <1>1, <1>8, <1>3, <1>4, <1>2, FileFacts
     DEF IInv, CommandFits, NamesFit, DraftFits, EffectFits, ReturnFits, TempFits,
         Applied, Drafted, Filed, Flushed, Guarded
<1>10. Apart(p)
  BY <1>1, <1>8, <1>5 DEF Apart, NothingNew, IInv, TypeOK
<1>. QED  BY <1>6, <1>7, <1>8, <1>9, <1>10, AllFit

LEMMA WriteKeeps ==
    ASSUME IInv, NEW p \in Process, Write(p)
    PROVE  IInv'
<1>. USE DEF Write, locks, returned, history
<1>1. /\ pc[p] = "write" /\ pc'[p] \in {"sync", "cleanup"}
      /\ \A q \in Process \ {p} : pc'[q] = pc[q]
  BY Moves DEF IInv
<1>2. temp[p] \in File /\ temp[p].value = working[p]
  BY <1>1 DEF IInv, TypeOK, CommandFits, DraftFits, Drafted, Filed
<1>3. temp' = temp \/ temp' = [temp EXCEPT ![p] = [temp[p] EXCEPT !.state = "whole"]]
  BY DEF Move
<1>4. pc'[p] = "sync" => temp'[p].state = "whole"
  BY <1>1, <1>2, StateChanges DEF IInv, TypeOK, Move
<1>5. temp' \in [Process -> File \union {None}]
  BY <1>2, <1>3, StateChanges DEF IInv, TypeOK
<1>6. \A q \in Process \ {p} : temp'[q] = temp[q]
  BY <1>3 DEF IInv, TypeOK
<1>7. temp'[p] \in File /\ temp'[p].value = working[p]
  BY <1>2, <1>3, StateChanges DEF IInv, TypeOK
<1>8. TypeOK'
  BY Moves, <1>5 DEF IInv, TypeOK, Pc
<1>9. Exclusion'
  BY <1>1 DEF IInv, Exclusion, Locked
<1>10. FilesFit' /\ NothingNew /\ UnixHasNoBackup'
  BY <1>1, NamesRest DEF WindowsOnly
<1>11. CommandFits(p)'
  BY <1>1, <1>10, <1>4, <1>7, FileFacts
     DEF IInv, CommandFits, NamesFit, DraftFits, EffectFits, ReturnFits, TempFits,
         Applied, Drafted, Filed, Flushed, Guarded
<1>12. Apart(p)
  BY <1>1, <1>10, <1>6 DEF Apart, NothingNew, IInv, TypeOK
<1>. QED  BY <1>8, <1>9, <1>10, <1>11, <1>12, AllFit

LEMMA SyncKeeps ==
    ASSUME IInv, NEW p \in Process, Sync(p)
    PROVE  IInv'
<1>. USE DEF Sync, locks, returned, history
<1>1. /\ pc[p] = "sync" /\ pc'[p] \in {"replace", "cleanup"}
      /\ \A q \in Process \ {p} : pc'[q] = pc[q]
  BY Moves DEF IInv
<1>2. temp[p] \in File /\ temp[p].value = working[p]
  BY <1>1 DEF IInv, TypeOK, CommandFits, DraftFits, Drafted, Filed
<1>3. temp' = temp \/ temp' = [temp EXCEPT ![p] = [temp[p] EXCEPT !.state = "synced"]]
  BY DEF Move
<1>4. pc'[p] = "replace" => temp'[p].state = "synced"
  BY <1>1, <1>2, StateChanges DEF IInv, TypeOK, Move
<1>5. temp' \in [Process -> File \union {None}]
  BY <1>2, <1>3, StateChanges DEF IInv, TypeOK
<1>6. \A q \in Process \ {p} : temp'[q] = temp[q]
  BY <1>3 DEF IInv, TypeOK
<1>7. temp'[p] \in File /\ temp'[p].value = working[p]
  BY <1>2, <1>3, StateChanges DEF IInv, TypeOK
<1>8. TypeOK'
  BY Moves, <1>5 DEF IInv, TypeOK, Pc
<1>9. Exclusion'
  BY <1>1 DEF IInv, Exclusion, Locked
<1>10. FilesFit' /\ NothingNew /\ UnixHasNoBackup'
  BY <1>1, NamesRest DEF WindowsOnly
<1>11. CommandFits(p)'
  BY <1>1, <1>10, <1>4, <1>7, FileFacts
     DEF IInv, CommandFits, NamesFit, DraftFits, EffectFits, ReturnFits, TempFits,
         Applied, Drafted, Filed, Flushed, Guarded
<1>12. Apart(p)
  BY <1>1, <1>10, <1>6 DEF Apart, NothingNew, IInv, TypeOK
<1>. QED  BY <1>8, <1>9, <1>10, <1>11, <1>12, AllFit

LEMMA CleanUpKeeps ==
    ASSUME IInv, NEW p \in Process, CleanUp(p)
    PROVE  IInv'
<1>. USE DEF CleanUp, locks, returned, history
<1>1. /\ pc[p] = "cleanup" /\ pc'[p] = "fail"
      /\ \A q \in Process \ {p} : pc'[q] = pc[q]
  BY Moves DEF IInv
<1>2. TypeOK'
  BY Moves DEF IInv, TypeOK, Pc
<1>3. Exclusion'
  BY <1>1 DEF IInv, Exclusion, Locked
<1>4. FilesFit' /\ NothingNew /\ UnixHasNoBackup'
  BY <1>1, NamesRest DEF WindowsOnly
<1>5. CommandFits(p)'
  BY <1>1, <1>4
     DEF IInv, TypeOK, CommandFits, NamesFit, DraftFits, EffectFits, ReturnFits, TempFits,
         Applied, Drafted, Filed, Flushed, Guarded
<1>6. Apart(p)
  BY <1>1, <1>4 DEF Apart, NothingNew, IInv, TypeOK
<1>. QED  BY <1>2, <1>3, <1>4, <1>5, <1>6, AllFit

-----------------------------------------------------------------------------
(* The names.                                                              *)

\* The file of an update takes the name of the configuration it was made from.
LEMMA Installs ==
    ASSUME IInv, NEW p \in Process, pc[p] \in {"replace", "install"}, Install(p),
           durable' = durable
    PROVE  /\ FilesFit'
           /\ Effective(names') = Effective(names) \union {p}
           /\ past' = past \union {names'}
           /\ names' \in Pair /\ past' \subseteq Pair
           /\ names'.config # None /\ names'.backup = names.backup
           /\ temp' = [temp EXCEPT ![p] = None]
<1>. DEFINE n == [config |-> temp[p], backup |-> names.backup]
<1>1. /\ temp[p] \in File /\ temp[p] # None /\ temp[p].state = "synced"
      /\ temp[p].value = Effective(names) \union {p}
      /\ p \notin Effective(names)
  BY DEF IInv, TypeOK, NamedAreSynced, CommandFits, DraftFits, EffectFits, Drafted, Filed,
         Flushed, Applied
<1>2. n \in Pair /\ n.config = temp[p] /\ n.backup = names.backup
  BY <1>1, NamesFacts, PairFacts
<1>3. [names EXCEPT !.config = temp[p]] = n
  BY NamesFacts DEF Pair
<1>4. names' = n /\ past' = past \union {n} /\ temp' = [temp EXCEPT ![p] = None]
  BY <1>3 DEF Install, Place
<1>5. Effective(n) = Effective(names) \union {p}
  BY <1>1, <1>2 DEF Effective, Contents
<1>6. Contents(names.backup) \subseteq Effective(names)
  BY DEF IInv, NamedAreSynced, BackupIsStale, Effective, Contents
<1>7. n.backup # None => Contents(n.backup) \subseteq Contents(n.config) /\ n.backup # n.config
  BY <1>1, <1>2, <1>6 DEF Contents
<1>8. Synced(n.config) /\ Synced(n.backup)
  BY <1>1, <1>2 DEF IInv, NamedAreSynced, Synced
<1>. HIDE DEF n
<1>9. NamedAreSynced'
  BY <1>4, <1>8 DEF IInv, NamedAreSynced
<1>10. DurableSurvives'
  BY <1>4, <1>5 DEF IInv, NamedAreSynced, DurableSurvives
<1>11. BackupIsStale'
  BY <1>4, <1>7 DEF IInv, BackupIsStale
<1>. QED  BY <1>1, <1>2, <1>4, <1>5, <1>9, <1>10, <1>11, NamesFacts DEF FilesFit

LEMMA RecoverKeeps ==
    ASSUME IInv, NEW p \in Process, NEW from, NEW to, Recover(p, from, to),
           \/ from = "recover_update" /\ to = "edit"
           \/ from = "recover_load" /\ to = "read"
    PROVE  IInv'
<1>. USE DEF Recover, locks, returned, history
<1>1. /\ pc[p] = from /\ pc'[p] \in {to, "fail"}
      /\ \A q \in Process \ {p} : pc'[q] = pc[q]
  BY Moves DEF IInv
<1>2. windows /\ windows'
  BY <1>1 DEF IInv, UnixHasNoBackup, WindowsOnly
<1>3. /\ FilesFit' /\ NothingNew /\ Effective(names') = Effective(names)
      /\ names' \in Pair /\ past' \subseteq Pair
      /\ pc'[p] = to => names'.config # None \/ names'.backup = None
  <2>1. CASE names.config # None
    BY <2>1, ForgetsStale, FilesRest, NamesFacts
  <2>2. CASE names.config = None /\ names.backup # None
    <3>1. Place(Restored) \/ (pc'[p] = "fail" /\ UNCHANGED <<names, past>>)
      BY <2>2, Moves DEF IInv
    <3>. QED  BY <2>2, <3>1, PutsBack, FilesRest, NamesFacts
  <2>3. CASE names.config = None /\ names.backup = None
    BY <2>3, FilesRest, NamesFacts
  <2>. QED  BY <2>1, <2>2, <2>3
<1>4. TypeOK'
  BY Moves, <1>3 DEF IInv, TypeOK, Pc, Pair
<1>5. Exclusion' /\ exclusive = p
  BY <1>1, <1>2 DEF IInv, Exclusion, Locked
<1>6. UnixHasNoBackup'
  BY <1>2 DEF UnixHasNoBackup
<1>7. CommandFits(p)'
  BY <1>1, <1>3
     DEF IInv, CommandFits, NamesFit, DraftFits, EffectFits, ReturnFits, TempFits, Applied,
         Drafted, Filed, Flushed, Guarded, NothingNew
<1>8. Apart(p)
  BY <1>1, <1>3, <1>5 DEF Apart, NothingNew
<1>. QED  BY <1>3, <1>4, <1>5, <1>6, <1>7, <1>8, AllFit

LEMMA DiscardKeeps ==
    ASSUME IInv, NEW p \in Process, Discard(p)
    PROVE  IInv'
<1>. USE DEF Discard, locks, returned, history
<1>1. /\ pc[p] = "discard" /\ pc'[p] = "aside"
      /\ \A q \in Process \ {p} : pc'[q] = pc[q]
  BY Moves DEF IInv
<1>2. windows /\ windows'
  BY <1>1 DEF IInv, UnixHasNoBackup, WindowsOnly
<1>3. names.config # None
  BY <1>1 DEF IInv, CommandFits, NamesFit
<1>4. /\ FilesFit' /\ NothingNew /\ Effective(names') = Effective(names)
      /\ names' \in Pair /\ past' \subseteq Pair
      /\ names'.config = names.config
  BY <1>3, ForgetsStale
<1>5. TypeOK'
  BY Moves, <1>4 DEF IInv, TypeOK, Pc, Pair
<1>6. Exclusion' /\ exclusive = p
  BY <1>1 DEF IInv, Exclusion, Locked
<1>7. UnixHasNoBackup'
  BY <1>2 DEF UnixHasNoBackup
<1>8. CommandFits(p)'
  BY <1>1, <1>3, <1>4
     DEF IInv, CommandFits, NamesFit, DraftFits, EffectFits, ReturnFits, TempFits, Applied,
         Drafted, Filed, Flushed, Guarded, NothingNew
<1>9. Apart(p)
  BY <1>1, <1>6, <1>4 DEF Apart, NothingNew
<1>. QED  BY <1>4, <1>5, <1>6, <1>7, <1>8, <1>9, AllFit

LEMMA TidyKeeps ==
    ASSUME IInv, NEW p \in Process, Tidy(p)
    PROVE  IInv'
<1>. USE DEF Tidy, locks, returned, history
<1>1. /\ pc[p] = "tidy" /\ pc'[p] = "sync_parent"
      /\ \A q \in Process \ {p} : pc'[q] = pc[q]
  BY Moves DEF IInv
<1>2. windows /\ windows'
  BY <1>1 DEF IInv, UnixHasNoBackup, WindowsOnly
<1>3. names.config # None
  BY <1>1 DEF IInv, CommandFits, NamesFit, Applied
<1>4. /\ FilesFit' /\ NothingNew /\ Effective(names') = Effective(names)
      /\ names' \in Pair /\ past' \subseteq Pair
      /\ names'.config = names.config
  BY <1>3, ForgetsStale
<1>5. TypeOK'
  BY Moves, <1>4 DEF IInv, TypeOK, Pc, Pair
<1>6. Exclusion' /\ exclusive = p
  BY <1>1 DEF IInv, Exclusion, Locked
<1>7. UnixHasNoBackup'
  BY <1>2 DEF UnixHasNoBackup
<1>8. CommandFits(p)'
  BY <1>1, <1>3, <1>4
     DEF IInv, CommandFits, NamesFit, DraftFits, EffectFits, ReturnFits, TempFits, Applied,
         Drafted, Filed, Flushed, Guarded, NothingNew
<1>9. Apart(p)
  BY <1>1, <1>6, <1>4 DEF Apart, NothingNew
<1>. QED  BY <1>4, <1>5, <1>6, <1>7, <1>8, <1>9, AllFit

LEMMA RestoreKeeps ==
    ASSUME IInv, NEW p \in Process, Restore(p)
    PROVE  IInv'
<1>. USE DEF Restore, locks, returned, history
<1>1. /\ pc[p] = "restore" /\ pc'[p] = "cleanup"
      /\ \A q \in Process \ {p} : pc'[q] = pc[q]
  BY Moves DEF IInv
<1>2. windows /\ windows'
  BY <1>1 DEF IInv, UnixHasNoBackup, WindowsOnly
<1>3. names.config = None /\ names.backup # None
  BY <1>1 DEF IInv, CommandFits, NamesFit
<1>4. /\ FilesFit' /\ NothingNew /\ Effective(names') = Effective(names)
      /\ names' \in Pair /\ past' \subseteq Pair
  BY <1>3, PutsBack
<1>5. TypeOK'
  BY Moves, <1>4 DEF IInv, TypeOK, Pc, Pair
<1>6. Exclusion' /\ exclusive = p
  BY <1>1 DEF IInv, Exclusion, Locked
<1>7. UnixHasNoBackup'
  BY <1>2 DEF UnixHasNoBackup
<1>8. CommandFits(p)'
  BY <1>1, <1>4
     DEF IInv, CommandFits, NamesFit, DraftFits, EffectFits, ReturnFits, TempFits, Applied,
         Drafted, Filed, Flushed, Guarded, NothingNew
<1>9. Apart(p)
  BY <1>1, <1>6, <1>4 DEF Apart, NothingNew
<1>. QED  BY <1>4, <1>5, <1>6, <1>7, <1>8, <1>9, AllFit

LEMMA AsideKeeps ==
    ASSUME IInv, NEW p \in Process, Aside(p)
    PROVE  IInv'
<1>. USE DEF Aside, locks, returned, history
<1>1. /\ pc[p] = "aside" /\ pc'[p] \in {"install", "cleanup"}
      /\ \A q \in Process \ {p} : pc'[q] = pc[q]
  BY Moves DEF IInv
<1>2. windows /\ windows'
  BY <1>1 DEF IInv, UnixHasNoBackup, WindowsOnly
<1>3. names.config # None
  BY <1>1 DEF IInv, CommandFits, NamesFit
<1>4. /\ FilesFit' /\ NothingNew /\ Effective(names') = Effective(names)
      /\ names' \in Pair /\ past' \subseteq Pair
      /\ pc'[p] = "install" => names'.config = None /\ names'.backup # None
  <2>1. CASE UNCHANGED <<names, past>> /\ pc'[p] = "cleanup"
    BY <2>1, FilesRest, NamesFacts
  <2>2. CASE Place([config |-> None, backup |-> names.config])
    <3>. DEFINE n == [config |-> None, backup |-> names.config]
    <3>1. n \in Pair /\ n.config = None /\ n.backup = names.config
      BY NamesFacts, PairFacts
    <3>2. Synced(n.config) /\ Synced(n.backup)
      BY <3>1 DEF Synced, IInv, NamedAreSynced
    <3>3. Effective(n) = Effective(names)
      BY <1>3, <3>1 DEF Effective
    <3>. HIDE DEF n
    <3>4. Place(n)
      BY <2>2 DEF n
    <3>5. FilesFit' /\ NothingNew /\ Effective(names') = Effective(names)
      BY <3>1, <3>2, <3>3, <3>4, FilesRearranged
    <3>. QED  BY <1>3, <3>1, <3>4, <3>5, NamesFacts DEF Place
  <2>. QED  BY <1>1, <2>1, <2>2, Moves DEF IInv
<1>5. TypeOK'
  BY Moves, <1>4 DEF IInv, TypeOK, Pc, Pair
<1>6. Exclusion' /\ exclusive = p
  BY <1>1 DEF IInv, Exclusion, Locked
<1>7. UnixHasNoBackup'
  BY <1>2 DEF UnixHasNoBackup
<1>8. CommandFits(p)'
  BY <1>1, <1>4
     DEF IInv, CommandFits, NamesFit, DraftFits, EffectFits, ReturnFits, TempFits, Applied,
         Drafted, Filed, Flushed, Guarded, NothingNew
<1>9. Apart(p)
  BY <1>1, <1>6, <1>4 DEF Apart, NothingNew
<1>. QED  BY <1>4, <1>5, <1>6, <1>7, <1>8, <1>9, AllFit

\* Replace and SecondReplace move the file of the update over profiles.json, or
\* leave the files as they are.
LEMMA ReplaceKeeps ==
    ASSUME IInv, NEW p \in Process, Replace(p)
    PROVE  IInv'
<1>. USE DEF Replace, locks, returned, history
<1>1. /\ pc[p] = "replace" /\ pc'[p] \in {"sync_parent", "cleanup", "discard"}
      /\ \A q \in Process \ {p} : pc'[q] = pc[q]
  BY Moves DEF IInv
<1>2. Exclusion' /\ exclusive = p
  BY <1>1 DEF IInv, Exclusion, Locked
<1>3. CASE Install(p) /\ pc'[p] = "sync_parent"
  <2>1. /\ FilesFit' /\ Effective(names') = Effective(names) \union {p}
        /\ past' = past \union {names'}
        /\ names' \in Pair /\ past' \subseteq Pair
        /\ names'.config # None /\ names'.backup = names.backup
        /\ temp' = [temp EXCEPT ![p] = None]
    BY <1>1, <1>3, Installs
  <2>2. TypeOK'
    BY <2>1, Moves DEF IInv, TypeOK, Pc, Pair
  <2>3. UnixHasNoBackup'
    BY <1>1, <1>3, <2>1 DEF IInv, UnixHasNoBackup, NamedAreSynced, WindowsOnly
  <2>4. CommandFits(p)'
    BY <1>1, <1>3, <2>1
       DEF IInv, TypeOK, CommandFits, NamesFit, DraftFits, EffectFits, ReturnFits, TempFits,
           Applied, Drafted, Filed, Flushed, Guarded
  <2>5. \A q \in Process \ {p} :
           (\A n \in past : q \notin Effective(n)) => (\A n \in past' : q \notin Effective(n))
    BY <2>1 DEF IInv, NamedAreSynced
  <2>6. Apart(p)
    BY <1>1, <1>2, <2>1, <2>5 DEF IInv, TypeOK, Apart
  <2>. QED  BY <1>2, <2>1, <2>2, <2>3, <2>4, <2>6, AllFit
<1>4. CASE /\ UNCHANGED <<names, past, temp>>
           /\ \/ pc'[p] = "cleanup"
              \/ pc'[p] = "discard" /\ windows /\ names.config # None
  <2>1. TypeOK'
    BY <1>4, Moves DEF IInv, TypeOK, Pc
  <2>2. FilesFit' /\ NothingNew /\ UnixHasNoBackup'
    BY <1>1, <1>4, NamesRest DEF WindowsOnly
  <2>3. CommandFits(p)'
    BY <1>1, <1>4, <2>2
       DEF IInv, CommandFits, NamesFit, DraftFits, EffectFits, ReturnFits, TempFits, Applied,
           Drafted, Filed, Flushed, Guarded
  <2>4. Apart(p)
    BY <1>1, <1>4, <2>2 DEF Apart, NothingNew
  <2>. QED  BY <1>2, <2>1, <2>2, <2>3, <2>4, AllFit
<1>. QED  BY <1>3, <1>4, Moves DEF IInv

LEMMA SecondReplaceKeeps ==
    ASSUME IInv, NEW p \in Process, SecondReplace(p)
    PROVE  IInv'
<1>. USE DEF SecondReplace, locks, returned, history
<1>1. /\ pc[p] = "install" /\ pc'[p] \in {"tidy", "restore"}
      /\ \A q \in Process \ {p} : pc'[q] = pc[q]
  BY Moves DEF IInv
<1>2. Exclusion' /\ exclusive = p
  BY <1>1 DEF IInv, Exclusion, Locked
<1>3. windows /\ windows' /\ UnixHasNoBackup'
  BY <1>1 DEF IInv, UnixHasNoBackup, WindowsOnly
<1>4. CASE Install(p) /\ pc'[p] = "tidy"
  <2>1. /\ FilesFit' /\ Effective(names') = Effective(names) \union {p}
        /\ past' = past \union {names'}
        /\ names' \in Pair /\ past' \subseteq Pair
        /\ names'.config # None
        /\ temp' = [temp EXCEPT ![p] = None]
    BY <1>1, <1>4, Installs
  <2>2. TypeOK'
    BY <2>1, Moves DEF IInv, TypeOK, Pc, Pair
  <2>3. CommandFits(p)'
    BY <1>1, <1>4, <2>1
       DEF IInv, TypeOK, CommandFits, NamesFit, DraftFits, EffectFits, ReturnFits, TempFits,
           Applied, Drafted, Filed, Flushed, Guarded
  <2>4. \A q \in Process \ {p} :
           (\A n \in past : q \notin Effective(n)) => (\A n \in past' : q \notin Effective(n))
    BY <2>1 DEF IInv, NamedAreSynced
  <2>5. Apart(p)
    BY <1>1, <1>2, <2>1, <2>4 DEF IInv, TypeOK, Apart
  <2>. QED  BY <1>2, <1>3, <2>1, <2>2, <2>3, <2>5, AllFit
<1>5. CASE UNCHANGED <<names, past, temp>> /\ pc'[p] = "restore"
  <2>1. TypeOK'
    BY <1>5, Moves DEF IInv, TypeOK, Pc
  <2>2. FilesFit' /\ NothingNew
    BY <1>5, NamesRest
  <2>3. CommandFits(p)'
    BY <1>1, <1>5, <2>2
       DEF IInv, CommandFits, NamesFit, DraftFits, EffectFits, ReturnFits, TempFits, Applied,
           Drafted, Filed, Flushed, Guarded
  <2>4. Apart(p)
    BY <1>1, <1>5, <2>2 DEF Apart, NothingNew
  <2>. QED  BY <1>2, <1>3, <2>1, <2>2, <2>3, <2>4, AllFit
<1>. QED  BY <1>4, <1>5, Moves DEF IInv

LEMMA SyncParentKeeps ==
    ASSUME IInv, NEW p \in Process, SyncParent(p)
    PROVE  IInv'
<1>. USE DEF SyncParent, locks, returned, history
<1>1. /\ pc[p] = "sync_parent" /\ pc'[p] = "ok"
      /\ \A q \in Process \ {p} : pc'[q] = pc[q]
  BY Moves DEF IInv
<1>2. names.config # None
  BY <1>1 DEF IInv, CommandFits, NamesFit, Applied
<1>3. Contents(names.config) = Effective(names)
  BY <1>2 DEF Effective
<1>4. names \in past /\ past' \subseteq past /\ names' \in past'
  BY DEF IInv, NamedAreSynced
<1>5. FilesFit' /\ NothingNew
  BY <1>3, <1>4 DEF IInv, FilesFit, NamedAreSynced, DurableSurvives, BackupIsStale, NothingNew
<1>6. TypeOK'
  BY <1>3, <1>4, Moves, NamesFacts DEF IInv, TypeOK, Pc
<1>7. Exclusion'
  BY <1>1 DEF IInv, Exclusion, Locked
<1>8. UnixHasNoBackup'
  BY <1>1, <1>4 DEF IInv, UnixHasNoBackup, WindowsOnly
<1>9. CommandFits(p)'
  BY <1>1, <1>2
     DEF IInv, CommandFits, NamesFit, DraftFits, EffectFits, ReturnFits, TempFits, Applied,
         Drafted, Filed, Flushed, Guarded
<1>10. Apart(p)
  BY <1>1, <1>5 DEF Apart, NothingNew
<1>. QED  BY <1>5, <1>6, <1>7, <1>8, <1>9, <1>10, AllFit

-----------------------------------------------------------------------------
(* Power loss, and the theorems.                                           *)

\* Named files are synced, so that they come back as they were.
LEMMA ComesBack ==
    ASSUME IInv, PowerLoss
    PROVE  names' \in past /\ past' = {names'}
<1>1. PICK n \in past : names' = [config |-> Torn(n.config), backup |-> Torn(n.backup)]
  BY DEF PowerLoss
<1>2. n \in Pair /\ n.config \in File \union {None} /\ n.backup \in File \union {None}
  BY NamesFacts DEF Pair
<1>3. Synced(n.config) /\ Synced(n.backup)
  BY DEF IInv, NamedAreSynced
<1>4. Torn(n.config) = n.config /\ Torn(n.backup) = n.backup
  BY <1>2, <1>3, FileFacts
<1>5. names' = n
  BY <1>1, <1>2, <1>4, PairFacts
<1>. QED  BY <1>5 DEF PowerLoss

LEMMA PowerLossKeeps ==
    ASSUME IInv, PowerLoss
    PROVE  IInv'
<1>. USE DEF PowerLoss, returned
<1>1. names' \in past /\ past' = {names'}
  BY ComesBack
<1>2. \A q \in Process :
         /\ pc'[q] = IF pc[q] \in {"idle", "done", "dead"} THEN pc[q] ELSE "dead"
         /\ pc'[q] \in {"idle", "done", "dead"}
         /\ temp'[q] = Torn(temp[q])
  BY DEF IInv, TypeOK, Busy
<1>3. \A q \in Process : temp[q] = None => temp'[q] = None
  BY <1>2 DEF Torn
<1>4. TypeOK'
  <2>1. temp' \in [Process -> File \union {None}]
    BY FileFacts DEF IInv, TypeOK
  <2>2. pc' \in [Process -> Pc]
    BY DEF IInv, TypeOK, Pc
  <2>. QED  BY <1>1, <2>1, <2>2 DEF IInv, TypeOK, Busy
<1>5. Exclusion'
  BY <1>2 DEF Exclusion, Locked
<1>6. UnixHasNoBackup'
  BY <1>1, <1>2 DEF IInv, UnixHasNoBackup, WindowsOnly
<1>7. NamedAreSynced' /\ DurableSurvives' /\ BackupIsStale'
  BY <1>1 DEF IInv, NamedAreSynced, DurableSurvives, BackupIsStale
<1>8. ASSUME NEW q \in Process
      PROVE  CommandFits(q)'
  <2>1. CommandFits(q)
    BY DEF IInv
  <2>2. NamesFit(q)' /\ DraftFits(q)'
    BY <1>2 DEF NamesFit, DraftFits, Applied, Drafted, Filed, Flushed
  <2>3. EffectFits(q)'
    BY <1>1, <1>2, <2>1 DEF CommandFits, EffectFits, Applied
  <2>4. ReturnFits(q)'
    BY <1>2, <2>1 DEF CommandFits, ReturnFits
  <2>5. TempFits(q)'
    BY <1>2, <1>3, <2>1 DEF CommandFits, TempFits, Guarded, Busy
  <2>. QED  BY <2>2, <2>3, <2>4, <2>5 DEF CommandFits
<1>. QED  BY <1>4, <1>5, <1>6, <1>7, <1>8 DEF IInv

LEMMA NoFilesEffect == Effective([config |-> None, backup |-> None]) = {}
BY DEF Effective, Contents

LEMMA InitHolds == Init => IInv
<1>. SUFFICES ASSUME Init PROVE IInv
  OBVIOUS
<1>. USE DEF Init
<1>1. TypeOK
  BY DEF TypeOK, Pc
<1>2. Exclusion /\ UnixHasNoBackup
  BY DEF Exclusion, UnixHasNoBackup, Locked, WindowsOnly
<1>3. NamedAreSynced /\ BackupIsStale
  BY DEF NamedAreSynced, BackupIsStale, Synced
<1>4. DurableSurvives
  BY DEF DurableSurvives
<1>5. ASSUME NEW p \in Process
      PROVE  CommandFits(p)
  BY NoFilesEffect
     DEF CommandFits, NamesFit, DraftFits, EffectFits, ReturnFits, TempFits, Applied, Drafted,
         Filed, Flushed, Guarded
<1>. QED  BY <1>1, <1>2, <1>3, <1>4, <1>5 DEF IInv

LEMMA NextKeeps == IInv /\ [Next]_vars => IInv'
<1>. SUFFICES ASSUME IInv, [Next]_vars PROVE IInv'
  OBVIOUS
<1>1. ASSUME NEW p \in Process, Step(p)
      PROVE  IInv'
  BY <1>1, GiveUpKeeps, StartUpdateKeeps, StartLoadKeeps, RecoverKeeps, ReadKeeps, EditKeeps,
     CreateKeeps, WriteKeeps, SyncKeeps, ReplaceKeeps, DiscardKeeps, AsideKeeps,
     SecondReplaceKeeps, RestoreKeeps, TidyKeeps, SyncParentKeeps, CleanUpKeeps, ReturnKeeps,
     CrashKeeps
     DEF Step
<1>2. CASE PowerLoss
  BY <1>2, PowerLossKeeps
<1>3. CASE UNCHANGED vars
  BY <1>3
     DEF vars, IInv, TypeOK, Exclusion, UnixHasNoBackup, NamedAreSynced, DurableSurvives,
         BackupIsStale, CommandFits, NamesFit, DraftFits, EffectFits, ReturnFits, TempFits
<1>. QED  BY <1>1, <1>2, <1>3 DEF Next

LEMMA Invariance == Spec => []IInv
BY InitHolds, NextKeeps, PTL DEF Spec

\* The variables of the store keep their types, and the lock has one writer or
\* any number of readers (ProfileLock).
THEOREM StoreTypes == Spec => []TypeOK
<1>1. IInv => TypeOK
  BY DEF IInv
<1>. QED  BY <1>1, Invariance, PTL

\* On either system, for any number of commands, crashes and power losses:
\* what the names may stand for after the next crash is a whole configuration
\* that holds everything ever made durable, next to it at most a stale backup
\* (replace_file), and no temporary file of a command that could unlink it.
THEOREM DiskStaysSound == Spec => []DiskIsSound
<1>1. IInv => DiskIsSound
  <2>. SUFFICES ASSUME IInv PROVE DiskIsSound
    OBVIOUS
  <2>1. ConfigurationWhole
    <3>. SUFFICES ASSUME NEW n \in past
                  PROVE  Readable(Torn(n.config)) /\ Readable(Torn(n.backup))
      BY DEF ConfigurationWhole
    <3>1. Synced(n.config) /\ Synced(n.backup)
      BY DEF IInv, NamedAreSynced
    <3>. QED  BY <3>1 DEF Synced, Torn, Readable
  <2>2. NoStrayTemporary
    BY DEF IInv, CommandFits, TempFits, NoStrayTemporary, Guarded, Filed, Drafted
  <2>. QED  BY <2>1, <2>2 DEF IInv, DiskIsSound
<1>. QED  BY <1>1, Invariance, PTL

-----------------------------------------------------------------------------
(* The files keep the promise of AtomicStore.  A command's one step of      *)
(* effect is the one that moves its file over profiles.json; everything     *)
(* else that happens to the names leaves the configuration and those a      *)
(* power loss may bring back as they are.                                   *)

Older == {Effective(n) : n \in past}

StoreStutters == UNCHANGED <<Effective(names), Older, outcome, loaded>>

LEMMA NamesRestStutters ==
    ASSUME UNCHANGED <<names, past, outcome, loaded>>
    PROVE  StoreStutters
BY DEF StoreStutters, Older

LEMMA RearrangedStutters ==
    ASSUME IInv, NEW n, Place(n), Effective(n) = Effective(names),
           UNCHANGED <<outcome, loaded>>
    PROVE  StoreStutters
<1>1. names' = n /\ past' = past \union {n} /\ names \in past
  BY DEF Place, IInv, NamedAreSynced
<1>2. Older' = Older
  BY <1>1 DEF Older
<1>3. Effective(names)' = Effective(names)
  BY <1>1
<1>. QED  BY <1>2, <1>3 DEF StoreStutters

LEMMA InstallApplies ==
    ASSUME IInv, NEW p \in Process, pc[p] \in {"replace", "install"}, Install(p),
           UNCHANGED <<outcome, loaded, durable>>
    PROVE  Store!Apply(p)
<1>1. Effective(names') = Effective(names) \union {p} /\ past' = past \union {names'}
  BY Installs
<1>2. outcome[p] = "none"
  BY DEF IInv, CommandFits, ReturnFits
<1>3. Older' = Older \union {Effective(names')}
  BY <1>1 DEF Older
<1>. QED  BY <1>1, <1>2, <1>3 DEF Store!Apply, Older

\* A stale backup goes, a backup that is the configuration comes back, or the
\* old file becomes the backup: the configuration is the same.
LEMMA ForgettingStutters ==
    ASSUME IInv, names.config # None, Place(Forgotten), UNCHANGED <<outcome, loaded>>
    PROVE  StoreStutters
<1>1. Effective(Forgotten) = Effective(names)
  BY NamesFacts, PairFacts DEF Effective
<1>. QED  BY <1>1, RearrangedStutters

LEMMA RestoringStutters ==
    ASSUME IInv, names.config = None, names.backup # None, Place(Restored),
           UNCHANGED <<outcome, loaded>>
    PROVE  StoreStutters
<1>1. Effective(Restored) = Effective(names)
  BY NamesFacts, PairFacts DEF Effective
<1>. QED  BY <1>1, RearrangedStutters

LEMMA AsideStutters ==
    ASSUME IInv, names.config # None, Place([config |-> None, backup |-> names.config]),
           UNCHANGED <<outcome, loaded>>
    PROVE  StoreStutters
<1>1. Effective([config |-> None, backup |-> names.config]) = Effective(names)
  BY NamesFacts, PairFacts DEF Effective
<1>. QED  BY <1>1, RearrangedStutters

LEMMA ReadLoads ==
    ASSUME IInv, NEW p \in Process, Read(p)
    PROVE  StoreStutters \/ Store!Load(p)
<1>. USE DEF Read, locks, returned, history
<1>1. CASE loaded' = loaded
  BY <1>1, NamesRestStutters
<1>2. CASE loaded' = [loaded EXCEPT ![p] = Contents(names.config)]
  <2>1. pc[p] = "read"
    BY DEF Move
  <2>2. names.config # None \/ names.backup = None
    BY <2>1 DEF IInv, CommandFits, NamesFit
  <2>3. Contents(names.config) = Effective(names)
    BY <2>2 DEF Effective, Contents
  <2>4. Effective(names)' = Effective(names) /\ Older' = Older
    BY DEF Older
  <2>. QED  BY <1>2, <2>3, <2>4 DEF Store!Load, Older
<1>. QED  BY <1>1, <1>2

LEMMA ReturnReports ==
    ASSUME IInv, NEW p \in Process, Return(p)
    PROVE  Store!Succeed(p) \/ Store!Fail(p)
<1>. USE DEF Return, history
<1>1. Effective(names)' = Effective(names) /\ Older' = Older /\ loaded' = loaded
  BY DEF Older
<1>2. pc[p] \in {"ok", "fail"}
  BY DEF Move
<1>3. outcome[p] = "none"
  BY <1>2 DEF IInv, CommandFits, ReturnFits
<1>4. CASE pc[p] = "ok"
  <2>1. outcome' = [outcome EXCEPT ![p] = "ok"]
    BY <1>4 DEF Move
  <2>2. p \in Effective(names)
    BY <1>4 DEF IInv, CommandFits, EffectFits, Applied
  <2>. QED  BY <1>1, <1>3, <2>1, <2>2 DEF Store!Succeed, Older
<1>5. CASE pc[p] = "fail"
  <2>1. outcome' = [outcome EXCEPT ![p] = "failed"]
    BY <1>5 DEF Move
  <2>2. \A n \in past : p \notin Effective(n)
    BY <1>5 DEF IInv, CommandFits, EffectFits, Applied
  <2>. QED  BY <1>1, <1>3, <2>1, <2>2 DEF Store!Fail, Older
<1>. QED  BY <1>2, <1>4, <1>5

LEMMA SyncMakesDurable ==
    ASSUME IInv, NEW p \in Process, SyncParent(p)
    PROVE  StoreStutters \/ Store!MakeDurable
<1>. USE DEF SyncParent, locks, returned
<1>1. CASE past' = past
  BY <1>1, NamesRestStutters
<1>2. CASE past' = {names}
  <2>1. Older' = {Effective(names)}
    BY <1>2 DEF Older
  <2>2. Effective(names)' = Effective(names)
    OBVIOUS
  <2>. QED  BY <2>1, <2>2 DEF Store!MakeDurable, Older
<1>. QED  BY <1>1, <1>2

LEMMA PowerLossReturns ==
    ASSUME IInv, PowerLoss
    PROVE  Store!PowerLoss
<1>1. names' \in past /\ past' = {names'}
  BY ComesBack
<1>2. Older' = {Effective(names')} /\ Effective(names') \in Older
  BY <1>1 DEF Older
<1>. QED  BY <1>2 DEF PowerLoss, returned, Store!PowerLoss, Older

LEMMA StepKeepsPromise ==
    ASSUME IInv, NEW p \in Process, Step(p)
    PROVE  Store!Next \/ StoreStutters
<1>. USE DEF locks, returned, history
<1>1. CASE GiveUp(p) \/ StartUpdate(p) \/ StartLoad(p) \/ Edit(p) \/ Create(p) \/ Write(p)
           \/ Sync(p) \/ CleanUp(p) \/ Crash(p)
  BY <1>1, NamesRestStutters
     DEF GiveUp, StartUpdate, StartLoad, Edit, Create, Write, Sync, CleanUp, Crash
<1>2. CASE \E from, to : Recover(p, from, to)
  BY <1>2, NamesRestStutters, ForgettingStutters, RestoringStutters DEF Recover
<1>3. CASE Discard(p) \/ Tidy(p)
  <2>1. names.config # None
    BY <1>3 DEF Discard, Tidy, Move, IInv, CommandFits, NamesFit, Applied
  <2>. QED  BY <1>3, <2>1, NamesRestStutters, ForgettingStutters DEF Discard, Tidy
<1>4. CASE Aside(p)
  <2>1. names.config # None
    BY <1>4 DEF Aside, Move, IInv, CommandFits, NamesFit
  <2>. QED  BY <1>4, <2>1, NamesRestStutters, AsideStutters DEF Aside
<1>5. CASE Restore(p)
  <2>1. names.config = None /\ names.backup # None
    BY <1>5 DEF Restore, Move, IInv, CommandFits, NamesFit
  <2>. QED  BY <1>5, <2>1, NamesRestStutters, RestoringStutters DEF Restore
<1>6. CASE Replace(p) \/ SecondReplace(p)
  <2>1. pc[p] \in {"replace", "install"}
    BY <1>6 DEF Replace, SecondReplace, Move
  <2>2. UNCHANGED <<outcome, loaded, durable>> /\ (Install(p) \/ UNCHANGED <<names, past>>)
    BY <1>6 DEF Replace, SecondReplace
  <2>3. Store!Apply(p) \/ StoreStutters
    BY <2>1, <2>2, NamesRestStutters, InstallApplies
  <2>. QED  BY <2>3 DEF Store!Next
<1>7. CASE Read(p)
  BY <1>7, ReadLoads DEF Store!Next
<1>8. CASE Return(p)
  BY <1>8, ReturnReports DEF Store!Next
<1>9. CASE SyncParent(p)
  BY <1>9, SyncMakesDurable DEF Store!Next
<1>. QED  BY <1>1, <1>2, <1>3, <1>4, <1>5, <1>6, <1>7, <1>8, <1>9 DEF Step

LEMMA InitKeepsPromise == Init => Store!Init
<1>. SUFFICES ASSUME Init PROVE Store!Init
  OBVIOUS
<1>1. Effective(names) = {}
  BY NoFilesEffect DEF Init
<1>2. {Effective(n) : n \in past} = {{}}
  BY <1>1 DEF Init
<1>. QED  BY <1>1, <1>2 DEF Init, Store!Init

\* Whatever fails, crashes or loses power, the files behave as a store in which
\* an update takes effect whole and at once or not at all, is reported as
\* failed only if it has no effect and never will have, and a power loss
\* brings back a configuration no older than the last one made durable.
THEOREM FilesKeepPromise == Spec => StoreSpec
<1>1. Init => Store!Init
  BY InitKeepsPromise
<1>2. IInv /\ [Next]_vars => [Store!Next]_(Store!vars)
  <2>. SUFFICES ASSUME IInv, [Next]_vars PROVE Store!Next \/ UNCHANGED Store!vars
    OBVIOUS
  <2>1. StoreStutters => UNCHANGED Store!vars
    BY DEF StoreStutters, Store!vars, Older
  <2>2. CASE UNCHANGED vars
    BY <2>1, <2>2, NamesRestStutters DEF vars
  <2>3. ASSUME NEW p \in Process, Step(p)
        PROVE  Store!Next \/ UNCHANGED Store!vars
    BY <2>1, <2>3, StepKeepsPromise
  <2>4. CASE PowerLoss
    BY <2>4, PowerLossReturns DEF Store!Next
  <2>. QED  BY <2>2, <2>3, <2>4 DEF Next
<1>. QED  BY <1>1, <1>2, Invariance, PTL DEF Spec, StoreSpec, Store!Spec

-----------------------------------------------------------------------------
(* ConfigFiles: what may stand in place of the files of the store.         *)

\* Where the command has the directory open, and where it has profiles.json.
HomeOpen == {"secure_home", "open_lock", "secure_lock", "open_config", "secure_config",
             "measure", "read", "edit", "write"}
ConfigOpen == {"secure_config", "measure", "read"}
BeforeRead == (HomeOpen \ {"edit", "write"}) \union {"open_home"}

\* A file that the next command can read.
Loads(file) ==
    /\ file \in Files!File
    /\ file.content.length <= MaxConfigBytes
    /\ file.content.sound

\* What a command has open is what its names lead to, as long as nobody put
\* something else there; and where an update saved, nobody did.
OpenedFits ==
    /\ step \in HomeOpen => opened \in Directory
    /\ step \in ConfigOpen \union {"secure_lock", "open_config"} => held \in Files!File
    /\ step \in BeforeRead => kept = 0
    /\ step = "write" => draft.sound
    /\ step \in ConfigOpen /\ attached => held = directory[opened].config
    /\ saved => home \in Directory /\ Loads(directory[home].config)
    /\ saved /\ step \in HomeOpen => opened = home
    /\ saved /\ step \in ConfigOpen => attached

FilesInv ==
    /\ Files!TypeOK
    /\ OpenedFits
    /\ Files!AcceptedIsSafe
    /\ Files!BoundedRead
    /\ Files!SavedLoads

Entry == [kind : {"own", "foreign"}, private : BOOLEAN,
          lock : Files!File \union {None}, config : Files!File \union {None}]

Changed(old, d, name, f) == [old EXCEPT ![d][name] = f]

\* What changing a file of a directory leaves alone.
LEMMA FileChanges ==
    ASSUME NEW old \in [Directory -> Entry], NEW d \in Directory,
           NEW f \in Files!File \union {None}, NEW name \in {"lock", "config"}
    PROVE  /\ Changed(old, d, name, f) \in [Directory -> Entry]
           /\ \A e \in Directory :
                 /\ Changed(old, d, name, f)[e].kind = old[e].kind
                 /\ Changed(old, d, name, f)[e].private = old[e].private
           /\ \A e \in Directory : e # d \/ name = "lock" =>
                 Changed(old, d, name, f)[e].config = old[e].config
           /\ name = "config" => Changed(old, d, name, f)[d].config = f
<1>. DEFINE new == Changed(old, d, name, f)
<1>1. CASE name = "lock"
  <2>1. new = [old EXCEPT ![d] = [old[d] EXCEPT !.lock = f]]
    BY <1>1 DEF Changed
  <2>2. old[d] \in Entry
    OBVIOUS
  <2>3. /\ [old[d] EXCEPT !.lock = f] \in Entry
        /\ [old[d] EXCEPT !.lock = f].kind = old[d].kind
        /\ [old[d] EXCEPT !.lock = f].private = old[d].private
        /\ [old[d] EXCEPT !.lock = f].config = old[d].config
    BY <2>2 DEF Entry
  <2>. QED  BY <1>1, <2>1, <2>3
<1>2. CASE name = "config"
  <2>1. new = [old EXCEPT ![d] = [old[d] EXCEPT !.config = f]]
    BY <1>2 DEF Changed
  <2>2. old[d] \in Entry
    OBVIOUS
  <2>3. /\ [old[d] EXCEPT !.config = f] \in Entry
        /\ [old[d] EXCEPT !.config = f].kind = old[d].kind
        /\ [old[d] EXCEPT !.config = f].private = old[d].private
        /\ [old[d] EXCEPT !.config = f].config = f
    BY <2>2 DEF Entry
  <2>. QED  BY <1>2, <2>1, <2>3
<1>. QED  BY <1>1, <1>2

\* Files that the steps make.
LEMMA FilesAre ==
    ASSUME Files!FilesAssumption
    PROVE  /\ Files!Default \in Files!Configuration(MaxConfigBytes)
           /\ \A n \in Nat : Files!Configuration(MaxConfigBytes)
                                \subseteq Files!Configuration(MaxConfigBytes + n)
           /\ \A c \in Files!Configuration(MaxConfigBytes + Spare) :
                 Files!NewFile(c) \in Files!File /\ Files!NewFile(c).content = c
           /\ \A f \in Files!File, p \in BOOLEAN : [f EXCEPT !.private = p] \in Files!File
           /\ \A f \in Files!File, c \in Files!Configuration(MaxConfigBytes + Spare) :
                 [f EXCEPT !.content = c] \in Files!File
           /\ Files!Strange \subseteq Files!File
           /\ Files!OwnDirectory \in Entry
<1>1. MaxConfigBytes \in Nat \ {0} /\ Spare \in Nat \ {0}
  BY DEF Files!FilesAssumption
<1>2. Files!Default \in Files!Configuration(MaxConfigBytes)
  BY <1>1 DEF Files!Default, Files!Configuration
<1>3. \A n \in Nat : Files!Configuration(MaxConfigBytes)
                        \subseteq Files!Configuration(MaxConfigBytes + n)
  BY <1>1 DEF Files!Configuration
<1>4. \A c \in Files!Configuration(MaxConfigBytes + Spare) :
         Files!NewFile(c) \in Files!File /\ Files!NewFile(c).content = c
  BY DEF Files!NewFile, Files!File, Files!Kinds
<1>5. \A f \in Files!File, p \in BOOLEAN : [f EXCEPT !.private = p] \in Files!File
  BY DEF Files!File
<1>6. \A f \in Files!File, c \in Files!Configuration(MaxConfigBytes + Spare) :
         [f EXCEPT !.content = c] \in Files!File
  BY DEF Files!File
<1>7. Files!Strange \subseteq Files!File
  BY <1>1, <1>2, <1>3 DEF Files!Strange, Files!File
<1>8. Files!OwnDirectory \in Entry
  BY DEF Files!OwnDirectory, Entry
<1>. QED  BY <1>2, <1>3, <1>4, <1>5, <1>6, <1>7, <1>8

LEMMA FilesBegin ==
    ASSUME Files!FilesAssumption
    PROVE  Files!Init => FilesInv
<1>. SUFFICES ASSUME Files!Init PROVE FilesInv
  OBVIOUS
<1>1. directory \in [Directory -> Entry]
  <2>1. PICK private \in BOOLEAN,
             start \in {[Files!OwnDirectory EXCEPT !.kind = kind] : kind \in {"own", "foreign"}}
                \union {[Files!OwnDirectory EXCEPT !.lock = f] : f \in Files!Strange}
                \union {[Files!OwnDirectory EXCEPT !.config = f] : f \in Files!File} :
           directory = [d \in Directory |-> [start EXCEPT !.private = private]]
    BY DEF Files!Init
  <2>2. start \in Entry
    <3>1. Files!OwnDirectory \in Entry /\ Files!Strange \subseteq Files!File
      BY FilesAre
    <3>2. \A kind \in {"own", "foreign"} : [Files!OwnDirectory EXCEPT !.kind = kind] \in Entry
      BY <3>1 DEF Entry
    <3>3. \A f \in Files!File :
             /\ [Files!OwnDirectory EXCEPT !.lock = f] \in Entry
             /\ [Files!OwnDirectory EXCEPT !.config = f] \in Entry
      BY <3>1 DEF Entry
    <3>. QED  BY <3>1, <3>2, <3>3
  <2>3. [start EXCEPT !.private = private] \in Entry
    BY <2>2 DEF Entry
  <2>. QED  BY <2>1, <2>3
<1>2. MaxConfigBytes \in Nat \ {0} /\ Spare \in Nat \ {0} /\ MaxMeddling \in Nat
  BY DEF Files!FilesAssumption
<1>3. /\ home \in Directory \union {"link", None} /\ honours \in BOOLEAN
      /\ step = "idle" /\ updates = FALSE /\ opened = None /\ held = None
      /\ attached = FALSE /\ kept = 0 /\ draft = Files!Default /\ saved = FALSE
      /\ meddling = 0
  BY DEF Files!Init
<1>4. draft \in Files!Configuration(MaxConfigBytes + Spare)
  BY <1>2, <1>3, FilesAre
<1>5. Files!TypeOK
  <2>1. {honours, updates, attached, saved} \subseteq BOOLEAN
    BY <1>3
  <2>2. meddling \in 0 .. MaxMeddling /\ kept \in Nat
    BY <1>2, <1>3
  <2>. QED  BY <1>1, <1>3, <1>4, <2>1, <2>2 DEF Files!TypeOK, Entry
<1>. QED
  BY <1>2, <1>3, <1>5 DEF FilesInv, OpenedFits, HomeOpen, ConfigOpen, BeforeRead,
     Files!AcceptedIsSafe, Files!BoundedRead, Files!SavedLoads

-----------------------------------------------------------------------------
(* The steps of a command.                                                 *)

LEMMA FilesFail == FilesInv /\ Files!Fail => FilesInv'
BY DEF Files!Fail, Files!memory, FilesInv, OpenedFits, HomeOpen, ConfigOpen, BeforeRead,
   Files!TypeOK, Files!AcceptedIsSafe, Files!BoundedRead, Files!SavedLoads

\* A command makes a directory only where there is none.
LEMMA FilesStart ==
    ASSUME Files!FilesAssumption
    PROVE  FilesInv /\ Files!Begin => FilesInv'
<1>. SUFFICES ASSUME FilesInv, Files!Begin PROVE FilesInv'
  OBVIOUS
<1>1. /\ step \in {"idle", "done", "failed", "unreadable"} /\ step' = "open_home"
      /\ updates' \in BOOLEAN /\ opened' = None /\ held' = None /\ attached' = FALSE
      /\ kept' = 0 /\ draft' = Files!Default
      /\ UNCHANGED <<honours, meddling>>
  BY DEF Files!Begin
<1>2. MaxConfigBytes \in Nat \ {0} /\ Spare \in Nat \ {0}
  BY DEF Files!FilesAssumption
<1>3. directory \in [Directory -> Entry] /\ home \in Directory \union {"link", None}
  BY DEF FilesInv, Files!TypeOK, Entry
<1>4. /\ directory' \in [Directory -> Entry] /\ home' \in Directory \union {"link", None}
      /\ saved' \in BOOLEAN
      /\ saved' => home' \in Directory /\ Loads(directory'[home'].config)
  <2>1. CASE home = None
    <3>1. PICK d \in Directory :
             home' = d /\ directory' = [directory EXCEPT ![d] = Files!OwnDirectory]
             /\ saved' = FALSE
      BY <2>1 DEF Files!Begin
    <3>. QED  BY <1>3, <3>1, FilesAre
  <2>2. CASE home # None
    BY <1>3, <2>2 DEF Files!Begin, FilesInv, Files!TypeOK, OpenedFits
  <2>. QED  BY <2>1, <2>2
<1>5. draft' \in Files!Configuration(MaxConfigBytes + Spare)
  BY <1>1, <1>2, FilesAre
<1>6. Files!TypeOK'
  BY <1>1, <1>4, <1>5 DEF FilesInv, Files!TypeOK, Entry
<1>. QED
  BY <1>1, <1>2, <1>4, <1>6 DEF FilesInv, OpenedFits, HomeOpen, ConfigOpen, BeforeRead,
     Loads, Files!AcceptedIsSafe, Files!BoundedRead, Files!SavedLoads

LEMMA FilesOpenHome == FilesInv /\ Files!OpenHome => FilesInv'
BY DEF Files!OpenHome, Files!memory, FilesInv, OpenedFits, HomeOpen, ConfigOpen, BeforeRead,
   Files!TypeOK, Files!AcceptedIsSafe, Files!BoundedRead, Files!SavedLoads

LEMMA FilesSecureHome == FilesInv /\ Files!SecureOpenDirectory => FilesInv'
<1>. SUFFICES ASSUME FilesInv, Files!SecureOpenDirectory PROVE FilesInv'
  OBVIOUS
<1>1. /\ step = "secure_home" /\ directory[opened].kind = "own"
      /\ directory' = [directory EXCEPT ![opened].private = @ \/ honours]
      /\ step' = IF directory'[opened].private THEN "open_lock" ELSE "failed"
      /\ UNCHANGED <<home, honours, updates, opened, held, attached, kept, draft, saved,
                     meddling>>
  BY DEF Files!SecureOpenDirectory, Files!memory
<1>2. directory \in [Directory -> Entry] /\ opened \in Directory /\ honours \in BOOLEAN
  BY <1>1 DEF FilesInv, Files!TypeOK, Entry, OpenedFits, HomeOpen
<1>3. /\ directory' \in [Directory -> Entry]
      /\ \A d \in Directory : directory'[d].kind = directory[d].kind
                              /\ directory'[d].config = directory[d].config
  <2>1. directory' = [directory EXCEPT ![opened] =
                         [directory[opened] EXCEPT !.private = @ \/ honours]]
    BY <1>1
  <2>2. directory[opened] \in Entry
    BY <1>2
  <2>3. /\ [directory[opened] EXCEPT !.private = @ \/ honours] \in Entry
        /\ [directory[opened] EXCEPT !.private = @ \/ honours].kind = directory[opened].kind
        /\ [directory[opened] EXCEPT !.private = @ \/ honours].config
              = directory[opened].config
    BY <1>2, <2>2 DEF Entry
  <2>. QED  BY <1>2, <2>1, <2>3
<1>4. directory'[opened].kind = "own"
  BY <1>1, <1>2, <1>3
<1>5. step' \in {"open_lock", "failed"} /\ (step' = "open_lock" => directory'[opened].private)
  BY <1>1
<1>6. Files!TypeOK'
  BY <1>1, <1>3, <1>5 DEF FilesInv, Files!TypeOK, Entry
<1>7. OpenedFits'
  BY <1>1, <1>3, <1>5 DEF FilesInv, OpenedFits, HomeOpen, ConfigOpen, BeforeRead, Loads
<1>8. Files!AcceptedIsSafe' /\ Files!BoundedRead' /\ Files!SavedLoads'
  BY <1>1, <1>4, <1>5 DEF FilesInv, Files!AcceptedIsSafe, Files!BoundedRead, Files!SavedLoads
<1>. QED  BY <1>6, <1>7, <1>8 DEF FilesInv

LEMMA FilesOpenLock ==
    ASSUME Files!FilesAssumption
    PROVE  FilesInv /\ Files!OpenLock => FilesInv'
<1>. SUFFICES ASSUME FilesInv, Files!OpenLock PROVE FilesInv'
  OBVIOUS
<1>1. /\ step = "open_lock" /\ step' = "secure_lock" /\ attached' = TRUE
      /\ directory' = [directory EXCEPT ![opened]["lock"] = held']
      /\ UNCHANGED <<home, honours, updates, opened, kept, draft, saved, meddling>>
  BY DEF Files!OpenLock, Files!memory
<1>2. directory \in [Directory -> Entry] /\ opened \in Directory /\ honours \in BOOLEAN
  BY <1>1 DEF FilesInv, Files!TypeOK, Entry, OpenedFits, HomeOpen
<1>3. held' \in Files!File
  <2>1. directory[opened].lock \in Files!File \union {None}
    BY <1>2 DEF Entry
  <2>2. CASE directory[opened].lock # None
    BY <2>1, <2>2 DEF Files!OpenLock
  <2>3. CASE directory[opened].lock = None
    <3>1. PICK private \in {TRUE, honours} :
             held' = [Files!NewFile(Files!Default) EXCEPT !.private = private]
      BY <2>3 DEF Files!OpenLock
    <3>2. Files!Default \in Files!Configuration(MaxConfigBytes + Spare)
      BY FilesAre DEF Files!FilesAssumption
    <3>. QED  BY <1>2, <3>1, <3>2, FilesAre
  <2>. QED  BY <2>2, <2>3
<1>4. /\ directory' \in [Directory -> Entry]
      /\ \A e \in Directory : directory'[e].kind = directory[e].kind
                              /\ directory'[e].private = directory[e].private
                              /\ directory'[e].config = directory[e].config
  <2>1. directory' = Changed(directory, opened, "lock", held')
    BY <1>1 DEF Changed
  <2>. QED  BY <1>2, <1>3, <2>1, FileChanges
<1>5. Files!TypeOK'
  BY <1>1, <1>3, <1>4 DEF FilesInv, Files!TypeOK, Entry
<1>6. OpenedFits'
  BY <1>1, <1>3, <1>4 DEF FilesInv, OpenedFits, HomeOpen, ConfigOpen, BeforeRead, Loads
<1>7. Files!AcceptedIsSafe' /\ Files!BoundedRead' /\ Files!SavedLoads'
  BY <1>1, <1>2, <1>4 DEF FilesInv, Files!AcceptedIsSafe, Files!BoundedRead, Files!SavedLoads
<1>. QED  BY <1>5, <1>6, <1>7 DEF FilesInv

\* A file is made private through its descriptor, and the name shows it if it
\* still leads there.
LEMMA FilesSecure ==
    ASSUME FilesInv, NEW from, NEW to, Files!SecureOpenRegularFile(from, to),
           <<from, to>> \in {<<"secure_lock", "open_config">>, <<"secure_config", "measure">>}
    PROVE  FilesInv'
<1>. DEFINE name == IF from = "secure_lock" THEN "lock" ELSE "config"
<1>1. \/ from = "secure_lock" /\ to = "open_config"
      \/ from = "secure_config" /\ to = "measure"
  OBVIOUS
<1>2. /\ step = from /\ held.kind = "own" /\ Files!Slot = name
      /\ held' = [held EXCEPT !.private = @ \/ honours]
      /\ attached => directory' = [directory EXCEPT ![opened][name] = held']
      /\ ~ attached => directory' = directory
      /\ step' = IF held'.private THEN to ELSE "failed"
      /\ UNCHANGED <<home, honours, updates, opened, attached, kept, draft, saved, meddling>>
  <2>1. step = from /\ Files!Slot = name
    BY <1>1 DEF Files!SecureOpenRegularFile, Files!Slot
  <2>. QED  BY <2>1 DEF Files!SecureOpenRegularFile, Files!memory
<1>3. /\ directory \in [Directory -> Entry] /\ opened \in Directory /\ honours \in BOOLEAN
      /\ held \in Files!File /\ attached \in BOOLEAN
  BY <1>1, <1>2 DEF FilesInv, Files!TypeOK, Entry, OpenedFits, HomeOpen, ConfigOpen
<1>4. held' \in Files!File /\ held'.kind = "own" /\ held'.content = held.content
  <2>1. held.private \in BOOLEAN
    BY <1>3 DEF Files!File
  <2>. QED  BY <1>2, <1>3, <2>1, FilesAre DEF Files!File
<1>5. /\ directory' \in [Directory -> Entry]
      /\ \A e \in Directory : directory'[e].kind = directory[e].kind
                              /\ directory'[e].private = directory[e].private
      /\ \A e \in Directory : e # opened \/ name = "lock" \/ ~ attached =>
            directory'[e].config = directory[e].config
      /\ name = "config" /\ attached => directory'[opened].config = held'
  <2>1. CASE attached
    <3>1. name \in {"lock", "config"}
      OBVIOUS
    <3>. HIDE DEF name
    <3>2. directory' = Changed(directory, opened, name, held')
      BY <1>2, <2>1 DEF Changed
    <3>. QED  BY <1>3, <1>4, <2>1, <3>1, <3>2, FileChanges
  <2>2. CASE ~ attached
    BY <1>2, <1>3, <2>2
  <2>. QED  BY <2>1, <2>2
<1>6. step' \in {to, "failed"} /\ (step' = to => held'.private)
  BY <1>2
<1>7. Files!TypeOK'
  BY <1>1, <1>2, <1>4, <1>5, <1>6 DEF FilesInv, Files!TypeOK, Entry
<1>8. saved => Loads(directory'[home].config)
  <2>. SUFFICES ASSUME saved PROVE Loads(directory'[home].config)
    OBVIOUS
  <2>1. home \in Directory /\ home = opened /\ Loads(directory[home].config)
    BY <1>1, <1>2 DEF FilesInv, OpenedFits, HomeOpen
  <2>2. CASE from = "secure_lock"
    BY <1>5, <2>1, <2>2
  <2>3. CASE from = "secure_config"
    <3>1. attached /\ held = directory[opened].config
      BY <1>2, <2>3 DEF FilesInv, OpenedFits, ConfigOpen
    <3>2. Loads(held')
      BY <1>4, <2>1, <3>1 DEF Loads
    <3>3. directory'[opened].config = held'
      BY <1>1, <1>5, <2>3, <3>1
    <3>. QED  BY <2>1, <3>2, <3>3
  <2>. QED  BY <1>1, <2>2, <2>3
<1>9. OpenedFits'
  <2>1. step' \in ConfigOpen /\ attached => held' = directory'[opened].config
    BY <1>1, <1>5, <1>6 DEF ConfigOpen
  <2>2. saved /\ step' \in ConfigOpen => attached
    BY <1>1, <1>2, <1>6 DEF FilesInv, OpenedFits, ConfigOpen
  <2>3. step = from /\ from \in HomeOpen \intersect BeforeRead
    BY <1>1, <1>2 DEF HomeOpen, BeforeRead
  <2>4. step' # "write"
    BY <1>1, <1>6
  <2>. QED
    BY <1>2, <1>3, <1>4, <1>8, <2>1, <2>2, <2>3, <2>4 DEF FilesInv, OpenedFits
<1>10. Files!AcceptedIsSafe'
  BY <1>1, <1>2, <1>3, <1>4, <1>5, <1>6 DEF FilesInv, Files!AcceptedIsSafe
<1>11. Files!BoundedRead' /\ Files!SavedLoads'
  BY <1>1, <1>2, <1>6 DEF FilesInv, Files!BoundedRead, Files!SavedLoads
<1>. QED  BY <1>7, <1>9, <1>10, <1>11 DEF FilesInv

LEMMA FilesOpenConfiguration ==
    ASSUME Files!FilesAssumption
    PROVE  FilesInv /\ Files!OpenConfiguration => FilesInv'
<1>. SUFFICES ASSUME FilesInv, Files!OpenConfiguration PROVE FilesInv'
  OBVIOUS
<1>1. /\ step = "open_config"
      /\ UNCHANGED <<home, honours, directory, updates, opened, kept, draft, saved, meddling>>
  BY DEF Files!OpenConfiguration, Files!memory
<1>2. directory \in [Directory -> Entry] /\ opened \in Directory /\ kept = 0
  BY <1>1 DEF FilesInv, Files!TypeOK, Entry, OpenedFits, HomeOpen, BeforeRead
<1>3. CASE directory[opened].config = None
  <2>1. step' \in {"edit", "done"} /\ UNCHANGED <<held, attached>>
    BY <1>3 DEF Files!OpenConfiguration
  <2>2. kept' <= MaxConfigBytes
    BY <1>1, <1>2 DEF Files!FilesAssumption
  <2>. QED
    BY <1>1, <1>2, <2>1, <2>2 DEF FilesInv, OpenedFits, HomeOpen, ConfigOpen, BeforeRead,
       Files!TypeOK, Files!AcceptedIsSafe, Files!BoundedRead, Files!SavedLoads
<1>4. CASE directory[opened].config # None
  <2>1. step' = "secure_config" /\ attached' = TRUE /\ held' = directory[opened].config
    BY <1>4 DEF Files!OpenConfiguration
  <2>2. held' \in Files!File
    BY <1>2, <1>4, <2>1 DEF Entry
  <2>. QED
    BY <1>1, <1>2, <2>1, <2>2 DEF FilesInv, OpenedFits, HomeOpen, ConfigOpen, BeforeRead,
       Files!TypeOK, Files!AcceptedIsSafe, Files!BoundedRead, Files!SavedLoads
<1>. QED  BY <1>3, <1>4

LEMMA FilesMeasure ==
    ASSUME Files!FilesAssumption
    PROVE  FilesInv /\ Files!Measure => FilesInv'
<1>. SUFFICES ASSUME FilesInv, Files!Measure PROVE FilesInv'
  OBVIOUS
<1>1. /\ step = "measure"
      /\ step' = IF held.content.length > MaxConfigBytes THEN "unreadable" ELSE "read"
      /\ UNCHANGED <<home, honours, directory, updates, opened, held, attached, kept, draft,
                     saved, meddling>>
  BY DEF Files!Measure, Files!memory
<1>2. saved => held.content.length <= MaxConfigBytes
  BY <1>1 DEF FilesInv, OpenedFits, HomeOpen, ConfigOpen, Loads
<1>3. saved => step' # "unreadable"
  <2>1. held.content.length \in Nat /\ MaxConfigBytes \in Nat
    <3>1. held \in Files!File /\ MaxConfigBytes \in Nat
      BY <1>1 DEF FilesInv, OpenedFits, ConfigOpen, Files!FilesAssumption
    <3>. QED  BY <3>1 DEF Files!File, Files!Configuration
  <2>. QED  BY <1>1, <1>2, <2>1
<1>4. step' \in {"unreadable", "read"}
  BY <1>1
<1>. QED
  BY <1>1, <1>3, <1>4 DEF FilesInv, OpenedFits, HomeOpen, ConfigOpen, BeforeRead,
     Files!TypeOK, Files!AcceptedIsSafe, Files!BoundedRead, Files!SavedLoads

\* What is read of a file that an update saved is what the update wrote.
LEMMA FilesRead ==
    ASSUME Files!FilesAssumption
    PROVE  FilesInv /\ Files!Read => FilesInv'
<1>. SUFFICES ASSUME FilesInv, Files!Read PROVE FilesInv'
  OBVIOUS
<1>1. /\ step = "read"
      /\ kept' = IF held.content.length > MaxConfigBytes
                 THEN MaxConfigBytes + 1 ELSE held.content.length
      /\ draft' = held.content
      /\ step' = IF kept' > MaxConfigBytes \/ ~ held.content.sound
                 THEN "unreadable" ELSE IF updates THEN "edit" ELSE "done"
      /\ UNCHANGED <<home, honours, directory, updates, opened, held, attached, saved,
                     meddling>>
  BY DEF Files!Read
<1>2. held \in Files!File /\ MaxConfigBytes \in Nat
  BY <1>1 DEF FilesInv, OpenedFits, ConfigOpen, Files!FilesAssumption
<1>3. held.content \in Files!Configuration(MaxConfigBytes + Spare)
      /\ held.content.length \in Nat
  BY <1>2 DEF Files!File, Files!Configuration
<1>4. /\ kept' \in Nat /\ kept' <= MaxConfigBytes + 1
      /\ step' \in {"edit", "done"} => kept' <= MaxConfigBytes
  <2>1. kept' \in Nat /\ kept' <= MaxConfigBytes + 1
    BY <1>1, <1>2, <1>3
  <2>. QED  BY <1>1, <1>2, <2>1
<1>5. saved => step' # "unreadable"
  <2>. SUFFICES ASSUME saved PROVE step' # "unreadable"
    OBVIOUS
  <2>1. held.content.length <= MaxConfigBytes /\ held.content.sound
    BY <1>1 DEF FilesInv, OpenedFits, HomeOpen, ConfigOpen, Loads
  <2>2. ~ (kept' > MaxConfigBytes)
    BY <1>1, <1>2, <1>3, <2>1
  <2>. QED  BY <1>1, <2>1, <2>2
<1>6. step' \in {"unreadable", "edit", "done"}
  BY <1>1
<1>. QED
  BY <1>1, <1>3, <1>4, <1>5, <1>6 DEF FilesInv, OpenedFits, HomeOpen, ConfigOpen, BeforeRead,
     Files!TypeOK, Files!AcceptedIsSafe, Files!BoundedRead, Files!SavedLoads

LEMMA FilesEdit == FilesInv /\ Files!Edit => FilesInv'
<1>. SUFFICES ASSUME FilesInv, Files!Edit PROVE FilesInv'
  OBVIOUS
<1>1. /\ step = "edit" /\ draft' \in Files!Configuration(MaxConfigBytes + Spare)
      /\ step' \in {"write", "failed"} /\ (step' = "write" => draft'.sound)
      /\ UNCHANGED <<home, honours, directory, updates, opened, held, attached, kept, saved,
                     meddling>>
  BY DEF Files!Edit
<1>. QED
  BY <1>1 DEF FilesInv, OpenedFits, HomeOpen, ConfigOpen, BeforeRead,
     Files!TypeOK, Files!AcceptedIsSafe, Files!BoundedRead, Files!SavedLoads

\* What an update saves, the next command can read.
LEMMA FilesWrite ==
    ASSUME Files!FilesAssumption
    PROVE  FilesInv /\ Files!Write => FilesInv'
<1>. SUFFICES ASSUME FilesInv, Files!Write PROVE FilesInv'
  OBVIOUS
<1>. DEFINE new == Files!Serialized
            file == Files!NewFile(new)
<1>1. /\ step = "write" /\ step' = "done" /\ new.length <= MaxConfigBytes
      /\ directory' = [directory EXCEPT ![opened]["config"] = file]
      /\ saved' = (opened = home)
      /\ UNCHANGED <<home, honours, updates, opened, held, attached, kept, draft, meddling>>
  BY DEF Files!Write, Files!Install, Files!memory
<1>2. /\ directory \in [Directory -> Entry] /\ opened \in Directory
      /\ draft \in Files!Configuration(MaxConfigBytes + Spare) /\ draft.sound
      /\ kept <= MaxConfigBytes
      /\ MaxConfigBytes \in Nat /\ Spare \in Nat
  BY <1>1 DEF FilesInv, Files!TypeOK, Entry, OpenedFits, HomeOpen, Files!BoundedRead,
              Files!FilesAssumption
<1>3. new \in Files!Configuration(MaxConfigBytes + Spare) /\ new.sound
  <2>1. draft.length \in Nat
    BY <1>2 DEF Files!Configuration
  <2>2. new = [draft EXCEPT !.length = draft.length + 1]
    BY DEF Files!Serialized
  <2>3. new.length = draft.length + 1 /\ new.sound = draft.sound
    BY <1>2, <2>2 DEF Files!Configuration
  <2>4. draft.length + 1 \in 1 .. MaxConfigBytes + Spare
    BY <1>1, <1>2, <2>1, <2>3
  <2>. QED  BY <1>2, <2>2, <2>3, <2>4 DEF Files!Configuration
<1>4. Loads(file)
  BY <1>1, <1>3, FilesAre DEF Loads
<1>. HIDE DEF file
<1>5. /\ directory' \in [Directory -> Entry]
      /\ \A e \in Directory : directory'[e].kind = directory[e].kind
                              /\ directory'[e].private = directory[e].private
      /\ directory'[opened].config = file
  <2>1. directory' = Changed(directory, opened, "config", file)
    BY <1>1 DEF Changed
  <2>. QED  BY <1>2, <1>4, <2>1, FileChanges DEF Loads
<1>6. Files!TypeOK'
  <2>1. saved' \in BOOLEAN
    BY <1>1
  <2>. QED  BY <1>1, <1>5, <2>1 DEF FilesInv, Files!TypeOK, Entry
<1>7. saved' => home' \in Directory /\ Loads(directory'[home'].config)
  BY <1>1, <1>2, <1>4, <1>5
<1>8. OpenedFits'
  BY <1>1, <1>7 DEF FilesInv, OpenedFits, HomeOpen, ConfigOpen, BeforeRead
<1>9. Files!AcceptedIsSafe' /\ Files!BoundedRead' /\ Files!SavedLoads'
  BY <1>1, <1>2 DEF FilesInv, Files!AcceptedIsSafe, Files!BoundedRead, Files!SavedLoads
<1>. QED  BY <1>6, <1>8, <1>9 DEF FilesInv

-----------------------------------------------------------------------------
(* The steps of others.                                                    *)

\* Whoever puts something elsewhere in place takes saved back; the directory that
\* is open stays what it is.
LEMMA FilesReplaceHome ==
    ASSUME Files!FilesAssumption
    PROVE  FilesInv /\ Files!ReplaceHome => FilesInv'
<1>. SUFFICES ASSUME FilesInv, Files!ReplaceHome PROVE FilesInv'
  OBVIOUS
<1>1. /\ meddling < MaxMeddling /\ meddling' = meddling + 1 /\ saved' = FALSE
      /\ home' \in Directory \union {"link", None}
      /\ UNCHANGED <<honours, step, updates, opened, held, attached, kept, draft>>
  BY DEF Files!ReplaceHome, Files!Meddle, Files!memory
<1>2. directory \in [Directory -> Entry]
  BY DEF FilesInv, Files!TypeOK, Entry
<1>3. /\ directory' \in [Directory -> Entry]
      /\ opened \in Directory => directory'[opened] = directory[opened]
  <2>1. CASE directory' = directory
    BY <1>2, <2>1
  <2>2. CASE /\ home' \in Directory \ {opened}
             /\ directory' = [directory EXCEPT
                  ![home'] = [Files!OwnDirectory EXCEPT !.kind = "foreign"]]
    <3>1. [Files!OwnDirectory EXCEPT !.kind = "foreign"] \in Entry
      BY FilesAre DEF Entry
    <3>. QED  BY <1>2, <2>2, <3>1
  <2>. QED  BY <2>1, <2>2 DEF Files!ReplaceHome
<1>4. meddling' \in 0 .. MaxMeddling
  BY <1>1 DEF FilesInv, Files!TypeOK, Files!FilesAssumption
<1>5. Files!TypeOK'
  BY <1>1, <1>3, <1>4 DEF FilesInv, Files!TypeOK, Entry
<1>6. OpenedFits'
  BY <1>1, <1>3 DEF FilesInv, OpenedFits, HomeOpen, ConfigOpen
<1>7. Files!AcceptedIsSafe' /\ Files!BoundedRead' /\ Files!SavedLoads'
  BY <1>1, <1>3 DEF FilesInv, OpenedFits, HomeOpen, Files!AcceptedIsSafe,
     Files!BoundedRead, Files!SavedLoads
<1>. QED  BY <1>5, <1>6, <1>7 DEF FilesInv

LEMMA FilesReplaceFile ==
    ASSUME Files!FilesAssumption
    PROVE  FilesInv /\ Files!ReplaceFile => FilesInv'
<1>. SUFFICES ASSUME FilesInv, Files!ReplaceFile PROVE FilesInv'
  OBVIOUS
<1>1. /\ meddling < MaxMeddling /\ meddling' = meddling + 1 /\ saved' = FALSE
      /\ UNCHANGED <<home, honours, step, updates, opened, held, kept, draft>>
  BY DEF Files!ReplaceFile, Files!Meddle, Files!memory
<1>2. PICK d \in Directory, name \in {"lock", "config"}, f \in Files!Strange \union {None} :
         /\ directory' = [directory EXCEPT ![d][name] = f]
         /\ attached' = (attached /\ (d = opened => name # Files!Slot))
  BY DEF Files!ReplaceFile
<1>3. directory \in [Directory -> Entry] /\ attached \in BOOLEAN
  BY DEF FilesInv, Files!TypeOK, Entry
<1>4. /\ directory' \in [Directory -> Entry]
      /\ \A e \in Directory : directory'[e].kind = directory[e].kind
                              /\ directory'[e].private = directory[e].private
      /\ \A e \in Directory : e # d \/ name = "lock" =>
            directory'[e].config = directory[e].config
  <2>1. directory' = Changed(directory, d, name, f)
    BY <1>2 DEF Changed
  <2>2. f \in Files!File \union {None}
    BY <1>2, FilesAre
  <2>3. d \in Directory /\ name \in {"lock", "config"}
    OBVIOUS
  <2>4. /\ Changed(directory, d, name, f) \in [Directory -> Entry]
        /\ \A e \in Directory :
              /\ Changed(directory, d, name, f)[e].kind = directory[e].kind
              /\ Changed(directory, d, name, f)[e].private = directory[e].private
        /\ \A e \in Directory : e # d \/ name = "lock" =>
              Changed(directory, d, name, f)[e].config = directory[e].config
    BY <1>3, <2>2, <2>3, FileChanges
  <2>. QED  BY <2>1, <2>4
<1>5. meddling' \in 0 .. MaxMeddling
  BY <1>1 DEF FilesInv, Files!TypeOK, Files!FilesAssumption
<1>6. Files!TypeOK'
  <2>1. attached' \in BOOLEAN
    BY <1>2
  <2>. QED  BY <1>1, <1>4, <1>5, <2>1 DEF FilesInv, Files!TypeOK, Entry
<1>7. step' \in ConfigOpen /\ attached' => held' = directory'[opened'].config
  <2>. SUFFICES ASSUME step \in ConfigOpen, attached' PROVE held = directory'[opened].config
    BY <1>1
  <2>1. opened \in Directory /\ Files!Slot = "config"
    BY DEF FilesInv, OpenedFits, ConfigOpen, HomeOpen, Files!Slot
  <2>2. attached /\ (d # opened \/ name = "lock")
    BY <1>2, <2>1
  <2>3. held = directory[opened].config
    BY <2>2 DEF FilesInv, OpenedFits
  <2>. QED  BY <1>4, <2>1, <2>2, <2>3
<1>8. OpenedFits'
  BY <1>1, <1>7 DEF FilesInv, OpenedFits
<1>9. Files!AcceptedIsSafe' /\ Files!BoundedRead' /\ Files!SavedLoads'
  BY <1>1, <1>4 DEF FilesInv, OpenedFits, HomeOpen, Files!AcceptedIsSafe,
     Files!BoundedRead, Files!SavedLoads
<1>. QED  BY <1>6, <1>8, <1>9 DEF FilesInv

LEMMA FilesRewrite ==
    ASSUME Files!FilesAssumption
    PROVE  FilesInv /\ Files!Rewrite => FilesInv'
<1>. SUFFICES ASSUME FilesInv, Files!Rewrite PROVE FilesInv'
  OBVIOUS
<1>1. /\ meddling < MaxMeddling /\ meddling' = meddling + 1 /\ saved' = FALSE
      /\ step \in ConfigOpen
      /\ attached => directory' = [directory EXCEPT ![opened]["config"] = held']
      /\ ~ attached => directory' = directory
      /\ UNCHANGED <<home, honours, step, updates, opened, attached, kept, draft>>
  BY DEF Files!Rewrite, Files!Meddle, Files!memory, ConfigOpen
<1>2. PICK c \in Files!Configuration(MaxConfigBytes + Spare) :
         held' = [held EXCEPT !.content = c]
  BY DEF Files!Rewrite
<1>3. directory \in [Directory -> Entry] /\ opened \in Directory /\ held \in Files!File
  BY <1>1 DEF FilesInv, Files!TypeOK, Entry, OpenedFits, HomeOpen, ConfigOpen
<1>4. held' \in Files!File /\ held'.kind = held.kind /\ held'.private = held.private
  BY <1>2, <1>3, FilesAre DEF Files!File
<1>5. /\ directory' \in [Directory -> Entry]
      /\ \A e \in Directory : directory'[e].kind = directory[e].kind
                              /\ directory'[e].private = directory[e].private
      /\ attached => directory'[opened].config = held'
  <2>1. CASE attached
    <3>1. directory' = Changed(directory, opened, "config", held')
      BY <1>1, <2>1 DEF Changed
    <3>. QED  BY <1>3, <1>4, <3>1, FileChanges
  <2>2. CASE ~ attached
    BY <1>1, <1>3, <2>2
  <2>. QED  BY <2>1, <2>2
<1>6. meddling' \in 0 .. MaxMeddling
  BY <1>1 DEF FilesInv, Files!TypeOK, Files!FilesAssumption
<1>7. Files!TypeOK'
  BY <1>1, <1>4, <1>5, <1>6 DEF FilesInv, Files!TypeOK, Entry
<1>8. OpenedFits'
  BY <1>1, <1>4, <1>5 DEF FilesInv, OpenedFits
<1>9. Files!AcceptedIsSafe' /\ Files!BoundedRead' /\ Files!SavedLoads'
  BY <1>1, <1>3, <1>4, <1>5 DEF FilesInv, Files!AcceptedIsSafe, Files!BoundedRead,
     Files!SavedLoads
<1>. QED  BY <1>7, <1>8, <1>9 DEF FilesInv

LEMMA FilesInvariance ==
    ASSUME Files!FilesAssumption
    PROVE  Files!Spec => []FilesInv
<1>1. FilesInv /\ [Files!Command \/ Files!Others]_(Files!vars) => FilesInv'
  <2>1. FilesInv /\ UNCHANGED Files!vars => FilesInv'
    BY DEF Files!vars, Files!memory, FilesInv, OpenedFits, Files!TypeOK,
       Files!AcceptedIsSafe, Files!BoundedRead, Files!SavedLoads
  <2>2. FilesInv /\ Files!SecureOpenRegularFile("secure_lock", "open_config") => FilesInv'
    BY FilesSecure
  <2>3. FilesInv /\ Files!SecureOpenRegularFile("secure_config", "measure") => FilesInv'
    BY FilesSecure
  <2>4. FilesInv /\ Files!Others => FilesInv'
    BY FilesReplaceHome, FilesReplaceFile, FilesRewrite DEF Files!Others
  <2>. QED
    BY <2>1, <2>2, <2>3, <2>4, FilesStart, FilesOpenHome, FilesSecureHome, FilesOpenLock,
       FilesOpenConfiguration, FilesMeasure, FilesRead, FilesEdit, FilesWrite, FilesFail
    DEF Files!Command
<1>. QED  BY FilesBegin, <1>1, PTL DEF Files!Spec

\* Whatever others put in the place of the directory or a file and whenever they
\* do, a command locks, reads and replaces only private files of the user's own in
\* a private directory of the user's own, and keeps no more of one than the limit
\* (secure_open_directory, secure_open_regular_file, read_configuration).
THEOREM FilesAreOwn == Files!Spec => []OnlyOwnFiles
<1>1. Files!FilesAssumption
  BY PartsAssumption
<1>2. FilesInv => OnlyOwnFiles
  BY DEF FilesInv, OnlyOwnFiles, Files!OnlyOwnFiles
<1>. QED  BY <1>1, <1>2, FilesInvariance, PTL

\* What an update saved the next command can read, for any limit and any
\* configuration (write_unlocked and read_configuration).
THEOREM WhatIsSavedLoads == Files!Spec => []SavedLoads
<1>1. Files!FilesAssumption
  BY PartsAssumption
<1>2. FilesInv => SavedLoads
  BY DEF FilesInv, SavedLoads
<1>. QED  BY <1>1, <1>2, FilesInvariance, PTL

\* The state of the processes at the lock and of a command among changing files
\* keeps its type.
THEOREM BothKeepTypes == Spec /\ Files!Spec => []TypesOK
<1>1. Files!FilesAssumption
  BY PartsAssumption
<1>2. FilesInv => Files!TypeOK
  BY DEF FilesInv
<1>3. TypeOK /\ Files!TypeOK => TypesOK
  BY DEF TypesOK
<1>. QED  BY <1>1, <1>2, <1>3, StoreTypes, FilesInvariance, PTL
=============================================================================
