----------------------------- MODULE ConfigFiles -----------------------------
(***************************************************************************)
(* What ProfileStore accepts on Unix: the directory, the lock file and     *)
(* profiles.json may be anything when a command starts, and a user, an     *)
(* editor or a backup tool may put something else in their place at any    *)
(* moment.  One command runs at a time; ProfileStore has the lock and the  *)
(* steps of the replacement.                                               *)
(*                                                                         *)
(* A file is kept with what the checks tell apart; "shared" is one with    *)
(* other hard links.  A configuration is its length and whether            *)
(* serde_json and normalize_and_validate accept it.                        *)
(***************************************************************************)
EXTENDS Naturals

CONSTANTS
    MaxConfigBytes,
    Spare,         \* bytes a file may have beyond the limit
    MaxMeddling,   \* bound: changes other programs make
    Directory, None

FilesAssumption ==
    /\ MaxConfigBytes \in Nat \ {0}
    /\ Spare \in Nat \ {0}
    /\ MaxMeddling \in Nat
    /\ None \notin Directory

VARIABLES
    home,        \* the directory the path leads to, "link" or None
    honours,     \* does the file system keep the permissions it is given?
    directory,   \* what is in each directory, and whose it is
    pc, updates,
    opened,      \* the directory descriptor
    held,        \* the last file opened
    attached,    \* is it still what its name leads to?
    kept,        \* bytes read of the configuration
    draft,       \* the configuration in memory
    saved,       \* history: profiles.json is as the last update left it
    meddling

vars == <<home, honours, directory, pc, updates, opened, held, attached,
          kept, draft, saved, meddling>>

memory == <<kept, draft>>

-----------------------------------------------------------------------------
Configuration(longest) == [length: 1..longest, sound: BOOLEAN]

\* What ProfileConfig::default is: no profiles.
Default == [length |-> 1, sound |-> TRUE]

Kinds == {"own", "shared", "foreign", "directory", "link"}
File == [kind: Kinds, private: BOOLEAN, content: Configuration(MaxConfigBytes + Spare)]

NewFile(content) == [kind |-> "own", private |-> TRUE, content |-> content]

Strange == [kind: Kinds, private: {FALSE}, content: {Default}]

OwnDirectory == [kind |-> "own", private |-> FALSE, lock |-> None, config |-> None]

\* The file of the name the command is about to open, or has open.
Slot == IF pc \in {"open_lock", "secure_lock"} THEN "lock" ELSE "config"

\* At most one thing is out of order at the start, besides permissions.
Init ==
    /\ \E private \in BOOLEAN,
          start \in {[OwnDirectory EXCEPT !.kind = kind] : kind \in {"own", "foreign"}}
                    \union {[OwnDirectory EXCEPT !.lock = f] : f \in Strange}
                    \union {[OwnDirectory EXCEPT !.config = f] : f \in File} :
         directory = [d \in Directory |-> [start EXCEPT !.private = private]]
    /\ home \in Directory \union {"link", None}
    /\ honours \in BOOLEAN
    /\ pc = "idle"
    /\ updates = FALSE
    /\ opened = None
    /\ held = None
    /\ attached = FALSE
    /\ kept = 0
    /\ draft = Default
    /\ saved = FALSE
    /\ meddling = 0

-----------------------------------------------------------------------------
\* Any call may fail, and an operation may refuse.
Fail ==
    /\ pc \notin {"idle", "done", "failed", "unreadable"}
    /\ pc' = "failed"
    /\ UNCHANGED <<home, honours, directory, updates, opened, held, attached,
                   memory, saved, meddling>>

\* create_dir_all follows a link, so it makes a directory only where none is.
Begin ==
    /\ pc \in {"idle", "done", "failed", "unreadable"}
    /\ pc' = "open_home"
    /\ updates' \in BOOLEAN
    /\ IF home = None
       THEN \E d \in Directory :
              /\ home' = d
              /\ directory' = [directory EXCEPT ![d] = OwnDirectory]
              /\ saved' = FALSE
       ELSE UNCHANGED <<home, directory, saved>>
    /\ opened' = None
    /\ held' = None
    /\ attached' = FALSE
    /\ kept' = 0
    /\ draft' = Default
    /\ UNCHANGED <<honours, meddling>>

\* open_and_secure_home: O_DIRECTORY and O_NOFOLLOW.
OpenHome ==
    /\ pc = "open_home"
    /\ home \in Directory
    /\ opened' = home
    /\ pc' = "secure_home"
    /\ UNCHANGED <<home, honours, directory, updates, held, attached, memory,
                   saved, meddling>>

SecureOpenDirectory ==
    /\ pc = "secure_home"
    /\ directory[opened].kind = "own"
    /\ directory' = [directory EXCEPT ![opened].private = @ \/ honours]
    /\ pc' = IF directory'[opened].private THEN "open_lock" ELSE "failed"
    /\ UNCHANGED <<home, honours, updates, opened, held, attached, memory,
                   saved, meddling>>

\* A file system may give a new file permissions of its own.
OpenLock ==
    /\ pc = "open_lock"
    /\ LET entry == directory[opened].lock IN
         /\ (entry # None) => (entry.kind \notin {"link", "directory"})
         /\ IF entry = None
            THEN \E private \in {TRUE, honours} :
                   held' = [NewFile(Default) EXCEPT !.private = private]
            ELSE held' = entry
    /\ directory' = [directory EXCEPT ![opened].lock = held']
    /\ attached' = TRUE
    /\ pc' = "secure_lock"
    /\ UNCHANGED <<home, honours, updates, opened, memory, saved, meddling>>

\* Deviations that the checked properties must notice stand just before the
\* definition each of them replaces, and are used nowhere else.
SecureByName(from, to) ==
    /\ pc = from
    /\ directory[opened][Slot] # None
    /\ directory[opened][Slot].kind = "own"
    /\ held' = [held EXCEPT !.private = @ \/ honours]
    /\ directory' = IF attached
                    THEN [directory EXCEPT ![opened][Slot] = held']
                    ELSE directory
    /\ pc' = IF held'.private THEN to ELSE "failed"
    /\ UNCHANGED <<home, honours, updates, opened, attached, memory, saved, meddling>>

\* secure_open_regular_file: what the descriptor is decides, before the
\* permissions change and again after.
SecureOpenRegularFile(from, to) ==
    /\ pc = from
    /\ held.kind = "own"
    /\ held' = [held EXCEPT !.private = @ \/ honours]
    /\ directory' = IF attached
                    THEN [directory EXCEPT ![opened][Slot] = held']
                    ELSE directory
    /\ pc' = IF held'.private THEN to ELSE "failed"
    /\ UNCHANGED <<home, honours, updates, opened, attached, memory, saved, meddling>>

\* No file is an empty configuration; a link is not followed.
OpenConfiguration ==
    /\ pc = "open_config"
    /\ LET entry == directory[opened].config IN
         IF entry = None
         THEN /\ pc' = IF updates THEN "edit" ELSE "done"
              /\ UNCHANGED <<held, attached>>
         ELSE /\ entry.kind # "link"
              /\ held' = entry
              /\ attached' = TRUE
              /\ pc' = "secure_config"
    /\ UNCHANGED <<home, honours, directory, updates, opened, memory, saved, meddling>>

Measure ==
    /\ pc = "measure"
    /\ pc' = IF held.content.length > MaxConfigBytes THEN "unreadable" ELSE "read"
    /\ UNCHANGED <<home, honours, directory, updates, opened, held, attached,
                   memory, saved, meddling>>

\* The rest of read_configuration: the file may have grown since.
Read ==
    /\ pc = "read"
    /\ kept' = IF held.content.length > MaxConfigBytes
               THEN MaxConfigBytes + 1
               ELSE held.content.length
    /\ draft' = held.content
    /\ pc' = IF kept' > MaxConfigBytes \/ ~held.content.sound
             THEN "unreadable"
             ELSE IF updates THEN "edit" ELSE "done"
    /\ UNCHANGED <<home, honours, directory, updates, opened, held, attached,
                   saved, meddling>>

EditUnchecked ==
    /\ pc = "edit"
    /\ draft' \in Configuration(MaxConfigBytes + Spare)
    /\ pc' = "write"
    /\ UNCHANGED <<home, honours, directory, updates, opened, held, attached,
                   kept, saved, meddling>>

\* The operation, of which this module knows nothing, and normalize_and_validate.
Edit ==
    /\ pc = "edit"
    /\ draft' \in Configuration(MaxConfigBytes + Spare)
    /\ pc' = IF draft'.sound THEN "write" ELSE "failed"
    /\ UNCHANGED <<home, honours, directory, updates, opened, held, attached,
                   kept, saved, meddling>>

\* What to_vec_pretty makes of it and a newline.
Serialized == [draft EXCEPT !.length = @ + 1]

Install(d, content) ==
    /\ directory' = [directory EXCEPT ![d].config = NewFile(content)]
    /\ pc' = "done"
    /\ saved' = (d = home)
    /\ UNCHANGED <<home, honours, updates, opened, held, attached, memory, meddling>>

\* write_unlocked: the new file is made, secured and renamed through the
\* descriptor of the directory; a rename does not replace a directory.
Write ==
    /\ pc = "write"
    /\ Serialized.length <= MaxConfigBytes
    /\ (directory[opened].config # None) =>
         (directory[opened].config.kind # "directory")
    /\ Install(opened, Serialized)

-----------------------------------------------------------------------------
(* Other programs.                                                         *)

Meddle ==
    /\ meddling < MaxMeddling
    /\ meddling' = meddling + 1
    /\ saved' = FALSE
    /\ UNCHANGED <<honours, pc, updates, opened, memory>>

\* The path leads elsewhere; what is there may be someone else's.
ReplaceHome ==
    /\ Meddle
    /\ home' \in (Directory \union {"link", None}) \ {home}
    /\ \/ UNCHANGED directory
       \/ /\ home' \in Directory \ {opened}
          /\ directory' = [directory EXCEPT
               ![home'] = [OwnDirectory EXCEPT !.kind = "foreign"]]
    /\ UNCHANGED <<held, attached>>

ReplaceFile ==
    /\ Meddle
    /\ \E d \in Directory, name \in {"lock", "config"}, f \in Strange \union {None} :
         /\ directory' = [directory EXCEPT ![d][name] = f]
         /\ attached' = (attached /\ (d = opened => name # Slot))
    /\ UNCHANGED <<home, held>>

\* An editor writes to the file the command has open.
Rewrite ==
    /\ Meddle
    /\ pc \in {"secure_config", "measure", "read"}
    /\ held' \in {[held EXCEPT !.content = c] : c \in Configuration(MaxConfigBytes + Spare)}
    /\ directory' = IF attached
                    THEN [directory EXCEPT ![opened].config = held']
                    ELSE directory
    /\ UNCHANGED <<home, attached>>

-----------------------------------------------------------------------------
Command ==
    \/ Begin
    \/ OpenHome
    \/ SecureOpenDirectory
    \/ OpenLock
    \/ SecureOpenRegularFile("secure_lock", "open_config")
    \/ OpenConfiguration
    \/ SecureOpenRegularFile("secure_config", "measure")
    \/ Measure
    \/ Read
    \/ Edit
    \/ Write
    \/ Fail

Others == ReplaceHome \/ ReplaceFile \/ Rewrite

Spec == Init /\ [][Command \/ Others]_vars

-----------------------------------------------------------------------------
\* Every variable has its type.
TypeOK ==
    /\ home \in Directory \union {"link", None}
    /\ directory \in [Directory -> [kind: {"own", "foreign"}, private: BOOLEAN,
                                    lock: File \union {None},
                                    config: File \union {None}]]
    /\ {honours, updates, attached, saved} \subseteq BOOLEAN
    /\ pc \in {"idle", "open_home", "secure_home", "open_lock", "secure_lock",
               "open_config", "secure_config", "measure", "read", "edit",
               "write", "done", "failed", "unreadable"}
    /\ opened \in Directory \union {None}
    /\ held \in File \union {None}
    /\ kept \in Nat
    /\ draft \in Configuration(MaxConfigBytes + Spare)
    /\ meddling \in 0..MaxMeddling

\* What a command locks, reads or replaces is in a private directory of the
\* user's, and is a private file of the user's with no other name, whatever was
\* put in its place after it was opened and on any file system
\* (secure_open_directory, secure_open_regular_file).
AcceptedIsSafe ==
    /\ pc \in {"open_lock", "secure_lock", "open_config", "secure_config",
               "measure", "read", "edit", "write"} =>
         /\ directory[opened].kind = "own"
         /\ directory[opened].private
    /\ pc \in {"open_config", "measure", "read"} =>
         /\ held.kind = "own"
         /\ held.private

\* What an update saved, the next command reads: no change is stored that
\* makes every later command fail (the limit of write_unlocked counts the
\* newline that read_configuration counts, and both validate).
SavedLoads == (pc = "unreadable") => ~saved

\* However a file grows while it is read, at most one byte above the limit is
\* kept in memory, and none of it is used then.
BoundedRead ==
    /\ kept <= MaxConfigBytes + 1
    /\ (pc \in {"edit", "write", "done"}) => (kept <= MaxConfigBytes)

\* Whatever others put in the way, a command works on private files of the
\* user's own, and on no more of them than the limit.
OnlyOwnFiles == AcceptedIsSafe /\ BoundedRead
=============================================================================
