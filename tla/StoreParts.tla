----------------------------- MODULE StoreParts -----------------------------
(* The files of the profiles: what processes do to them at the same time,   *)
(* and what one command after another finds in their place.  Each has       *)
(* variables of its own; the two are put side by side to be checked in one  *)
(* run and proved in one module.                                            *)
EXTENDS ProfileStore

CONSTANTS MaxConfigBytes, Spare, MaxMeddling, Directory \* of ConfigFiles

VARIABLES
    home, honours, directory, step, updates, opened, held, attached, kept, draft, saved,
    meddling

Files == INSTANCE ConfigFiles WITH pc <- step

ASSUME PartsAssumption == Files!FilesAssumption

\* The state of each part has its type.
TypesOK == TypeOK /\ Files!TypeOK

\* ConfigFiles: a command works on private files of the user's own.
OnlyOwnFiles == Files!OnlyOwnFiles

\* ConfigFiles: what was saved is read again.
SavedLoads == Files!SavedLoads
=============================================================================
