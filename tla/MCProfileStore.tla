--------------------------- MODULE MCProfileStore ---------------------------
(* Four processes over the files of the store, three on Windows, and        *)
(* one after another over what may stand in place of the files, for TLC.    *)
(* The two share no state: an initial state is one of one of them, and the  *)
(* other does not run.                                                      *)
EXTENDS StoreParts, TLC

CONSTANTS p1, p2, p3, p4, d1, d2

Processes == {p1, p2, p3, p4}
TwoDirectories == {d1, d2}

Symmetry == Permutations(Processes) \cup Permutations(TwoDirectories)

VARIABLE part \* which of the two runs

store == vars
files == <<home, honours, directory, step, updates, opened, held, attached, kept, draft,
           saved, meddling>>

StoreRests == Init /\ ~ windows

FilesRest ==
    /\ Files!Init
    /\ home = None /\ honours
    /\ directory = [d \in TwoDirectories |-> [Files!OwnDirectory EXCEPT !.private = TRUE]]

BothInit ==
    \/ part = "store" /\ Init /\ FilesRest
    \/ part = "files" /\ Files!Init /\ StoreRests

\* The steps of the fallback are many: one of the four does not start there.
ThreeOnWindows == windows => \E p \in Process : pc[p] = "idle"

BothNext ==
    \/ part = "store" /\ Next /\ ThreeOnWindows' /\ UNCHANGED <<part, files>>
    \/ part = "files" /\ Files!Command /\ UNCHANGED <<part, store>>
    \/ part = "files" /\ Files!Others /\ UNCHANGED <<part, store>>

BothSpec == BothInit /\ [][BothNext]_<<part, store, files>>
=============================================================================
