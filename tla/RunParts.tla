------------------------------ MODULE RunParts ------------------------------
(* hb ssh run: what its selectors select, and the run of the environments   *)
(* that were selected.  Each has variables of its own; the two are put side *)
(* by side to be checked in one run and proved in one module.               *)
EXTENDS SshRun

CONSTANTS Responses, Requests \* of Selection

VARIABLES selecting, request, response, catalog, result, previous

Selecting == INSTANCE Selection WITH phase <- selecting

ASSUME PartsAssumption == Selecting!RequestAssumption

\* Selection: what is selected is what the command line names.
SelectionIsExact == Selecting!SelectionIsExact
=============================================================================
