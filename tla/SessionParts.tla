---------------------------- MODULE SessionParts ----------------------------
(* Sessions of OpenSSH clients, and the search of processes for the         *)
(* directory of the connections they share.  Each has variables of its own; *)
(* the two are put side by side to be checked in one run and proved in one  *)
(* module.                                                                  *)
EXTENDS SshSession

CONSTANTS Process, MaxStarts, None \* of ControlDirectory

VARIABLES candidates, entry, probes, step, at, asks, probed, control, alone, starts, trouble

Sharing == INSTANCE ControlDirectory WITH
    place <- candidates, pc <- step, asked <- asks, warned <- alone

ASSUME PartsAssumption == Sharing!DirectoryAssumption

\* ControlDirectory: connections are shared among processes of one user.
SharedAmongOwn == Sharing!SharedAmongOwn
=============================================================================
