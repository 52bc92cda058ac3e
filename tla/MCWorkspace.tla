----------------------------- MODULE MCWorkspace -----------------------------
(* Two workers, one container for commands, the marker and one file.       *)
EXTENDS Workspace, TLC
Alike == Permutations(Worker)
=============================================================================
