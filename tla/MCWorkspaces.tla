---------------------------- MODULE MCWorkspaces ----------------------------
(* Instance of Workspaces for TLC.                                         *)
EXTENDS Workspaces

Symmetry == Permutations(Window)
=============================================================================
