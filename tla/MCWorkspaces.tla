----------------------------- MODULE MCWorkspaces -----------------------------
(* Workspaces for TLC: interchangeable uploads and interchangeable runs.      *)
EXTENDS Workspaces, TLC

Symmetry == Permutations(Upload) \cup Permutations(Run)
=============================================================================
