--------------------------- MODULE MCConfigBundles ---------------------------
(* ConfigBundles for TLC: a few interchangeable uploads of one workspace. *)
EXTENDS ConfigBundles, TLC

Symmetry == Permutations(Upload)
=============================================================================
