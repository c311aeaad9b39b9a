--------------------------- MODULE MCTerraformRuns ---------------------------
(* TerraformRuns for TLC: small sets of runs and workers.                     *)
EXTENDS TerraformRuns, TLC
=============================================================================
