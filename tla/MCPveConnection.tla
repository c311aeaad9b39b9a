--------------------------- MODULE MCPveConnection ---------------------------
(* PveConnection for TLC. *)
EXTENDS PveConnection, TLC

\* Saves, token ids and secrets are interchangeable.
Symmetry == Permutations(Save) \cup Permutations(Token) \cup Permutations(Secret)
=============================================================================
