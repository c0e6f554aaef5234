--------------------------- MODULE MCJobRepository ---------------------------
(* Small instances of JobRepository for TLC. *)
EXTENDS JobRepository, TLC

Symmetry == Permutations(Jobs)
==============================================================================
