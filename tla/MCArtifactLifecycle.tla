-------------------------- MODULE MCArtifactLifecycle --------------------------
(* Small instances of ArtifactLifecycle for TLC. *)
EXTENDS ArtifactLifecycle, TLC

Symmetry == Permutations(Uploads) \union Permutations(Names)
==============================================================================
