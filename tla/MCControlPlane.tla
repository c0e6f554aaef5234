---------------------------- MODULE MCControlPlane ----------------------------
(* Small instances of ControlPlane for TLC. *)
EXTENDS ControlPlane, TLC

SafetySymmetry == Permutations(Jobs) \union Permutations(Controllers)
==============================================================================
