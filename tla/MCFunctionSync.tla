---------------------------- MODULE MCFunctionSync ----------------------------
(* Two synchronisations of both functions that may overlap. *)
EXTENDS FunctionSync, TLC

MCFunctions == <<"deep_research", "save_deep_research_to_knowledge">>

\* Two runs of the same command are alike.
SyncSymmetry == Permutations(Syncs)
==============================================================================
