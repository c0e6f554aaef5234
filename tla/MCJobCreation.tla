---------------------------- MODULE MCJobCreation ----------------------------
(* Small instances of JobCreation for TLC: the constants are model values.  *)
EXTENDS JobCreation
==============================================================================
