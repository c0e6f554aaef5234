---------------------------- MODULE MCEventStream ----------------------------
(* Small instances of EventStream for TLC: the constants are model values.  *)
EXTENDS EventStream
==============================================================================
