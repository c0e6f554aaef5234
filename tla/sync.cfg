\* Two runs that may overlap, or of which the second repeats the first that failed,
\* from any installation and beside one edit.
SPECIFICATION Spec
CONSTANTS
  Functions <- MCFunctions
  Syncs = {s1, s2}
  MaxRuns = 1
  MaxFaults = 1
  MaxEdits = 1
SYMMETRY SyncSymmetry
INVARIANTS
  DoneMeansCurrent
  ConvergesAlone
  UnrelatedKept
\* The runs are bounded.
CHECK_DEADLOCK FALSE
