\* One turn, three Stops, two faults; the report is then saved twice.
CONSTANTS
  Artifacts = {report, sources}
  Report = report
  Collections = {k1, k2}
  Existing = {k1}
  NoTarget = NoTarget
  MaxStops = 3
  MaxFaults = 2
  MaxSaves = 2
SPECIFICATION Spec
CHECK_DEADLOCK FALSE
INVARIANTS
  StopReachesJob
  AttachAllOrNone
  StatusIsTrue
  SavesAreSound
PROPERTIES
  OnlyStopCancels
  ReportReachesChat
  TurnEnds
