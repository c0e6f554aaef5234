\* One job, two completion calls, one cleaner.
CONSTANTS
  Jobs = {j1}
  Uploads = {u1, u2}
  Names = {report, notes}
  ArtifactRetention = 2
  JobRetention = 2
  OrphanGrace = 1
  MaxUploadTime = 1
  MaxRequeues = 1
  MaxTime = 4
SPECIFICATION Spec
SYMMETRY Symmetry
INVARIANTS
  ReportKept
  NoDanglingRecord
PROPERTIES
  SweepCollects
  JobOutlivesArtifacts
CHECK_DEADLOCK FALSE
