SPECIFICATION Spec
CONSTANTS
  Volumes <- MCVolumes
  leb_size = 4
  min_io_size = 2
  fanout = 2
  MaxRuns = 3
INVARIANTS
  RebuiltExactly
  MasterConsistent
  LaterRunsAgree
CHECK_DEADLOCK FALSE
