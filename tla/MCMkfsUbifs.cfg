SPECIFICATION Spec
CONSTANTS
  Sources <- AllSources
  leb_size = 6
  min_io_size = 2
  fanout = 3
  MaxBadWrite = 3
  log_lebs = 2
  lpt_lebs = 2
  orph_lebs = 1
INVARIANTS
  HoldsSource
  AreasAgree
  IndexWritten
CHECK_DEADLOCK FALSE
