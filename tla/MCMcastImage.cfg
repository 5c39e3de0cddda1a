SPECIFICATION Spec
CONSTANTS
  Instances <- MCInstances
  PKT_SIZE = 2
  WBUF_SIZE = 3
  MaxErrors = 2
INVARIANTS
  HeldExactly
  ImageWritten
PROPERTY
  ReceptionEnds
CHECK_DEADLOCK FALSE
