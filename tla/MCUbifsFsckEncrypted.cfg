CONSTANTS
  Starts <- EncryptedStarts
  LostFoundInum = 6
  MaxRepeat = 2
SPECIFICATION Spec
INVARIANTS EncryptedHaveContext
CHECK_DEADLOCK FALSE
