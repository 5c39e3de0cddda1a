CONSTANTS
  Starts <- SafeStarts
  LostFoundInum = 6
  MaxRepeat = 2
SPECIFICATION Spec
INVARIANTS SafeModeDropsNothing
CHECK_DEADLOCK FALSE
