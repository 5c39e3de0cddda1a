CONSTANTS
  Starts <- LinkStarts
  LostFoundInum = 6
  MaxRepeat = 2
SPECIFICATION Spec
INVARIANTS EntriesSearchable
CHECK_DEADLOCK FALSE
