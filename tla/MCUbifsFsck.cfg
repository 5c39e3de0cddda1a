CONSTANTS
  Starts <- OrdinaryStarts
  LostFoundInum = 6
  MaxRepeat = 2
SPECIFICATION Spec
INVARIANTS Repaired SecondRunQuiet CutTolerant RegularFilesKept NoErrorsNoChange
CHECK_DEADLOCK FALSE
