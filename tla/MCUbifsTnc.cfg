SPECIFICATION Spec
CONSTANTS
  Fanout = 3
  Slots = 3
  Images <- AllImages
  Hash <- MCHash
  MaxCuts = 1
INVARIANTS LooksUpExactly NothingLost CommitHarmless IndexSound
CHECK_DEADLOCK FALSE
