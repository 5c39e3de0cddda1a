SPECIFICATION Spec
CONSTANTS
  Slots = 3
  MaxVer = 6
INVARIANTS
  Recoverable
  NoOverwrite
  JournalNeedsDirty
PROPERTIES
  IsDurableCell
