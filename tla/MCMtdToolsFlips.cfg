SPECIFICATION Spec
CONSTANTS
  EbCnt = 4
  Pages = 2
  LebSize = 3
  Jobs <- FlipJobs
INVARIANTS
  IndicatedBitsFlipped
