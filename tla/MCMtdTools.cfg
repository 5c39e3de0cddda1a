SPECIFICATION Spec
CONSTANTS
  EbCnt = 4
  Pages = 2
  LebSize = 3
  Jobs <- AllJobs
INVARIANTS
  ImageInPlace
  ReadsBack
  RewritesBlocks
  Formatted
  CountersKept
  Jffs2Images
PROPERTIES
  Terminates
