SPECIFICATION Spec
CONSTANTS
  Fanout = 2
  Geometries <- EmptyVal
  Vals <- ValsVal
  EmptyCommits = TRUE
INVARIANT
  DirtyNodesWritten
