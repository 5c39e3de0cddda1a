SPECIFICATION Spec
CONSTANTS
  Fanout = 2
  Geometries <- GeometriesVal
  Vals <- ValsVal
  EmptyCommits = FALSE
INVARIANTS
  NeverOutOfSpace
  LptAgrees
PROPERTIES
  IsDurableTable
