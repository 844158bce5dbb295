SPECIFICATION Spec
CONSTANTS
  n1 = n1
  n2 = n2
  n3 = n3
  ext = ext
  Node <- MCNode
  External <- MCExternal
  Graphs <- MCGraphs
  MaxConcurrent = 2
INVARIANTS
  TypeOK
  SlotsAccounted
  BlockersReleasedFirst
  NothingRunnableLeft
  RejectsExactlyCycles
PROPERTIES
  RunsOnce
  Returns
  ImplementsSchedule
