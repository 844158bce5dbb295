SPECIFICATION Spec
CONSTANTS
  o1 = o1
  o2 = o2
  a1 = a1
  a2 = a2
  x = x
  y = y
  h1 = h1
  h2 = h2
  s1 = s1
  s2 = s2
  r1 = r1
  r2 = r2
  r3 = r3
  r4 = r4
  r5 = r5
  r6 = r6
  None = None
  OpId <- AllOps
  Base <- TwoBases
  Commit <- TwoCommits
  Sha <- OneSha
  MaxBeta = 1
  Run <- SixRuns
  OpOf <- SixOps
  KindOf <- SixKinds
  CommitOf <- SixCommits
  BaseAt <- BaseOf
  Scheduled <- Never
  Steady <- SixRuns
  Rejected <- Never
  MaxWithdraws = 2
PROPERTIES
  ExpiresAfterTenure
  ImplementsCatalog
ACTION_CONSTRAINT OneRunAtATime
CHECK_DEADLOCK FALSE
