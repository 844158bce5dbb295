SPECIFICATION FairSpec
CONSTANTS
  o1 = o1
  o2 = o2
  a1 = a1
  a2 = a2
  x = x
  y = y
  h1 = h1
  h2 = h2
  s1 = s1
  s2 = s2
  r1 = r1
  r2 = r2
  r3 = r3
  r4 = r4
  r5 = r5
  r6 = r6
  None = None
  OpId <- OneOp
  Base <- OneBase
  Commit <- OneCommit
  Sha <- TwoShas
  MaxBeta = 1
  Run <- TwoRuns
  OpOf <- SameOp
  KindOf <- BothBeta
  CommitOf <- BothCommits
  BaseAt <- SameBase
  Scheduled <- TwoRuns
  Steady <- Rerun
  Rejected <- OneOp
  MaxWithdraws = 0
PROPERTIES
  RerunCompletes
  TombstonesConverge
CHECK_DEADLOCK FALSE
