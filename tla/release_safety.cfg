SPECIFICATION Spec
CONSTANTS
  o1 = o1
  o2 = o2
  a1 = a1
  a2 = a2
  x = x
  y = y
  h1 = h1
  h2 = h2
  s1 = s1
  s2 = s2
  r1 = r1
  r2 = r2
  r3 = r3
  r4 = r4
  r5 = r5
  r6 = r6
  None = None
  OpId <- ThreeOps
  Base <- OneBase
  Commit <- OneCommit
  Sha <- TwoShas
  MaxBeta = 1
  Run <- FourRuns
  OpOf <- FourOps
  KindOf <- FourKinds
  CommitOf <- FourCommits
  BaseAt <- SameBase
  Scheduled <- Never
  Steady <- Patient
  Rejected <- Candidates
  MaxWithdraws = 0
INVARIANTS
  TypeOK
  VersionsLoseOnlyToPostCheck
  CandidatesLoseOnlyToPostCheck
CHECK_DEADLOCK FALSE
