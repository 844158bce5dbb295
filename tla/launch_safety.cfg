SPECIFICATION Spec
CONSTANTS
  e1 = e1
  e2 = e2
  main = main
  None = None
  Exec <- TwoStarts
  Role <- OneRole
  RoleOf <- SameRole
  LegacyWorktrees = FALSE
  OperatorItems = TRUE
  MaxFaults = 0
  MaxParks = 2
  MaxUnparks = 1
  MaxCrashes = 0
SYMMETRY Executions
INVARIANTS
  TypeOK
  ActiveIsDurable
  CompleteHasNoOpenClaims
  InflightIsLive
PROPERTIES
  NoCommitUnderTombstone
CHECK_DEADLOCK FALSE
