SPECIFICATION FairSpec
CONSTANTS
  e1 = e1
  e2 = e2
  main = main
  None = None
  Exec <- OneStart
  Role <- OneRole
  RoleOf <- OnlyRole
  LegacyWorktrees = TRUE
  OperatorItems = TRUE
  MaxFaults = 2
  MaxParks = 1
  MaxUnparks = 0
  MaxCrashes = 1
PROPERTIES
  OrphanClaimsConverge
  StartSettles
  RegisteredRunnersTornDown
  ParkConvergesUnlessStranded
CHECK_DEADLOCK FALSE
