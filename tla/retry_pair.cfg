SPECIFICATION Spec
CONSTANTS
  r1 = r1
  r2 = r2
  c1 = c1
  c2 = c2
  c3 = c3
  None = None
  Request <- TwoRequests
  Call <- ThreeCalls
  RequestOf <- Split
  MutexHeld = FALSE
  MaxBridgeCrashes = 0
  MaxGatewayCrashes = 1
INVARIANTS
  OneRunner
  OneRunAtATime
PROPERTIES
  ImplementsContract
CHECK_DEADLOCK FALSE
SYMMETRY Reposts
