SPECIFICATION FairSpec
CONSTANTS
  r1 = r1
  r2 = r2
  c1 = c1
  c2 = c2
  c3 = c3
  None = None
  Request <- OneRequest
  Call <- TwoCalls
  RequestOf <- Same
  MutexHeld = TRUE
  MaxBridgeCrashes = 1
  MaxGatewayCrashes = 1
INVARIANTS
  TypeOK
  AdoptRecordIsTrue
  ConsentFirst
PROPERTIES
  RequestsSettle
CHECK_DEADLOCK FALSE
