SPECIFICATION FairSpec
CONSTANTS
  e1 = e1
  e2 = e2
  r1 = r1
  r2 = r2
  q1 = q1
  q2 = q2
  p1 = p1
  p2 = p2
  p3 = p3
  None = None
  Foreign = Foreign
  Exec <- TwoExecs
  Request <- TwoRequests
  Gate <- TwoGates
  Post <- TwoPosts
  ExecOf <- ExecEach
  TypeOf <- CodeAndDesign
  GateOf <- OwnGates
  RequestOf <- OnceEach
  MaxConcurrent = 1
  MaxHead = 1
  MaxDown = 1
  MaxFaults = 0
INVARIANTS
  ReviewersBounded
PROPERTIES
  JobsSettle
  VerdictsArrive
CHECK_DEADLOCK FALSE
