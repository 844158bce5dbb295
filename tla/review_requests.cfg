SPECIFICATION Spec
CONSTANTS
  e1 = e1
  e2 = e2
  r1 = r1
  r2 = r2
  q1 = q1
  q2 = q2
  p1 = p1
  p2 = p2
  p3 = p3
  None = None
  Foreign = Foreign
  Exec <- OneExec
  Request <- TwoRequests
  Gate <- TwoGates
  Post <- ThreePosts
  ExecOf <- SameExec
  TypeOf <- BothCode
  GateOf <- OwnGates
  RequestOf <- FirstTwice
  MaxConcurrent = 1
  MaxHead = 2
  MaxDown = 1
  MaxFaults = 1
INVARIANTS
  TypeOK
  AuthorityIsDelivered
  VerdictsStand
  StampsAreTrue
PROPERTY ImplementsLedger
CHECK_DEADLOCK FALSE
