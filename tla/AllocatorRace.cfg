SPECIFICATION ASpec
CONSTANTS
  r1 = r1
  r2 = r2
  Request <- MCRequests
  Addresses = 2
  NoAddress = NoAddress
INVARIANTS
  UniqueLease
CHECK_DEADLOCK FALSE
