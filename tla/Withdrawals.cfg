SPECIFICATION WSpec
CONSTANTS
  BLOCK_MAVENS = 4
  Faulty = {0}
  Lies <- MCLies
  Op <- MCOps
  Last = 3
  MaxLost = 1
  MaxFails = 1
INVARIANTS
  WTypeOK
  HeardIsChain
  PaidOnce
CHECK_DEADLOCK FALSE
