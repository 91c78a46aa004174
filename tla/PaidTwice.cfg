SPECIFICATION SSpec
CONSTANTS
  BLOCK_MAVENS = 3
  Faulty = {}
  Lies = {}
  Op <- MCOneOp
  Last = 2
  MaxLost = 0
  MaxFails = 0
INVARIANT PaidByOne
CHECK_DEADLOCK FALSE
