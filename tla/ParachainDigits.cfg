SPECIFICATION PSpec
CONSTANTS
  t1 = t1
  t2 = t2
  Transfer <- MCTransfer
  Kept <- MCKept
  Network = "ltc"
  First = 8
  Last = 11
  Window = 2
  Lag = 1
  MaxRestarts = 1
PROPERTIES
  WindowKeepsLatest
CHECK_DEADLOCK FALSE
