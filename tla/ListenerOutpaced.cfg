SPECIFICATION LFairSpec
CONSTANTS
  gate = gate
  client = client
  Address <- MCAddress
  Nowhere = Nowhere
  Nil = 1
  Listener <- MCDeposit
  Transfer <- MCPayments
  Kept <- Passing
  Network = "xrp"
  First = 1
  Last = 6
  Window = 2
  Lag = 1
  MaxRestarts = 1
PROPERTIES
  MissingIsOutpaced
  DocCatchesUp
  DetectedOrGone
CHECK_DEADLOCK FALSE
