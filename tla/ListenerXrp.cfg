SPECIFICATION LSpec
CONSTANTS
  gate = gate
  client = client
  Address <- MCAddress
  Nowhere = Nowhere
  Nil = 1
  Listener <- MCListeners
  Transfer <- MCTransfers
  Kept <- Passing
  Network = "xrp"
  First = 1
  Last = 5
  Window = 3
  Lag = 1
  MaxRestarts = 1
INVARIANTS
  PTypeOK
  DocIsRecentRun
  DocIsFaithful
  LTypeOK
  AtMostOnce
  OnlyConfirmed
  NothingSkipped
CHECK_DEADLOCK FALSE
