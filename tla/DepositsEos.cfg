SPECIFICATION DSpec
CONSTANTS
  Address <- MCAddress
  Nowhere = Nowhere
  NoAddress = NoAddress
  Nil = 1
  Listener <- MCMixed
  Request <- MCMixed
  Transfer <- MCPaysMixed
  Kept <- Passing
  Network = "eos"
  First = 7
  Last = 11
  Window = 2
  Lag = 0
  MaxRestarts = 1
  Addresses = 1
  Gateway = "gateway"
  MaxUnspent = 0
  Offerings = {"eos"}
INVARIANTS
  IssuedOnce
PROPERTIES
  KeepsLatestOfAWidth
CHECK_DEADLOCK FALSE
