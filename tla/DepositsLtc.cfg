SPECIFICATION DSpec
CONSTANTS
  Address <- MCAddress
  Nowhere = Nowhere
  NoAddress = NoAddress
  Nil = 1
  Listener <- MCTwo
  Request <- MCTwo
  Transfer <- MCPaysIngot
  Kept <- Passing
  Network = "ltc"
  First = 1
  Last = 4
  Window = 2
  Lag = 0
  MaxRestarts = 1
  Addresses = 1
  Gateway = "gateway"
  MaxUnspent = 1
  Offerings = {"ltc"}
INVARIANTS
  ATypeOK
  UniqueUnlessRaced
  ListMatchesUnlessRaced
  CreditedToPayer
PROPERTIES
  PoolUntilRaced
CHECK_DEADLOCK FALSE
