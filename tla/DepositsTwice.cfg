SPECIFICATION DSpec
CONSTANTS
  Address <- MCAddress
  Nowhere = Nowhere
  NoAddress = NoAddress
  Nil = 1
  Listener <- MCOne
  Request <- MCOne
  Transfer <- MCPaysOne
  Kept <- Passing
  Network = "ltc"
  First = 1
  Last = 5
  Window = 3
  Lag = 0
  MaxRestarts = 0
  Addresses = 2
  Gateway = "gateway"
  MaxUnspent = 1
  Offerings = {"ltc"}
INVARIANTS
  IssuedIsDeposited
CHECK_DEADLOCK FALSE
