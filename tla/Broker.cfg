SPECIFICATION BFairSpec
CONSTANTS
  LIMIT = 3
  Core = Core
  NoCurrency = NoCurrency
  ATTEMPTS = 3
  PROCESS_TIMEOUT = 1
  QUERIES = 2
  Orders <- MCOrders
  Funds <- MCFunds
INVARIANTS
  BTypeOK
  AnswerIsJustified
  SoldWithinMeans
PROPERTIES
  BrokerReturns
CHECK_DEADLOCK FALSE
