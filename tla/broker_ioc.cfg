SPECIFICATION Spec
CONSTANTS
  Instruments = {"eq", "btc"}
  RoundTheClock = {"btc"}
  Scale = 10
  SlippageBps = 0
  CommissionBps = 0
  MinCommission = 0
  ImpactBps = 0
  Depth = 0
  Lot = 1
  AllowFractional = TRUE
  InitialCapital = 6
  MaxOrders = 2
  MaxTime = 1
  Requests <- IocRequests
  Seeds <- NoSeeds
  Quotes <- LimitQuotes
PROPERTIES
  IocExpiresOnlyIfItCannotFill
