SPECIFICATION FairSpec
CONSTANTS
  Instruments = {"eq", "btc"}
  RoundTheClock = {"btc"}
  Scale = 10
  SlippageBps = 1
  CommissionBps = 1
  MinCommission = 0
  ImpactBps = 0
  Depth = 0
  Lot = 1
  AllowFractional = FALSE
  InitialCapital = 12
  MaxOrders = 3
  MaxTime = 2
  Requests <- LimitRequests
  Seeds <- NoSeeds
  Quotes <- LimitQuotes
INVARIANTS
  ReservationsCovered
PROPERTIES
  GrantedBuysFillWhole
  ExpiredOrdersClose
