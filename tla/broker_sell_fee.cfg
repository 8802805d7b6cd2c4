SPECIFICATION Spec
CONSTANTS
  Instruments = {"eq"}
  RoundTheClock = {}
  Scale = 10
  SlippageBps = 0
  CommissionBps = 1
  MinCommission = 3
  ImpactBps = 5
  Depth = 6
  Lot = 2
  AllowFractional = FALSE
  InitialCapital = 12
  MaxOrders = 3
  MaxTime = 1
  Requests <- TradeRequests
  Seeds <- TradeSeeds
  Quotes <- TradeQuotes
INVARIANTS
  PassNeverRaises
