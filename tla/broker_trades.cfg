SPECIFICATION Spec
CONSTANTS
  Instruments = {"eq"}
  RoundTheClock = {}
  Scale = 10
  SlippageBps = 0
  CommissionBps = 1
  MinCommission = 3
  ImpactBps = 5
  Depth = 6
  Lot = 2
  AllowFractional = FALSE
  InitialCapital = 12
  MaxOrders = 4
  MaxTime = 2
  Requests <- TradeRequests
  Seeds <- TradeSeeds
  Quotes <- TradeQuotes
INVARIANTS
  TypeOK
  OrdersReconcile
  SellsCovered
  BooksBalance
  BuysNeverRaise
  RetriesAreOnce
  WholeSharesTrade
PROPERTIES
  KeepsTheOrderBook
  StopsElectedFirst
