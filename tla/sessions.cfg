SPECIFICATION FairSpec
CONSTANTS
  Orders = {1, 2, 3, 4}
  Ask <- MixedAsk
  Placing = {3, 4}
  Matchers = {m1}
  Cancellers = {c1}
  Capital = 2
  Held = 2
  MaxPasses = 2
INVARIANTS
  TypeOK
  OrdersMatchFills
  LedgerSettlesFills
  PositionsMatchLots
  PassesNeverRaise
  RetriesAreOnce
PROPERTIES
  SessionsEnd
CHECK_DEADLOCK FALSE
