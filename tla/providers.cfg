SPECIFICATION FairSpec
CONSTANTS
  Requests = {"r1", "r2"}
  Wants <- MCWants
  Ranked <- MCRanked
  Available <- MCAvailable
  Paths <- MCPaths
  Built <- MCBuilt
  PerMinute <- MCPerMinute
  PerDay <- MCPerDay
  Slots <- MCSlots
  Minute = 1
  Day = 3
  OpenAfter = 2
  Cooldown = 1
  RetryAfter = {0, 1}
  MaxBackoff = 1
  Rows = 3
  CoreStocks <- MCCore
  CoreEtfs <- MCEtfs
  Commodities <- MCCommodities
  Pegged = {"DAI"}
  MinPrice = 3
  MinTraded <- MCTraded
INVARIANTS
  PermitsHold
  SlotsAreReturned
  FailsOnlyWhenAllFail
PROPERTIES
  RequestsEnd
