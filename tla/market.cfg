CONSTANTS
  Subscribers = {s1}
  s1 = s1
  QueueSize = 2
  Numbers = 3
  Snapshot = 2
  Instruments = {1}
  Classes <- OneClass
  ClassOf <- AllStock
  Owners = 1
  StaleAfter = 1
  Old = 2
  Discovers = TRUE
SPECIFICATION FairSpec
INVARIANT TypeOK
INVARIANT FeedHasNoGaps
PROPERTY KnownHistoryIsKept
PROPERTY PassesEnd
PROPERTY StreamStops
