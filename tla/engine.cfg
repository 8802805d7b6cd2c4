SPECIFICATION FairSpec
CONSTANTS
  Portfolios = {"p1", "p2"}
  Instruments = {"i1"}
  Whole = {"p1", "p2"}
  Managed = {"p1"}
  Callers = {"cron", "request"}
  Matchers = {"job"}
  Process <- TwoProcesses
  Lot = 2
  Top = 2
  LadderPart = 2
  Seeded <- SeededOdd
  BuySizes = {1, 2}
  LimitSides = {"SELL"}
  MaxQty = 3
  MaxOrders = 2
INVARIANTS
  TypeOK
  OneCycleEach
  EntriesDoNotStack
PROPERTIES
  StopsOnlyRise
  TrimsOnce
  BreachesEnd
  OversoldEnds
