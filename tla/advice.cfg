SPECIFICATION FairSpec
CONSTANTS
  Symbols = {1, 2, 3}
  Full = 2
  Calm = 2
  Panic = 1
  MaxGross = 12
  MaxPositions = 2
  MinWeight = 1
  Band = 2
  RelativeBand = 4
  TurnoverCap = 16
  MinHold = 3
  TimeStop = 8
  LadderAt = 2
  MaxSymbols = 2
  Always = {1}
  Never = {3}
  Scenes <- MCScenes
  Deliberate = "multi_round_debate"
  Rounds = 2
  Kinds = {"technical"}
  Quick <- MCQuick
  Deep <- MCDeep
  Rungs = 2
  Permits <- OnePermit
  PoolSize = 1
  Said <- MCSaid
  MaxSaid = 2
  MaxCycles = 2
  LastDay = 2
INVARIANTS
  TypeOK
  VetoHolds
  EntriesFitTheBook
  StopsAreHonoured
PROPERTIES
  CyclesEnd
CHECK_DEADLOCK FALSE
