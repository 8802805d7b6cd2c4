CONSTANTS
  Subscribers = {}
  QueueSize = 1
  Numbers = 2
  Snapshot = 0
  Instruments = {1, 2}
  Classes <- TwoClasses
  ClassOf <- OneOfEach
  Owners = 2
  StaleAfter = 2
  Old = 3
  Discovers = TRUE
SPECIFICATION Spec
INVARIANT RefreshRecovers
