SPECIFICATION Spec
CONSTANTS
  Orders = {1}
  Ask <- OneBuy
  Placing = {}
  Matchers = {m1, m2}
  Cancellers = {}
  Capital = 2
  Held = 0
  MaxPasses = 1
INVARIANTS
  NoOrderOverfills
CHECK_DEADLOCK FALSE
