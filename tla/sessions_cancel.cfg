SPECIFICATION Spec
CONSTANTS
  Orders = {1}
  Ask <- OneBuy
  Placing = {}
  Matchers = {m1}
  Cancellers = {c1}
  Capital = 2
  Held = 0
  MaxPasses = 1
PROPERTIES
  TerminalIsFinal
CHECK_DEADLOCK FALSE
