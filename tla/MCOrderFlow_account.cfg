SPECIFICATION Spec
CONSTANTS
  o1 = o1
  o2 = o2
  Orders = {o1, o2}
  Book <- MCTwoSides
  Prices <- MCPrices
  InvalidPrice = InvalidPrice
  MAX_MOD_COUNTER = 1
  MAX_MOD_REJ_COUNTER = 0
  MAX_CXL_REJ_COUNTER = 0
  MaxPos = 1
  MaxIds = 2
  MaxDowns = 0
  MaxBreaks = 0
  Reentrant = TRUE
  Unlocked = TRUE
INVARIANT FlowSound
INVARIANT TableHoldsLive
INVARIANT AccountKept
PROPERTY TerminalStable
PROPERTY ImplementsLedger
CHECK_DEADLOCK FALSE
