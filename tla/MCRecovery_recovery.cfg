SPECIFICATION RecoverySpec
CONSTANTS
  o1 = o1
  Orders = {o1}
  Book <- MCOneBuy
  Prices <- MCPrices
  InvalidPrice = InvalidPrice
  MAX_MOD_COUNTER = 2
  MAX_MOD_REJ_COUNTER = 1
  MAX_CXL_REJ_COUNTER = 1
  MaxPos = 2
  MaxIds = 2
  MaxDowns = 0
  MaxBreaks = 0
  Reentrant = FALSE
  Unlocked = FALSE
  Tries = 2
  MaxEnds = 1
  MaxQueue = 3
INVARIANT RecoveredExact
INVARIANT AccountRebuilt
INVARIANT LeftOnlyIfRefused
CHECK_DEADLOCK FALSE
