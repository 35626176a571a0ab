SPECIFICATION FairSpec
CONSTANTS
  o1 = o1
  o2 = o2
  Orders = {o1}
  Book <- MCOneBuy
  Prices <- MCPrices
  InvalidPrice = InvalidPrice
  MAX_MOD_COUNTER = 2
  MAX_MOD_REJ_COUNTER = 1
  MAX_CXL_REJ_COUNTER = 1
  MaxPos = 2
  MaxIds = 3
  MaxDowns = 1
  MaxBreaks = 1
  Reentrant = FALSE
  Unlocked = FALSE
INVARIANT TypeOK
INVARIANT BookedExact
INVARIANT RequestsSettle
PROPERTY AckServesDelayed
PROPERTY CancelsServed
CHECK_DEADLOCK FALSE
