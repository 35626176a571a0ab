SPECIFICATION Spec
CONSTANTS
  Orders = {o1, o2, o3, o4}
  Cert = {o3, o4}
  Prices = {1, 2}
  Requests <- MCRequests
  Quotes <- MCQuotes
  PercentFront = 50
  Limits <- MCLimits
  MaxReqs = 2
  MaxQuotes = 2
INVARIANT MatcherExact
PROPERTY FirstInQueue
PROPERTY QuoteShown
CHECK_DEADLOCK FALSE
SYMMETRY Interchangeable
