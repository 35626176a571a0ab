SPECIFICATION Spec
CONSTANTS
  Configs <- MCConfigs
  Lookbacks = {0, 1}
  Quotes <- MCQuotes
  Logs <- MCLogs
  Junk <- MCJunk
  BarLength = 60
  MaxCache = 2
  Batch = 2
  MaxQueue = 4
INVARIANT BarsAndPatterns
INVARIANT SavedLatest
INVARIANT ShownPartition
CHECK_DEADLOCK FALSE
