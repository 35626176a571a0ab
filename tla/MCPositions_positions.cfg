SPECIFICATION Spec
CONSTANTS
  Configs <- MCConfigs
  Strategies = {"a", "b"}
  Instruments = {"i", "j"}
  Own = "a"
  Instr = "i"
  Unit = 5040
INVARIANT TrackersExact
INVARIANT PnLExact
PROPERTY RiskComesDown
CHECK_DEADLOCK FALSE
