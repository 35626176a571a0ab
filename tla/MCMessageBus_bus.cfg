SPECIFICATION FairSpec
CONSTANTS
    MaxConns = 2
    NumFds = 1
    MaxQueue = 1
    MaxEvents = 2
INVARIANT MapValid
PROPERTY Reaped
PROPERTY StopReturns
CHECK_DEADLOCK FALSE
