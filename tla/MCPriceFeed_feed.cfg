SPECIFICATION Spec
CONSTANTS
    SIZE = 2
    MaxGap = 5
    Clients = {"strategy", "publisher"}
    PublisherClient = "publisher"
    Connections = {"conn"}
    Channels = {"ch"}
    Instruments <- MCInstruments
    ChannelOf <- MCChannelOf
    Calls <- MCCalls
    Confs <- MCConfs
INVARIANT TradesTold
INVARIANT BookShown
INVARIANT NoLostWakeup
INVARIANT PublishedCurrent
CHECK_DEADLOCK FALSE
