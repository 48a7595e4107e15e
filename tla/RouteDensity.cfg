CONSTANTS
    Cols = 2
    Rows = 1
    CoresPerPe = 2
    FifoDepth = 1
    Sources <- MCSources
    Destinations <- MCDestinations
    RouterLatency = 1
    LinkLatency <- MCLinkLatency
    Services <- MCServices
    Waits <- MCWaits
    SyncLatency = 0
    Scale = 6
    Trains <- MCTrains
    MaxTimesteps = 2
SPECIFICATION Spec
INVARIANTS TypeOK DensityAccounting SeesTrafficInFlight
PROPERTIES FreshTimestep
CHECK_DEADLOCK FALSE
