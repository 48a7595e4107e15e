CONSTANTS
    Cols = 2
    Rows = 2
    CoresPerPe = 1
    FifoNum = 1
    FifoDepth = 1
    Sources <- MCSources
    Destinations <- MCDestinations
    RouterLatency = 1
    LinkLatency <- MCLinkLatency
    LinkBusy = 2
    Services <- MCServices
    SramLatencies <- MCSramLatencies
    NeuronServices <- MCNeuronServices
    SyncLatency = 0
    MaxSimTime = 1000
    Delays <- MCDelays
    SendSpread = 2
    MaxBacklog = 8
    MaxTimesteps = 2
SPECIFICATION Spec
INVARIANTS TypeOK ServiceAccounting
PROPERTIES NetworkDrained Implements
CHECK_DEADLOCK FALSE
