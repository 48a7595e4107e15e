CONSTANTS
    Cols = 3
    Rows = 1
    CoresPerPe = 2
    FifoNum = 1
    FifoDepth = 1
    Sources <- MCSources
    Destinations <- MCDestinations
    Delays <- MCDelays
    Services <- MCServices
    SramLatencies <- MCSramLatencies
    NeuronServices <- MCNeuronServices
    SyncLatency = 1
    SendSpread = 1
    MaxBacklog = 4
    MaxTimesteps = 2
SPECIFICATION Spec
INVARIANTS TypeOK NoFault RingBound ReleaseOrder
PROPERTIES BarrierDrains
CHECK_DEADLOCK FALSE
