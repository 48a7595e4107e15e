CONSTANTS
    NumLayers = 1
    Neurons = {"a"}
    MultiValued = {}
    FirstFrame <- LateFirstFrame
    Unused = {}
    ProcessInactive = FALSE
    CatchUp = FALSE
    Connections <- SpikingConnections
    Broadcast = {}
    LocalState = {}
    MaxTimesteps = 4
SPECIFICATION Spec
INVARIANTS ReadOnTime
CHECK_DEADLOCK FALSE
