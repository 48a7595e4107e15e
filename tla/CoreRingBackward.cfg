CONSTANTS
    NumLayers = 2
    Neurons = {"a"}
    MultiValued = {2}
    FirstFrame <- NoFirstFrame
    Unused = {}
    ProcessInactive = FALSE
    CatchUp = FALSE
    Connections <- BackwardConnections
    Broadcast = {}
    LocalState <- BackwardLocalState
    MaxTimesteps = 4
SPECIFICATION Spec
INVARIANTS ReadOnTime
CHECK_DEADLOCK FALSE
