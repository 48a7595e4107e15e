CONSTANTS
    NumLayers = 4
    Neurons = {"a", "b"}
    MultiValued = {1, 2}
    FirstFrame <- NoFirstFrame
    Unused <- MCUnused
    ProcessInactive = FALSE
    CatchUp = TRUE
    Connections <- MCConnections
    Broadcast = {3}
    LocalState <- MCLocalState
    MaxTimesteps = 3
SPECIFICATION Spec
INVARIANTS TypeOK ReadOnTime BiasCaughtUp
PROPERTIES NothingLost
CHECK_DEADLOCK FALSE
