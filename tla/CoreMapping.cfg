CONSTANTS
    Dims <- MCDims
    Capacity = 3
    Programs <- MCPrograms
    Hardware <- MCHardware
    Symbols <- MCSymbols
    InputSize = 2
    Kinds <- MCKinds
    AlignedKinds <- MCAligned
SPECIFICATION Spec
INVARIANTS TypeOK LoadWithinCapacity NoTwoSlackCores SlicesTile EdgesCarryData ReturnsWhole
CHECK_DEADLOCK FALSE
