CONSTANTS
    a = a
    b = b
    i = i
    j = j
    d = d
    NeuronCores <- MCNeuronCores
    InputCores <- MCInputCores
    Direct = d
    SourceFifo = TRUE
    Streaming = FALSE
    MaxEvents = 0
    FinalTimestep = 2
    AxonOut = 1
    SyncLatency = 0
    Inputs <- MCInputs
    NeuronLoops <- MCNeuronLoops
    Transits = {0, 2}
    Blockings = {0, 1}
SPECIFICATION Spec
INVARIANTS OneQueuedPerSource NoStrandedPacket OffsetCarried BarrierClean PopsInOrder
PROPERTIES DeliversInOrder
