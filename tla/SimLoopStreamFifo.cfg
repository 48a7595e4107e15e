CONSTANTS
    a = a
    b = b
    i = i
    j = j
    d = d
    NeuronCores <- MCNeuronCores
    InputCores <- MCTwoInputCores
    Direct = d
    SourceFifo = TRUE
    Streaming = TRUE
    MaxEvents = 0
    FinalTimestep = 2
    AxonOut = 1
    SyncLatency = 1
    Inputs <- MCTwoLayerStreams
    NeuronLoops <- MCNeuronLoops
    Transits = {0, 2}
    Blockings = {0, 1}
SPECIFICATION Spec
INVARIANT OneQueuedPerSource
