CONSTANTS
    a = a
    b = b
    i = i
    j = j
    d = d
    NeuronCores <- MCNeuronCores
    InputCores <- MCInputCores
    Direct = d
    SourceFifo = FALSE
    Streaming = TRUE
    MaxEvents = 7
    FinalTimestep = 2
    AxonOut = 1
    SyncLatency = 1
    Inputs <- MCStreams
    NeuronLoops <- MCNeuronLoops
    Transits = {0, 2}
    Blockings = {0}
SPECIFICATION FairSpec
INVARIANTS TypeOK RecordChain
PROPERTIES Terminates
