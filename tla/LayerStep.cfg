CONSTANTS
    Configurations <- MCConfigurations
    FinalTimestep = 3
    Transient = 2
SPECIFICATION Spec
INVARIANTS ArrivesWhole ProductMaintained ChargeConserved TraceNamesNeuron
CHECK_DEADLOCK FALSE
