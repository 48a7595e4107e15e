CONSTANTS
    Graphs <- MCGraphs
    Functions <- MCFunctions
SPECIFICATION PassSpec
INVARIANTS DefBeforeUse SameDataflow NothingDeadLeft ImportedCompiles
CHECK_DEADLOCK FALSE
