SPECIFICATION BothSpec
CONSTANTS
    DATA_WIDTH = 8
    BYTE = 1
    RAM_SIZE = 5
    Regs <- MCRegs
    RESET_PC = 128
    RstValues = {0}
    Programs <- BothPrograms
    InitGprs <- ZeroGprs
    InitRam <- SomeRam
    BatchModes <- MCBatch
    Steps <- MCSteps
    Forever = 9
    BreakAt <- MCBreaks
    WatchAt <- MCWatches
    WatchRegs <- MCWatchRegs
    Counts <- MCCounts
INVARIANTS
    BreakBeforeExecute
    
PROPERTIES
    WatchBeforeWrite
    RegWatchBeforeWrite
    BoardImplementsIsa
    LoadsInPairs
\* main() returns after q.
CHECK_DEADLOCK FALSE
