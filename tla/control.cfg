SPECIFICATION FairSpec
CONSTANTS
    DATA_WIDTH = 8
    BYTE = 1
    RAM_SIZE = 5
    Regs <- MCRegs
    RESET_PC <- MCReset
    RstValues <- NoReset
    Programs <- ControlPrograms
    InitGprs <- ZeroGprs
    InitRam <- SomeRam
INVARIANTS
    FlushedFrontEnd
PROPERTIES
    OrderKept
    ImplementsIsa
    Progress
