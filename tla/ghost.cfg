SPECIFICATION Spec
CONSTANTS
    DATA_WIDTH = 8
    BYTE = 1
    RAM_SIZE = 5
    Regs <- MCRegs
    RESET_PC <- MCReset
    RstValues <- NoReset
    Programs <- HazardPrograms
    InitGprs <- ZeroGprs
    InitRam <- SomeRam
INVARIANT KilledSlotIsEmpty
