SPECIFICATION MCSpec
CONSTANTS
    DATA_WIDTH = 8
    BYTE = 1
    RAM_SIZE = 5
    Regs <- MCRegs
    RESET_PC <- MCReset
    RstValues <- AnyReset
    Programs <- MCPrograms
    InitGprs <- ZeroGprs
    InitRam <- SomeRam
INVARIANTS
    TypeOK
    BypassInv
    OperandsCurrent
    StoreDataCurrent
    SlotsHoldTheirInst
PROPERTIES
    StallShrinks
    ImplementsIsa
