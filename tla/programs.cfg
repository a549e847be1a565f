SPECIFICATION MCSpec
CONSTANTS
    Units = {"execute", "generate", "memory", "int64", "minirv"}
    DATA_WIDTH = 4
    MEM_WIDTH = 16
    BYTE = 2
    RAM_SIZE = 4
    Values = {27030, 38505}
    WORD_BITS = 4
    BYTE_BITS = 4
    Operands = {0, 1, 23, 32768, 65535}
INVARIANTS
    UnitsCompute
    MemoryKeeps
    LibraryComputes
    NesFinds
PROPERTIES
    NesGives
    
    NesGoesOn
\* An evaluation is one step, and programs end.
CHECK_DEADLOCK FALSE
