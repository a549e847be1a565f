SPECIFICATION Spec
CONSTANTS
    Units = {"minirv"}
    DATA_WIDTH = 4
    MEM_WIDTH = 16
    BYTE = 2
    RAM_SIZE = 4
    Values = {27030, 38505}
    WORD_BITS = 4
    BYTE_BITS = 4
    Operands = {0, 1, 23, 32768, 65535}
INVARIANT SeqzSetsIfZero
CHECK_DEADLOCK FALSE
