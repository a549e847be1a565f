SPECIFICATION MCSpec
CONSTANTS
    VmeLevels = 2
    VmeFan = 3
    VmeKernel = {0, 2}
    VmePages = {1, 2, 3, 4, 5, 6}
    VmeFrames = {101}
    VmeSpaces = {1, 2}
    NIBBLE = 3
    MAX_CPU = 3
    TssAt = {300, 6560, 1234}
    TssSize = 104
    Entries <- Stubs
    Irqs = {0, 1, 3, 5, 6}
    UserIrqs = {5, 6}
    NR_IRQ = 8
    ProgramEnds = {16, 17, 31, 33}
    Extended = {0, 7, 9, 80}
    MpTables <- TypesOfEntries
    CHARS = 4
    TypeAhead = 2
    KEY_QUEUE_LEN = 3
    KEYS = 5
    PIPE = 3
    SOUND = 6
    Pieces = {1, 2}
    LEN = 2
    SECONDS = 11
    MINUTES = 2
    HOURS = 2
    TickGap = 7
    MaxMissed = 3
    RELEASE = 8
    PREFIX = 14
    Keys = {1, 2, 3}
    Prefixed = {3}
    keylut <- ThreeKeys
    BufferSize = 5
    SECTSIZE = 2
    ARGSECTS = 1
    Sectors = 8
    MAINARG_ADDR = 0
    HEADER_ADDR = 2
    HeaderSize = 2
    MemSize = 22
    Images <- Kernels
    Requests <- Calls
INVARIANT MachineIsSetUp
PROPERTIES
    SpacesKeepPromise
    
    
    
\* A device may have nothing left to do.
CHECK_DEADLOCK FALSE
