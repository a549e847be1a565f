SPECIFICATION MCSpec
CONSTANTS
    MAX_CPU = 3
    NTasks = 2
    CteThreads = 2
    UserSets = {{0}, {0, 1}}
    STACK = 48
    NativeThreads = 3
    UserThreads = {1, 2}
    Pages = {1}
    NCHAR = 2
    Letters = {"A"}
    FPS = 2
    Period = 2
    Ground = 3
    Speeds = {1}
    HitSpeed = 2
    MaxLate = 2
    COUNT = 3
    PegRows = 2
    BoardRows = 6
    BALLS = 31
    DISKS = 5
    Windows <- AllWindows
    AntSteps = 250
    Width = 2
    Height = 3
    MAX_LENGTH = 6
    Longest = 5
    Texts <- AllTexts
    CELL = 3
    TapeLength = 4
    BLOCK_SIZE = 12
    Lens = {0, 1, 2, 3, 4, 7, 11, 12, 13, 24, 30}
    Updates = 3
    LAST = 2
    MAXBLOCK = 3
    Hashes = {0, 1, 2}
    Zeros = {0, 1}
    NONCES = 3
    Times = {7, 8}
INVARIANTS
    StackExclusive
    PrintsAlone
    
    OwnSpace
    
    ListIsText
PROPERTIES
    ThreadsResume
    
    AllProcessorsRun
    ThreadsRun
    ProgramsGoOn
\* A machine may be switched off, and programs end.
CHECK_DEADLOCK FALSE
