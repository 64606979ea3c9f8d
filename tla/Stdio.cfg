SPECIFICATION StdioSpec
VIEW MCView
SYMMETRY MCSymmetry
CONSTANTS
    ARENA = 22
    HEADER = 2
    ALIGN = 2
    FILE_SIZE = 2
    MAX_FILE_SIZE = 1
    MAX_FILES = 1
    Names = {a, b}
    LongNames = {long}
    NoName = NoName
    Byte = {0, 1, 2}
    Junk = 9
    NEWLINE = 2
    Contents <- MCContents
    Buffers = {1, 3}
    Requests = {0, 16, 20}
    MaxHeld = 2
    MaxBytes = 2
INVARIANTS
    HeapExact
    BlocksOwned
PROPERTIES
    ImplementsStreams
