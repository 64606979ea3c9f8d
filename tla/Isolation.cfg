SPECIFICATION Spec
VIEW MCView
CONSTANTS
    Word = 16
    PAGE = 2
    USER_BASE = 4
    MARKER = 6
    USER_STARTUP = 8
    USER_STACK_BOTTOM = 12
    USER_STACK_TOP = 14
    Segments <- MCSegments
    Image <- MCImage
    KernelImage <- MCKernelImage
    Commands <- MCCommands
    TextMax = 3
    Pointers = {5, 7, 12}
    Sizes = {0, 1, 2, 3}
    Lines <- MCLines
    MAX_FILES = 1
    MAX_FILE_SIZE = 2
    NameMax = 2
    Names <- MCNames
    BadNames <- MCBadNames
    NameLen <- MCNameLen
    NoName <- MCNoName
    Byte = {0, 1}
    Contents = {}
    Buffers = {}
    NEWLINE = 1
INVARIANTS
    RangeExact
    KernelIntact
PROPERTIES
    PagesPrivate
