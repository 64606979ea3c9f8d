SPECIFICATION Spec
CONSTANTS
    MAX_FILES = 2
    MAX_FILE_SIZE = 2
    Names = {"a", "bb", "ccc"}
    BadNames = {"", "toolong"}
    NameLen <- MCNameLen
    NoName = ""
    Byte = {0, 1, 2}
    Contents <- MCContents
    Buffers = {1, 2, 3, 4, 5, 6, 7}
INVARIANTS
    NamesUnique
    ListingFits
PROPERTIES
    ImplementsMap
