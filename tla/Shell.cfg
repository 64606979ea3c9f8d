SPECIFICATION FairSpec
CONSTANTS
    MAX_TASKS = 3
    LINE_MAX = 2
    Kind <- MCKind
    ScanCodes <- MCScanCodes
    SerialChars <- MCSerialChars
    KbdCap = 2
INVARIANTS
    OneForeground
    ShiftTracksKeys
PROPERTIES
    PromptReturns
    NetworkPolled
