SPECIFICATION Spec
CONSTANTS
    Peers = {"a"}
    FirstPort = 1
    LastPort = 3
    Records = 2
    TIME_WAIT = 3
    ARP_TIMEOUT = 1
    DEADLINE = 1
    Budget = 2
    Chunks <- MCChunks
    Capacity = 1
INVARIANTS
    RecordsKept
    Unambiguous
PROPERTIES
    SavedWhole
    CommandReturns
