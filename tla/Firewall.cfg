SPECIFICATION Spec
VIEW MCView
CONSTANTS
    FW_RULES = 3
    AddrBits = 3
    HostBits = 2
    Wrap = 2
    NET_IP = 6
    EchoPort = 7
    Requests <- MCRequests
    BlockRequests <- MCBlockRequests
    Frames <- MCFrames
    Segments <- MCSegments
INVARIANTS
    VerdictIsReference
    ProgramsAgree
PROPERTIES
    HitsAreAttributed
    SendsAllowed
