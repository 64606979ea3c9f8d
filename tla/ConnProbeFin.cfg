SPECIFICATION CSpec
CHECK_DEADLOCK FALSE
CONSTANTS
    SeqHalf = 9
    TCP_BUFFER = 2
    TCP_SLOTS = 2
    TCP_MSS = 2
    RCV_WND = 2
    MAX_RETRIES = 2
    RTO_INIT = 1
    RTO_SYN_RETRIED = 2
    RTO_MAX = 2
    RtoSamples = {1}
    PROBE_INTERVAL = 1
    DEADLINE = 8
    PaceGaps = {0}
    Cwnds = {2}
    Byte = {0, 1, 2, 3}
    Files <- MCFiles
    Isns <- MCIsns
    Segments <- MCSegments
    MaxTime = 9
    PeerIsn = 17
    PeerMss = 1
    Worlds <- MCTight
INVARIANT CompletionIsReal
