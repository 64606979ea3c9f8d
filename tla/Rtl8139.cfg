SPECIFICATION FairSpec
VIEW MCView
CONSTANTS
    RX_SIZE = 32
    TX_SLOTS = 2
    NET_FRAME_MAX = 5
    MIN_FRAME = 2
    MIN_WIRE = 3
    BUDGET = 2
    Byte <- MCByte
    Frames <- MCFrames
    Packets <- MCPackets
INVARIANT
    InStep
PROPERTIES
    ImplementsLink
    FramesTaken
