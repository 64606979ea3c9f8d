SPECIFICATION Execution
CONSTANTS
    BPF_CTX = 8
    BPF_DATA = 32
    BPF_STACK = 64
    BPF_VALUES = 96
    BPF_HANDLES = 240
    STACK_SIZE = 20
    BPF_MAPS = 5
    MAP_SPAN = 16
    VALUE_SPAN = 8
    BPF_MAX_INSNS = 16
    BPF_FUEL = 10
    BYTE_BITS = 2
    Programs <- MCPrograms
    Environments <- MCEnvironments
INVARIANTS
    MemoryExact
    ValidatedRuns
CHECK_DEADLOCK FALSE
