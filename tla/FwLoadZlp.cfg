CONSTANTS
    Chunk = 4
    OffsetWrap = 16
    SizeWrap = 64
    MaxLen = 22

SPECIFICATION LoadSpec

INVARIANT Terminated

CHECK_DEADLOCK FALSE
