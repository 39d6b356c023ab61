\* Scaled from 512 / 2^16 / 2^64; OffsetWrap is a multiple of Chunk as in the code.
CONSTANTS
    Chunk = 4
    OffsetWrap = 16
    SizeWrap = 64
    MaxLen = 22

SPECIFICATION LoadSpec

INVARIANTS
    LoadTypeOK
    ChunkInFile
    ImageIsFile
    FailureLeavesPrefix

\* The load ends.
CHECK_DEADLOCK FALSE
