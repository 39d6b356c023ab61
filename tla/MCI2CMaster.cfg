CHECK_DEADLOCK FALSE
SPECIFICATION Spec
CONSTANTS
    ReadChunk = 2
    WriteChunk = 2
    Loops = 2
    ReadLens = {2,3}
    WriteLens = {2,3,4}
    Foreign0 <- ForeignFlags
    Foreign1 <- ForeignCounts
    MaxCalls = 3
INVARIANT TypeOK
INVARIANT WireIsTransaction
