\* Scaled from 8192/32/3072: the buffer holds two largest packets and a section,
\* not three, and a frame of MaxFrame = 4 bytes fits exactly.
CONSTANTS
    BufSize = 8
    SectionLen = 2
    MaxPacket = 3
    MaxStream = 10

SPECIFICATION FairSpec

INVARIANTS
    TypeOK
    BufferIsTail
    NoResidualSection
    PacketisationFree

PROPERTIES
    DropsOnlyOversized
    ImplementsSectionStream
    ScanEnds

\* A stream stops growing at MaxStream.
CHECK_DEADLOCK FALSE
