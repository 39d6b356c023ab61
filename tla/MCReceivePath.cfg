CONSTANTS
    NumXfers = 2
    NumPackets = 1
    MaxClock = 5
    MaxFailures = 1
    MaxCalls = 1
    BufSize = 12
    SectionLen = 3
    MaxPacket = 4
    MaxStream = 20
    FrameLen = 2
    Inner = {2}
    Sizes = {0, 3, 4}
    Phases = {0, 3}

SPECIFICATION Spec

INVARIANTS
    DamageIsLocal
    GluedOnlyOverLoss
    EndToEnd

\* The device stops at MaxClock.
CHECK_DEADLOCK FALSE
