CHECK_DEADLOCK FALSE
SPECIFICATION Spec
CONSTANTS
    ChipId = "C2"
    MaxTunes = 2
    MaxFailures = 1
INVARIANT TypeOK
INVARIANT TuneLeavesNormal
INVARIANT UnknownNeedsBadRead
