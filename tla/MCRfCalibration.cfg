CHECK_DEADLOCK FALSE
SPECIFICATION CalSpec
CONSTANTS
    Bytes = {0, 255}
    HitCounts <- MCHitCounts
    Temperatures = {8}
    Frequencies <- MCFrequencies
    MaxCalibrations = 2
    Retried <- MCRetried
INVARIANT CalTypeOK
INVARIANT TunedRight
