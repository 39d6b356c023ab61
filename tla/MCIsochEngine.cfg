CONSTANTS
    NumXfers = 2
    NumPackets = 2
    MaxClock = 6
    MaxFailures = 2
    MaxCalls = 2

SPECIFICATION FairSpec

INVARIANTS
    TypeOK
    OneOwner
    FedInOrder
    NothingSkipped
    RetiredByFailure

PROPERTY CapturedIsFed

\* After EventsFail the program may make no further call.
CHECK_DEADLOCK FALSE
