CONSTANTS
    NumCalls = 2
    Polls = 2
    MaxSessions = 1
    MaxErrors = 1
    None = None

SPECIFICATION FairSpec

PROPERTIES
    NotAlreadyRunning

CHECK_DEADLOCK FALSE
