CONSTANTS
    NumCalls = 2
    Polls = 2
    MaxSessions = 2
    MaxErrors = 2
    None = None

SPECIFICATION FairSpec

INVARIANTS
    TypeOK
    AnswerIsOwn
    ReportedRan
    OwnArguments
    NoGap

PROPERTIES
    NeverOverrun
    SessionEnds

\* No further session after MaxSessions.
CHECK_DEADLOCK FALSE
