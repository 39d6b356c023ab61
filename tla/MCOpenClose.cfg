\* A program may stop between sessions: deadlock is not an error.
CHECK_DEADLOCK FALSE
SPECIFICATION Spec
CONSTANT MaxSessions = 2
INVARIANT TypeOK
INVARIANT OpenIsReady
INVARIANT BusyOnlyAfterFailure
PROPERTY UploadsPrepared
