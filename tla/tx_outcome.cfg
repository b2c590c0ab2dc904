SPECIFICATION Spec
CONSTANTS
    HasDeadline = TRUE
    RequestTimeout = TRUE
    TxTimeout = TRUE
    CanFail = TRUE
CHECK_DEADLOCK FALSE
INVARIANTS OutcomeTrue FailedNeverCommitted NothingLeftActive
