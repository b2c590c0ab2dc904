SPECIFICATION Spec
CONSTANTS
    HasDeadline = TRUE
    RequestTimeout = FALSE
    TxTimeout = FALSE
    CanFail = FALSE
CHECK_DEADLOCK FALSE
INVARIANT RetriedCommitReported
