SPECIFICATION FairSpec
CONSTANTS
    o1 = o1  o2 = o2  a1 = a1  a2 = a2  a3 = a3
    Ops = {o1, o2}
    Deadlined = {o1}
    Addrs = {a1, a2}
    AddressLists <- TwoOrNone
    Rejections <- SecondMayReject
    RetryLimits = {0, 1}
    MaxFailures = 2
    AttemptsCap = 3
    CanClose = TRUE
CHECK_DEADLOCK FALSE
INVARIANTS RetriesBounded OneConnection FailureHidden NoReplay
PROPERTY OperationsEnd
