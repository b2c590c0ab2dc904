SPECIFICATION Spec
CONSTANTS
    o1 = o1  o2 = o2  a1 = a1  a2 = a2  a3 = a3
    Ops = {o1}
    Deadlined = {}
    Addrs = {a1, a2, a3}
    AddressLists <- ThreeFixed
    Rejections = {{}}
    RetryLimits = {0}
    MaxFailures = 1
    AttemptsCap = 4
    CanClose = FALSE
CHECK_DEADLOCK FALSE
INVARIANT NoReplay
