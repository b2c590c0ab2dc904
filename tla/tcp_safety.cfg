SPECIFICATION Spec
CONSTANTS
    r1 = r1  r2 = r2  r3 = r3  NoReq = NoReq
    Reqs = {r1, r2}
    Deadlined = {r1}
    QueueCap = 2
    Replies = {"result"}
    CanClose = TRUE
    CloseDeadline = TRUE
    CanFail = TRUE
    CloseAndFail = TRUE
CHECK_DEADLOCK FALSE
INVARIANTS TypeOK LossIsConnectionError PendingIsInFlight CloseIsComplete Inv
PROPERTY KeepsPromise
