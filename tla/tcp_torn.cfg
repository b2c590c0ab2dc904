SPECIFICATION Spec
CONSTANTS
    r1 = r1  r2 = r2  r3 = r3  NoReq = NoReq
    Reqs = {r1}
    Deadlined = {}
    QueueCap = 1
    Replies = {"result"}
    CanClose = TRUE
    CloseDeadline = FALSE
    CanFail = FALSE
    CloseAndFail = FALSE
CHECK_DEADLOCK FALSE
INVARIANT NoTornAnswer
