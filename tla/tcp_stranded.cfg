SPECIFICATION ServedSpec
CONSTANTS
    r1 = r1  r2 = r2  r3 = r3  NoReq = NoReq
    Reqs = {r1, r2}
    Deadlined = {r1}
    QueueCap = 2
    Replies = {"result"}
    CanClose = FALSE
    CloseDeadline = FALSE
    CanFail = FALSE
    CloseAndFail = FALSE
CHECK_DEADLOCK FALSE
PROPERTY EveryRequestAnswered
