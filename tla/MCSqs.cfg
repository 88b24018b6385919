CONSTANTS
    Starters = {t1, t2}
    Stoppers = {s1}
    Requests = {r1}
    NoThread = NoThread
    NoRequest = NoRequest
    Callers = {c1, c2}
    Ids = {i1, i2}
    Payloads = {p1, p2}
    Errors = {e1}
    NoCaller = NoCaller
    NoId = NoId
SPECIFICATION MCSpec
INVARIANTS
    DispatcherServesCalls
    OwnReply
    OneConfiguredLoop
    StopIsHeard
PROPERTIES
    ReplyEndsCall
    ShutdownIsPrompt
    DeletedAfterReply
    StopReturns
CHECK_DEADLOCK FALSE
