CONSTANTS
    Callers = {c1, c2}
    Ids = {i1, i2}
    Payloads = {p1, p2}
    Errors = {e1}
    Links = {l1, l2}
    NoCaller = NoCaller
    NoId = NoId
    NoLink = NoLink
    Requests = {r1, r2, r3}
    Empty = {r2}
    Silent = {r3}
    Numbers = {n1, n2}
    Others = {o1}
SPECIFICATION MCSpec
INVARIANTS
    LinksServeTheirCalls
    OwnReply
    StopClosesOwnSocket
PROPERTIES
    LostLinkFailsCalls
    CallReturns
    AckedAfterReply
CHECK_DEADLOCK FALSE
