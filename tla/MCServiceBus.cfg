CONSTANTS
    Callers = {c1, c2, c3}
    Ids = {i1, i2}
    Payloads = {p1, p2}
    Errors = {e1}
    Links = {l1, l2}
    NoCaller = NoCaller
    NoId = NoId
    NoLink = NoLink
    Requests = {r1, r2, r3}
    Silent = {r3}
SPECIFICATION MCSpec
SYMMETRY Symmetry
INVARIANTS
    DeadLinkIsReplaced
    OwnReply
    IdleLinkIsReplaced
PROPERTIES
    ReplyGetsNewLink
CHECK_DEADLOCK FALSE
