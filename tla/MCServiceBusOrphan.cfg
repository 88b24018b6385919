CONSTANTS
    Callers = {c1, c2}
    Ids = {i1, i2}
    Payloads = {p1, p2}
    Errors = {e1}
    Links = {l1, l2}
    NoCaller = NoCaller
    NoId = NoId
    NoLink = NoLink
SPECIFICATION Spec
INVARIANTS
    WaitingCallHasDispatcher
CHECK_DEADLOCK FALSE
