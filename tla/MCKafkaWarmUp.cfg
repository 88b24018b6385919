CONSTANTS
    Callers = {c1, c2}
    Ids = {i1, i2}
    Payloads = {p1, p2}
    Errors = {e1}
    NoCaller = NoCaller
    NoId = NoId
SPECIFICATION Spec
INVARIANTS
    AssignedBeforeProduce
CHECK_DEADLOCK FALSE
