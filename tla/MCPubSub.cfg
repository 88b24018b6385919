CONSTANTS
    Callers = {c1, c2}
    Ids = {i1, i2}
    Payloads = {i1, i2}
    Strays = {s1}
    Errors = {e1}
    NoCaller = NoCaller
    NoId = NoId
SPECIFICATION Spec
SYMMETRY Symmetry
INVARIANTS
    OwnAnswer
    NothingIsLost
PROPERTIES
    AckedAfterReply
CHECK_DEADLOCK FALSE
