CONSTANTS
    Controllers = {c1, c2}
    Workers = {w1, w2}
    NoWorker = NoWorker
    Last = 2
    Callers = {c1, c2}
    Ids = {i1, i2}
    Payloads = {p1, p2}
    Errors = {e1}
    NoCaller = NoCaller
    NoId = NoId
SPECIFICATION MCSpec
INVARIANTS
    OwnReply
    TagsHaveOwner
    CommitSkipsNothing
PROPERTIES
    StopLeavesNoWorker
    NothingHangs
CHECK_DEADLOCK FALSE
