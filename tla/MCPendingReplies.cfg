CONSTANTS
    Callers = {c1, c2, c3}
    Ids = {i1, i2}
    Payloads = {p1}
    Errors = {e1}
    NoCaller = NoCaller
    NoId = NoId
SPECIFICATION PromptSpec
INVARIANTS
    SlotsMatchTickets
    WakeupsNotLost
    ClosedAnswersAll
PROPERTIES
    KeepsContract
    SleepersWake
