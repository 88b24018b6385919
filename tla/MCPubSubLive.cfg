CONSTANTS
    Callers = {c1,c2}
    Ids = {i1}
    Payloads = {i1}
    Strays = {s1}
    Errors = {e1}
SPECIFICATION FairSpec
PROPERTIES
    AnswerArrives
    ShutdownEnds
CHECK_DEADLOCK FALSE
