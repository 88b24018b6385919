SPECIFICATION MCSpec
CHECK_DEADLOCK FALSE
CONSTANTS
    Threads = {t1, t2}
    Buffers = {b1, b2, b3}
    Null = Null
    Lives = {2, 4, 7}
    MaxTime = 14
    Objects <- TriedObjects
    MaxObjects = 3
    Payloads <- TriedPayloads
    MaxPayload = 4
    MaxEncoded = 24
    MaxSpans = 5
    Remote = Remote
    NoSpan = NoSpan
INVARIANTS
    HalvesMeet
    OwnObjectIsFound
    HostHoldsWhatLives
    SuccessMeansReply
    DecodingInvertsEncoding
    SpansFollowCalls
PROPERTIES
    SentTokenIsGood
