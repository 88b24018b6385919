CONSTANTS
    Controllers = {c1}
    Workers = {w1}
    NoWorker = NoWorker
    Last = 1
SPECIFICATION LuckySpec
PROPERTIES
    NoPoisonPill
