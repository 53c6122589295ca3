SPECIFICATION FairSpec
CONSTANTS
    Key = {k1, k2}
    Value = {v1, v2}
    Reader = {r1}
    Waiter = {w1, w2}
    None = None
    Capacity = 3
    MaxWrites = 2
INVARIANTS
    TypeOK
    NoLostWakeup
    WaitersKnown
PROPERTIES
    ImplementsAtomicStore
    SettledIsAnswered
CHECK_DEADLOCK FALSE
