SPECIFICATION FairSpec
CONSTANTS
    p = p
    q = q
    Block <- SharedBlock
    Payload <- SharedPayload
    PayloadOf <- SharedPayloadOf
    Height <- SharedHeight
    Capacity = 2
    MaxHeight = 2
INVARIANTS
    TypeOK
    MissingIsRequested
    RequestsHaveWaiter
PROPERTIES
    Resumed
CHECK_DEADLOCK FALSE
