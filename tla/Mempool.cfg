SPECIFICATION FairSpec
CONSTANTS
    a = a
    b = b
    c = c
    d = d
    x = x
    Tx <- FourTx
    Size <- Sizes
    max_size = 2
    queue_capacity = 2
    Take = 1
    PeerPayload <- OnePeer
    Copies = 2
    Capacity = 2
    MaxGets = 3
INVARIANTS
    TypeOK
    NoTxLost
    HandedAreStored
    OwnPayloadsFit
    
    
PROPERTIES
    AnsweredOrStuck
CHECK_DEADLOCK FALSE
