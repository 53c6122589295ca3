SPECIFICATION Spec
CONSTANTS
    p = p
    q = q
    m1 = m1
    m2 = m2
    m3 = m3
    Peer <- TwoPeers
    Message <- Messages
    Addresses <- To
    Capacity = 1
    WorkerCap = 1
    MaxFailures = 2
INVARIANTS
    TypeOK
    AtMostOnce
    IntactInOrder

    
CHECK_DEADLOCK FALSE
