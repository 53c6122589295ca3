SPECIFICATION FairSpec
CONSTANTS
    Block <- ForkBlock
    Parent <- ForkParent
    Genesis = 0
    CoreCapacity = 1
    InnerCapacity = 1
    NoBlock = NoBlock
INVARIANTS
    TypeOK
    MissingIsRequested
    RequestsHaveWaiter

    
CHECK_DEADLOCK FALSE
