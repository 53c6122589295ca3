SPECIFICATION Spec
CONSTANTS
    N = 4
    Window = 1
    Faulty = {2}
    Slow = {}
    Genesis = 0
    Block <- TwinsBlock
    Author <- TwinsAuthor
    Height <- TwinsHeight
    QC <- TwinsQC
INVARIANTS
    OneCertifiedPerHeight
    
    
    
    
    AncestorsDelivered
    
CHECK_DEADLOCK FALSE
