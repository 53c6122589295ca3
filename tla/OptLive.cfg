SPECIFICATION FairSpec
CONSTANTS
    N = 4
    Window = 2
    Faulty = {1}
    Slow = {0}
    Genesis = 0
    Block <- SilentBlock
    Author <- SilentAuthor
    Height <- SilentHeight
    QC <- SilentQC
INVARIANTS
    TypeOK
    OneProposalPerHeight

    
CHECK_DEADLOCK FALSE
