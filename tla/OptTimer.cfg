SPECIFICATION Spec
CONSTANTS
    N = 4
    Window = 2
    Faulty = {}
    Slow = {}
    Genesis = 0
    Block <- BackupBlock
    Author <- BackupAuthor
    Height <- BackupHeight
    QC <- BackupQC
INVARIANT
    ProposerIsLeader
CHECK_DEADLOCK FALSE
