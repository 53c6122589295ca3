SPECIFICATION Spec
CONSTANTS
    Node = {a, b, c, d}
    Ahead = {d}
    Hears = {c, d}
    MaxHeight = 3
    MaxFallback = 1
    fallback_length = 1
SYMMETRY Symmetry
INVARIANTS
    TypeOK
    
PROPERTY
    CommittedStays
CHECK_DEADLOCK FALSE
