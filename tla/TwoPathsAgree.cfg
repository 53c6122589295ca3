SPECIFICATION Spec
CONSTANTS
    Node = {a, b, c, d}
    Ahead = {d}
    Hears = {c, d}
    MaxHeight = 3
    MaxFallback = 1
    fallback_length = 1
SYMMETRY Symmetry
INVARIANT
    PathsAgree
CHECK_DEADLOCK FALSE
