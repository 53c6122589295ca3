SPECIFICATION Spec
CONSTANTS
    a = a
    b = b
    c = c
    d = d
    Node = {a, b, c, d}
    Crashed = {}
    Late = {}
    MaxRound = 2
    Coins <- TwoLeaders
    Reach <- LateOne
INVARIANTS
    Agreement
CHECK_DEADLOCK FALSE
