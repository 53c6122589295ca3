SPECIFICATION Spec
CONSTANTS
    a = a
    b = b
    c = c
    d = d
    Node = {a, b, c, d}
    Crashed = {}
    Late = {a}
    MaxRound = 2
    Coins <- OneLeader
    Reach <- SecondTry
SYMMETRY OthersAlike
INVARIANTS
    TypeOK
    EarlyFinishDecides
CHECK_DEADLOCK FALSE
