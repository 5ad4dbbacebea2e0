SPECIFICATION CountSpec
CONSTANTS
    Tasks = {t1, t2}
    Commands = {c1, c2}
    Tokens = {k1, k2}
    Workers = {w1, w2}
    MaxDays = 1
    MaxMark = 3
    Null = Null
SYMMETRY Symmetry
INVARIANTS
    
    ProtectedNeedsDirector
CHECK_DEADLOCK FALSE
