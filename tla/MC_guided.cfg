SPECIFICATION Spec
CONSTANTS
    Commands = {c1, c2, c3}
    Requests = {r1, r2}
    Approved = 2
    Ordered = 2
    MaxSales = 2
    None = None
SYMMETRY Symmetry
INVARIANTS
    CommandOnce
    
    WithinAssigned
CHECK_DEADLOCK FALSE
