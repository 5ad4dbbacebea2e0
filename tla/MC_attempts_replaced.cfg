SPECIFICATION Spec
CONSTANTS
    Keys = {k1, k2, k3}
    Workers = {w1}
    Slots = {s1}
    UnpaidReports = {"scanned", "timeout"}
    MaxIssued = 2
    None = None
SYMMETRY Symmetry
INVARIANTS
    ReplacementsBounded
CHECK_DEADLOCK FALSE
