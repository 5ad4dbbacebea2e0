SPECIFICATION Spec
CONSTANTS
    Keys = {k1, k2}
    Workers = {w1, w2}
    Slots = {s1, s2}
    UnpaidReports = {"timeout"}
    MaxIssued = 2
    None = None
SYMMETRY Symmetry
INVARIANTS
    OneProviderCallPerKey
    OneOpenReservation
    
    
    AbsenceHidesNoReference
PROPERTIES
    PaidIsFinal
    FencedUntilSupport
CHECK_DEADLOCK FALSE
