SPECIFICATION Spec
CONSTANTS
    Sales <- MCSales
    Returns = {p, q, r}
    Tokens = {t1, t2, t3}
SYMMETRY MCSymmetry
INVARIANTS
    RefundsAddUp
    
    RefundsAreApproved
PROPERTIES
    ApprovalIsOneShot
CHECK_DEADLOCK FALSE
