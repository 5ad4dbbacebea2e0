SPECIFICATION FairSpec
CONSTANTS
    Attempts = {k1, k2, k3, k4}
    Undisplayed = {k4}
    Static = Static
    None = None
INVARIANTS
    
    OneAttemptPays
    LiabilityNeedsProvenSale
PROPERTIES
    
    SoldOnce
    PaidSaleIsSubmitted
    PaymentIsDisposed
CHECK_DEADLOCK FALSE
