SPECIFICATION FairSpec
CONSTANTS
    MaxRequests = 2
    Keys = {x}
    MaxVersion = 2
    MaxGen = 2
    None = None
INVARIANTS
    
    ReleasedStaysReleased
    IssuedIsInForce
    ArchiveIsComplete
PROPERTIES
    ResetIsOneShot RedeemedIsCompleted
CHECK_DEADLOCK FALSE
