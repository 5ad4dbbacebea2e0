SPECIFICATION FairSpec
CONSTANTS
    a = a
    None = None
    Orders = {a}
    KindsOf <- MCAnyKind
    Remakes = {r1}
    OrderOf <- MCOrderOf
    Batches = {b1, b2}
    BatchSize = 1
    MaxRetries = 2
    MaxDeaths = 1
INVARIANTS
    BooksAgree
PROPERTIES
    SettledStays
    
