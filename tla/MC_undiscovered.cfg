SPECIFICATION FairSpec
CONSTANTS
    a = a
    None = None
    Orders = {a, z}
    KindsOf <- MCRecipesOnly
    Remakes = {}
    OrderOf <- MCOrderOf
    Batches = {b1}
    BatchSize = 1
    MaxRetries = 2
    MaxDeaths = 0
PROPERTIES
    RecoveryDiscovers
