SPECIFICATION FairSpec
CONSTANTS
    Workers = {w1, w2}
    MaxRetries = 3
    CountBound = 4
    None = None
PROPERTIES
    SuccessSurvivesRetries
    ClaimNotStolen
    
CHECK_DEADLOCK FALSE
