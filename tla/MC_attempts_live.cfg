SPECIFICATION FairSpec
CONSTANTS
    Keys = {k1, k2}
    Workers = {w1}
    Slots = {s1}
    UnpaidReports = {"timeout"}
    MaxIssued = 2
    None = None
PROPERTIES
    PaymentIsRecorded
CHECK_DEADLOCK FALSE
