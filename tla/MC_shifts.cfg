SPECIFICATION Spec
CONSTANTS
    s1 = s1
    s2 = s2
    s3 = s3
    Shifts <- MCShifts
    DeviceOf <- MCDeviceOf
    StaffOf <- MCStaffOf
    Sales = {a, b}
    ShiftOf <- MCShiftOf
    Workers = {v, w}
    None = None
SYMMETRY MCSymmetry
INVARIANTS
    OneOpenShift
    CashMatchesLedger
PROPERTIES
    ClosedStaysCounted
CHECK_DEADLOCK FALSE
