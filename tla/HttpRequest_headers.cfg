\* A transaction that fails after its headers came.
CONSTANTS
    MaxRequests = 1
    MaxFetches = 1
    None = None
    IdSpace = 3
    MaxQueue = 1
    FirstIds = {0}
SPECIFICATION HrSpec
INVARIANTS SetOnlyIfOK
CHECK_DEADLOCK FALSE
