\* onError between onEOM and the start of the fiber.
CONSTANTS
    MaxRequests = 1
    MaxFetches = 0
    None = None
    IdSpace = 2
    MaxQueue = 1
    FirstIds = {0}
SPECIFICATION HrSpec
INVARIANTS NoUseAfterDestroy
CHECK_DEADLOCK FALSE
