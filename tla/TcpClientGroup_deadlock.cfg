\* Stop against a send from the event base.
CONSTANTS
    c1 = c1
    c2 = c2
    e1 = e1
    AppThread = AppThread
    Clients = {c1, c2}
    Evbs = {e1}
    SendingEvbs = {e1}
    EvbOf <- OneEvb
    MaxMsgs = 1
SPECIFICATION GSpec
INVARIANTS NoCircularWait
CHECK_DEADLOCK FALSE
