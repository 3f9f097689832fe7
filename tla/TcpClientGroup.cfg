\* Two clients on one event base, two messages sent by its callbacks and by an
\* application thread, Stop at any time.
CONSTANTS
    c1 = c1
    c2 = c2
    e1 = e1
    AppThread = AppThread
    Clients = {c1, c2}
    Evbs = {e1}
    SendingEvbs = {e1}
    EvbOf <- OneEvb
    MaxMsgs = 2
SPECIFICATION GFairSpec
INVARIANTS OneAttempt ConnectedIsUp
PROPERTIES ImplementsChannel MessageSettles Reconnects
CHECK_DEADLOCK FALSE
