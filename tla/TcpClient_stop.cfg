\* Stop while the client waits to reconnect or is connecting.
CONSTANTS
    c1 = c1
    e1 = e1
    Clients = {c1}
    Evbs = {e1}
    EvbOf <- OneEvb
    MaxMsgs = 0
SPECIFICATION TcSpec
PROPERTIES StopIsSafe
CHECK_DEADLOCK FALSE
