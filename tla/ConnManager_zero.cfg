\* The third connection of a thread with an id space of three gets id 0.
CONSTANTS
    Threads = {t1}
    App = App
    Conns = {p1, p2, p3}
    None = None
    IdSpace = 3
    MaxLive = 2
    MaxMsgs = 0
SPECIFICATION Spec
INVARIANTS ConnIdNeverZero
