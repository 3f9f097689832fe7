\* Two event bases and an outside sender, an id space of three: counters wrap
\* and ids are reused while old connections and stale sends are still around.
CONSTANTS
    Threads = {t1, t2}
    App = App
    Conns = {p1, p2, p3, p4}
    None = None
    IdSpace = 3
    MaxLive = 2
    MaxMsgs = 2
SPECIFICATION Spec
SYMMETRY Symmetry
INVARIANTS TypeOK RegistryExact LiveIdsUnique IdReusedOnlyAfterWrap AllocationEnds
    MisdeliveredOnlyAfterWrap SenderOrderKept
PROPERTIES RemovedByOwnClose ImplementsDirectory
