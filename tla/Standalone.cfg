\* Ids: four threads on two slots and three numbers, two ids per millisecond, a
\* time stamp that wraps after two milliseconds, and a clock that is set back
\* once.  Hash: tables of up to three of four nodes.  Client: three calls of
\* Connect.  Pool: three connections on three threads, two servers to register
\* as.
CONSTANTS
    Callers = {p1, p2, p3, p4}
    Static = Static
    WorkerIds = {1}
    DataCenters = {0}
    TimeSpace = 2
    SlotSpace = 2
    NumberSpace = 3
    SeqSpace = 2
    MaxTime = 3
    Garbage = {2}
    MaxSetBacks = 1
    MaxIds = 3
    Names <- NodeNames
    NameHash <- NodeNameHash
    Mix <- MixedHash
    MaxHash = 4
    MaxWeight = 2
    MaxNodes = 3
    MaxConnects = 3
    NumThreads = 3
    Conns = {p1, p2, p3}
    service = service
    Services = {service}
    ServiceOf <- OneService
    Servers = {s1, s2}
    None = None
    MaxMsgs = 1
    MaxRegs = 2
SPECIFICATION SaSpec
SYMMETRY Symmetry
INVARIANTS IdsOrdered IdsUnique ConnectedTruthful TablesAgree WrittenOnce StayingReached
PROPERTIES KeysStay
CHECK_DEADLOCK FALSE
