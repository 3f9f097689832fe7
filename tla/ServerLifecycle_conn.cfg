\* Servers whose connections are to run on mixed threads.
CONSTANTS
    GroupConfs <- MCGroupConfs
    ServiceArrays <- MCServiceArrays
    FactoryLists <- MCFactoryLists
    HardwareThreads = 2
    NoGroup = NoGroup
    None = None
SPECIFICATION SlSpec
INVARIANTS MixedThreadsServe
CHECK_DEADLOCK FALSE
