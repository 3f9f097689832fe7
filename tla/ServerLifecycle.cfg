\* Configuration files with and without threads for their services, names used
\* twice, unknown types; a signal at any time.
CONSTANTS
    GroupConfs <- MCGroupConfs
    ServiceArrays <- MCServiceArrays
    FactoryLists <- MCFactoryLists
    HardwareThreads = 2
    NoGroup = NoGroup
    None = None
SPECIFICATION SlFairSpec
INVARIANTS ThreadIdsRoute ConfiguredIsStarted
PROPERTIES ShutdownCompletes
CHECK_DEADLOCK FALSE
