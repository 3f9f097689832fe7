\* Two requests whose handlers compete for two fetches and one slot of the
\* fiber queue; the id counter starts close to its wrap.
CONSTANTS
    MaxRequests = 2
    MaxFetches = 2
    None = None
    IdSpace = 4
    MaxQueue = 1
    FirstIds = {2}
SPECIFICATION HrFairSpec
INVARIANTS RefCountExact FiberDataExact NoneOnlyAfterTimeout CallsBackOnce ReplyWhole
           ChainIsOwn
PROPERTIES ReturnedIsFinal AnsweredOnce FetchReturns RequestAnswered
CHECK_DEADLOCK FALSE
