SPECIFICATION StreamsSpec
CONSTANTS
    MaxAddress = 3
    MaxBreaks = 2
    MaxOpens = 3
    MaxWritten = 3
    maxLines = 2
    MaxLogBreaks = 2
    Servers <- MCServers
    MaxLoads = 3
    MaxOvBreaks = 1
    MaxVisible = 2
    MaxToasts = 4
    MaxRequests = 2
INVARIANTS
    StreamsTypeOK
    BadgeIsHonest
    LinesInOrder
    RowsOfThisResolve
    LoadingWhileInFlight
PROPERTIES
    LogPromiseKept
    ResolvePromiseKept
    AddressFollowed
    EveryServerAnswers
    ToastsGo
CHECK_DEADLOCK FALSE
