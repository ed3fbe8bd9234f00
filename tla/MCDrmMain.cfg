SPECIFICATION MainLiveSpec
CONSTANTS
    Engines <- MCEngines
    RxIndex <- MCRxIndex
    RxTables <- TwoChannels
    BufCount = 4
    MaxInits = 2
    MainEngine = "main"
    ScopeEngine = "scope"
INVARIANTS
    SafeWhenBalanced
    NothingLeftAtReturn
    LibraryLosesNothing
PROPERTIES
    MainReturns
