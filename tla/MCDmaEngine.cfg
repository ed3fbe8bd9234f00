SPECIFICATION FairSpec
CONSTANTS
    Engines <- MCEngines
    RxIndex <- MCRxIndex
    RxTables <- MCRxTables
    BufCount = 4
    MaxInits = 3
INVARIANTS
    DeviceOutlivesWorkers
    ResourcesOutliveWorker
    RefCountExact
    DownEngineHoldsNothing
    OnlyOwnShutdownCancels
PROPERTIES
    ImplementsSharedDevice
    CallsReturn
    CancelEndsShutdown
