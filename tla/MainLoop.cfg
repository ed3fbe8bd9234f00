SPECIFICATION TurnSpec
CONSTANTS
    TickWrap = 10
    ReadPeriod = 4
    RebuildPeriod = 2
    MaxTurn = 3
    MaxBehind = 2
INVARIANTS
    ViewFresh
PROPERTIES
    ReadingsOnTime
