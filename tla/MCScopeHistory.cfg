SPECIFICATION Spec
CONSTANTS
    FrameSamples = 2
    HistoryFrames = 3
    WindowSamples = 4
    Points = 3
    PrePoints = 1
    Hysteresis = 1
    Raw <- RawValues
INVARIANTS
    RingHoldsNewest
    ColumnsCoverWindow
    MarkerAtTrigger
    TriggerIsFirstEdge
