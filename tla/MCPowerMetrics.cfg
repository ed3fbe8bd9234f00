SPECIFICATION Spec
CONSTANTS
    RootDigits = 15
    Points = 512
    SearchRadius = 3
    BandRadius = 2
    BarMax = 136
    FullScale = 128
    FsMilli = 500
    PhaseHalf = 360
    IncSpan = 16384
    NoLag = 99
    Inputs <- MCInputs
INVARIANTS
    ReadingCoherent
    SineReading
    SpectrumMeasured
