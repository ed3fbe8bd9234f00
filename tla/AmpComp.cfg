SPECIFICATION SweepSpec
CONSTANTS
    Unity = 1000000
    MaxFreq = 12100
INVARIANTS
    GainOnLine
