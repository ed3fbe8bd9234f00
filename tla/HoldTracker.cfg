SPECIFICATION Spec
CONSTANTS
    Quantities = {v, p}
    LowQuantities = {v}
    Values = {1, 2}
    Freqs = {1, 2}
    EventWrap = 6
INVARIANTS
    LimitsAreExtremes
    ReadingWithinLimits
PROPERTIES
    EventPerWidening
