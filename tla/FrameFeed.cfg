SPECIFICATION LiveSpec
CONSTANTS
    Words = 3
    MaxFrames = 6
INVARIANTS
    WholeFrames
    AtMostTwice
PROPERTIES
    NewestReachesHistory
