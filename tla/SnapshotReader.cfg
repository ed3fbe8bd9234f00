SPECIFICATION Spec
CONSTANTS
    Words = 3
    MaxRetries = 4
    MaxWindows = 4
INVARIANTS
    SnapshotWhole
    LabelWithinOne
    FailureNeedsCommits
