SPECIFICATION Spec
CONSTANTS
    Jobs = {1, 2, 3}
    Refs = {r1, r2, r3}
    Workers = 2
    RetainedRows = 1
    Retention = 1
    MaximumFiles = 3
    Attempts = 2
    MaxTime = 1
    MaxFaults = 1
    MaxCrashes = 1
    None = None
INVARIANTS
    PlansLast
    ReceiptsAreNewest
    PublishedWithinBound
SYMMETRY MCSymmetry
CHECK_DEADLOCK FALSE
