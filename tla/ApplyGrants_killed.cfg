SPECIFICATION Spec
CONSTANTS
    Owners = {o1}
    Receipts = {r1, r2}
    ReceiptSeconds = 2
    GrantSeconds = 2
    SpentLimit = 2
    Second = 1
    Start = 0
    MaxTime = 1
    MaxKeys = 3
    MaxCalls = 1
    MaxRestarts = 1
    None = None
INVARIANT
    ResumeNeedsNewDryRun
CHECK_DEADLOCK FALSE
