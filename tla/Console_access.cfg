SPECIFICATION ConsoleSpec
CONSTANTS
    Owners = {o1, o2}
    Receipts = {r1}
    Logins = {l1, l2}
    Peers = {p1, p2}
    ReceiptSeconds = 1
    GrantSeconds = 1
    SpentLimit = 2
    Second = 2
    Start = 1
    MaxTime = 5
    MaxKeys = 2
    MaxCalls = 1
    MaxRestarts = 1
    MaxSessions = 1
    IdleSeconds = 1
    AbsoluteSeconds = 1
    BootstrapSeconds = 1
    StateSeconds = 1
    MaxPairingFailures = 1
    FailureWindow = 1
    None = None
SYMMETRY MCSymmetry
INVARIANTS
    OneJobPerReceipt
    SettledRunIsFinal
    AuthorizationIsFresh
    LogoutIsFinal
    OneSessionPerLogin
CHECK_DEADLOCK FALSE
