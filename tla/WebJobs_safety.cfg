SPECIFICATION Spec
CONSTANTS
    MaxJobs = 3
    Kinds = {"plan", "apply"}
    Plans = {p1}
    ConcurrentJobs = 1
    QueuedJobs = 1
    RetainedJobs = 2
    MaxFaults = 2
    MaxPanics = 1
    None = None
INVARIANTS
    AccountingExact
    ApplyJobsExclusive
    HistoryAgrees
    ArtifactsAgree
PROPERTIES
    TerminalIsFinal
