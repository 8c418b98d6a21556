SPECIFICATION FairSpec
CONSTANTS
    MaxJobs = 3
    Kinds = {"read"}
    Plans = {p1}
    ConcurrentJobs = 2
    QueuedJobs = 1
    RetainedJobs = 3
    MaxFaults = 0
    MaxPanics = 2
    None = None
PROPERTIES
    EveryJobEnds
    ShutdownCompletes
