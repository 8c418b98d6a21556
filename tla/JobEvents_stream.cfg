SPECIFICATION FairSpec
CONSTANTS
    c1 = c1
    c2 = c2
    c3 = c3
    j1 = j1
    j2 = j2
    o1 = o1
    o2 = o2
    Clients = {c1, c2, c3}
    Jobs = {j1, j2}
    Owners = {o1, o2}
    JobOf <- MCJobOf
    JobOwner <- MCJobOwner
    ReplayEvents = 1
    ChannelCapacity = 1
    PerSession = 2
    PerProcess = 2
    MaxEvents = 3
    None = None
    Heartbeat = Heartbeat
    Exhausted = Exhausted
INVARIANTS
    LeasesExact
PROPERTIES
    NoGap
    StreamsEnd
CHECK_DEADLOCK FALSE
