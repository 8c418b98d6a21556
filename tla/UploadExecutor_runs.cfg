SPECIFICATION RerunSpec
CONSTANTS
    video = video
    image = image
    single = single
    sumV = sumV
    sumI = sumI
    None = None
    Ops <- MCOps
    Images <- MCImages
    VideoOf <- MCVideoOf
    Path <- MCPath
    Checksums <- MCSharedChecksums
    Sha1 <- MCSharedSha1
    Concurrency = 2
    MaxAttempts = 3
    MaxRetries = 2
    MaxFaults = 3
INVARIANTS
    ImageAfterVideo
    CompletedOnServer
    LinkedToVideo
    CreatedByOperation
    ReportIsTrue
PROPERTIES
    LedgerSpec
    Convergence
