SPECIFICATION RerunSpec
CONSTANTS
    video = video
    image = image
    single = single
    sumV = sumV
    sumI = sumI
    sumS = sumS
    None = None
    Ops <- MCOps
    Images <- MCImages
    VideoOf <- MCVideoOf
    Path <- MCPath
    Checksums <- MCChecksums
    Sha1 <- MCSha1
    Described <- MCDescribed
    Archived <- MCArchived
    Albums <- MCAlbums
    AlbumsOf <- MCAlbumsOf
    MaxAttempts = 2
    MaxRetries = 1
    MaxOwned = 1
    MaxFaults = 2
INVARIANTS
    MetadataOnServer
    AlbumsAgree
    ReportIsTrue
    StagedIsCurrent
PROPERTIES
    CheckpointIsLedger
    RunsConverge
