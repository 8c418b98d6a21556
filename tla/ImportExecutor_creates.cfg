SPECIFICATION Spec
CONSTANTS
    video = video
    image = image
    single = single
    sumV = sumV
    sumI = sumI
    sumS = sumS
    None = None
    Ops <- MCOneOp
    Images <- MCNone
    VideoOf <- MCNoVideo
    Path <- MCOnePath
    Checksums <- MCOneSum
    Sha1 <- MCOneSha1
    Described <- MCOneOp
    Archived <- MCOneOp
    Albums <- MCAlbums
    AlbumsOf <- MCOneAlbumsOf
    MaxAttempts = 3
    MaxRetries = 2
    MaxOwned = 1
    MaxFaults = 2
INVARIANT
    AlbumCreatesWithinPlan
