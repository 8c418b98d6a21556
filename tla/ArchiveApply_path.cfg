SPECIFICATION RerunSpec
CONSTANTS
    Assets = {1, 2, 3}
    Rank <- MCRank
    Kind <- MCKind
    Versions <- MCVersions
    Albums = {b1}
    b1 = b1
    AlbumName <- MCAlbumName
    Selections <- MCSelections
    Libraries <- MCLibraries
    PageSize = 1
    MaxAssets = 3
    MaxAlbums = 2
    MaxMemberships = 4
    MaxChanges = 1
    MaxFailures = 2
    Runners = {"r1"}
    Chunks = 1
    Foreign = "foreign"
    None = None
INVARIANTS
    QuietIsExact
    PairsComplete
    FinalIsComplete
PROPERTIES
    ReportIsTrue
    Convergence
CHECK_DEADLOCK FALSE
