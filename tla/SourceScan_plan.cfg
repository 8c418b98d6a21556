SPECIFICATION Spec
CONSTANTS
    None = None
    Year = Year
    AlbumA = AlbumA
    AlbumB = AlbumB
    Summer = Summer
    Fields <- MCFields
    YearDirs <- MCYearDirs
    SystemDirs = {}
    UnnamableDirs <- MCUnnamableDirs
    AlbumFolders = TRUE
    DatedStems = {}
    Sources = {"folder", "takeout", "apple", "picasa"}
    Natives <- MCNatives
    Entries <- MCEntries
    Contents = {"p2", "long"}
    LenOf <- MCLenOf
    DocOf <- MCDocOf
    IniOf <- MCIniOf
    Specials <- MCSpecials
    NoisePaths <- MCNoisePaths
    MaxEntries = 4
    MaxDirectoryEntries = 3
    MaxChanges = 1
INVARIANTS
    UnreportedIsWhole
    MergeIsOrderFree
    NothingLost
    PlanIsExecutable
CHECK_DEADLOCK FALSE
