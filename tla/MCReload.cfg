SPECIFICATION FairSpec
CONSTANTS
    Files <- MCFiles
    Script <- MCScript
    Cwd <- MCCwd
    DirsGiven = FALSE
    ReloadDirs <- NoPaths
    IgnoreDirs <- Tests
    IgnorePaths <- NoPaths
    GlobMatched <- NoPaths
    MaxEdits = 2
    MaxFaults = 1
    MaxNotices = 3
INVARIANTS
    OneChild
    StaleExplained
    EndsForCause
PROPERTIES
    ReloadsSettle
CHECK_DEADLOCK FALSE
