CONSTANTS
    Detectors <- MCDetectors
    Fallbacks <- MCFallbacks
    MaxImages = 3
    MaxDistance = 1
    LibraryThreshold = 0
    DefaultThreshold = 1
CHECK_DEADLOCK FALSE
SPECIFICATION FairSpec
INVARIANTS
    TypeOK
    GivesUpLast
    NothingTriedTwice
    RankingIsHonest
PROPERTIES
    WorkRunsOut
    JobEnds
