SPECIFICATION FairSpec
CONSTANTS
    TrackCount = 2
    Keys = {"left", "right", "space", "setting", "loop", "quit"}
    Length = 1
    FadeLength = 2
    SongEnds = TRUE
    MaxKeys = 3
    MaxTime = 5
INVARIANTS
    PlayerInv
PROPERTIES
    ComesToRest
CHECK_DEADLOCK FALSE
