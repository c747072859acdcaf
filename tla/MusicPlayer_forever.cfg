SPECIFICATION Spec
CONSTANTS
    TrackCount = 1
    Keys = {"loop"}
    Length = 1
    FadeLength = 2
    SongEnds = FALSE
    MaxKeys = 1
    MaxTime = 5
PROPERTIES
    LoopsForever
CHECK_DEADLOCK FALSE
