SPECIFICATION Spec
CONSTANTS
    v1 = v1
    TrackCount = 1
    Voices = {v1}
    Outcomes = {"ok"}
    BufSize = 2
    SilenceMax = 4
    InitialSilence = 3
    Lookahead = 2
    SkipThreshold = 4
    FadeBlock = 1
    FadeShift = 1
    FadeUnit = 4
    ShiftWidth = 8
    NoFade = 100
    PlayCounts = {3}
    SkipCounts = {}
    SeekTimes = {}
    Fades <- MCNoFades
    TrackFades = {}
    SongLength = 100
    LastFade = 2
    MaxTime = 12
INVARIANTS
    SilenceIsNoticed
CHECK_DEADLOCK FALSE
