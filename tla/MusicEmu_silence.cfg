SPECIFICATION Spec
CONSTANTS
    v1 = v1
    TrackCount = 1
    Voices = {v1}
    Outcomes = {"ok", "end"}
    BufSize = 2
    SilenceMax = 10
    InitialSilence = 3
    Lookahead = 4
    SkipThreshold = 4
    FadeBlock = 1
    FadeShift = 1
    FadeUnit = 4
    ShiftWidth = 8
    NoFade = 100
    PlayCounts = {3}
    SkipCounts = {1, 6}
    SeekTimes = {}
    Fades <- MCSilence
    TrackFades = {}
    SongLength = 36
    LastFade = 0
    MaxTime = 12
PROPERTIES
    LongSilenceEnds
    NoEarlyEnd
    PromptEnd
CHECK_DEADLOCK FALSE
