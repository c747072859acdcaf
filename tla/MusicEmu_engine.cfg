SPECIFICATION PlayingSpec
CONSTANTS
    v1 = v1
    TrackCount = 1
    Voices = {v1}
    Outcomes = {"ok", "end", "error"}
    BufSize = 2
    SilenceMax = 4
    InitialSilence = 3
    Lookahead = 2
    SkipThreshold = 4
    FadeBlock = 1
    FadeShift = 1
    FadeUnit = 4
    ShiftWidth = 8
    NoFade = 100
    PlayCounts = {1, 3}
    SkipCounts = {2, 5}
    SeekTimes = {2}
    Fades <- MCFades
    TrackFades <- MCTrackFades
    SongLength = 5
    LastFade = 2
    MaxTime = 8
INVARIANTS
    EngineInv
    SilenceEndKeepsSound
    MuteKept
PROPERTIES
    ImplementsQueue
    FadeEnds
    CallsProgress
    EndComesNearer
    EndIsReported
CHECK_DEADLOCK FALSE
