SPECIFICATION Spec
CONSTANTS
    Types <- MCStaleTypes
    TrackCounts = {2}
    Garbage = {0}
    MayFail = FALSE
INVARIANTS
    SongExists
