SPECIFICATION Spec
CONSTANTS
    Types <- MCTypes
    TrackCounts = {1, 2, 3, 4, 5}
    Garbage = {0, 1, 5}
    MayFail = TRUE
INVARIANTS
    FileInv
    PlaylistCovers
    NothingLoaded
