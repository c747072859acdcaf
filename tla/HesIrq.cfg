SPECIFICATION Spec
CONSTANTS
    Frames = {5}
    OpClocks = {2}
    AccessClocks = 1
    EntryClocks = 2
    Loads = {2, 4}
    PlayPeriod = 3
    Future = 50
    MaxLag = 2
    NDEBUG = TRUE
INVARIANTS
    HesInv
    TimerExact
PROPERTIES
    Prompt
