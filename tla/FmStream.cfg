SPECIFICATION FairSpec
CONSTANTS
    Systems = {"vgm", "gym"}
    Ratios <- SmallRatios
    Sizes = {16, 18}
    Tempos <- SmallTempos
    One = 4
    BlipFactor = 2
    BlipOne = 4
    Logs <- SmallLogs
    Songs <- SmallSongs
    Requests = {5, 37}
INVARIANTS
    StreamInv
    InStep
    EndIsHeard
PROPERTIES
    PlayProgress
    PlayReturns
CHECK_DEADLOCK FALSE
