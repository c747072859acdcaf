SPECIFICATION Spec
CONSTANTS
    Systems = {"vgm"}
    Ratios <- RealRatios
    Sizes = {727}
    Tempos <- RealTempos
    One = 4096
    BlipFactor = 404
    BlipOne = 65536
    Logs <- RealLogs
    Songs = {}
    Requests = {727}
INVARIANT
    PsgInOrder
