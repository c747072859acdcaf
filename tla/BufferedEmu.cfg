SPECIFICATION Spec
CONSTANTS
    Kinds = {"stereo", "effects"}
    Unit = 2
    Factor = 1
    Clocks = 16
    Overshoot = 1
    BufferSize = 10
    Width = 3
    Latency = 2
    Counts = {1, 2, 7}
    Places = {{}, {0}, {1}, {0, 2}, {3}}
    Emulators = {"fixed", "unknown"}
INVARIANTS
    BufferInv
PROPERTIES
    PlayProgress
