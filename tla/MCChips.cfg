SPECIFICATION Spec
VIEW ChipView
INVARIANTS
    ChipInv
PROPERTIES
    Waveforms
    DmcForetold
CHECK_DEADLOCK FALSE
