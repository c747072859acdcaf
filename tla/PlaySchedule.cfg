SPECIFICATION FairSpec
CONSTANTS
    Emus = {"nsf", "gbs", "kss", "sap", "ay"}
    Frames = {5, 20}
    Periods = {12, 13}
    TimerPeriods = {2}
    ShortPeriods = {0, 3}
    Divisor = 2
    PlayDelay = 2
    MaxRun = 4
    Overshoot = 1
    IllegalCost = 1
    IntCosts = {1, 2}
    MaxElapsed = 18
INVARIANTS
    SchedInv
    TempoKept
    DueIsServed
PROPERTIES
    FrameProgress
    FrameReturns
