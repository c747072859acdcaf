SPECIFICATION Spec
CONSTANTS
    ClocksPerSample = 4
    InstrClocks = {2, 3}
    RegTimes <- MCRegTimes
    MaxRegTime = 3
    SkippingTime = 16
    ExtraPairs = 8
    Requests = {1, 5}
    Skips = {2, 7}
    LongSkip = 4
    SkipRest = 2
    Programs = {{"dsp"}, {"timer"}}
    Prescalers = {2, 5}
    Targets = {0, 1}
    DividerSize = 3
    CounterSize = 3
INVARIANTS
    SpcInv
    EveryPairOnce
    TimerExact
CHECK_DEADLOCK FALSE
