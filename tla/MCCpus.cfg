SPECIFICATION Spec
VIEW CpuView
PROPERTIES
    Family6502
    FamilySpc700
    FamilyZ80
CHECK_DEADLOCK FALSE
