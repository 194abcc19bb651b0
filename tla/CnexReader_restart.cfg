SPECIFICATION Spec
CONSTANTS
    None = None
    Second = 1
    Period = 1
    DayLength = 5
    Week = 12
    BoundEvery = 1
    MaxItems = 2
    Warmup = 2
    Capacity = 3
    Families <- UbxFamilies
INVARIANTS RestartJustified
CHECK_DEADLOCK FALSE
