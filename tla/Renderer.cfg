SPECIFICATION ReadingsSpec
CONSTANTS
    Second = 1
    Rate = 1
    Deadband = 1
    Engage = 2
    Gross = 6
    TargetTime = 4
    MinInterval = 2
    MaxWindow = 2
    MinWindow = 1
    Span = 4
    StreakPlans = 1
    Period = 2
    Deltas = {0, 1}
    Delays = {3}
    MaxDelay = 2
    EarlyWindow = 1
    Arrivals <- Unbroken
    MaxNow = 12
    MaxClears = 1
    MaxSets = 1
INVARIANTS
    AnchoredBeforeHeard NeverEarly
PROPERTIES
    DrivesCorrection
CHECK_DEADLOCK FALSE
