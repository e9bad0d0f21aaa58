SPECIFICATION Spec
CONSTANTS
    Offset = 7
    MaxRtt = 10
    Baseline = 10
    FastStart = 2
    Interval = 8
    CountCap = 3
    Drift <- MCDrift
    Delays = {2, 6}
    MaxNow = 17
    MaxFlight = 2
INVARIANTS
    NoiseIsNotDrift ConversionsInvert
PROPERTIES
    EstimateMovesForward
CHECK_DEADLOCK FALSE
