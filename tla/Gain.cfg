SPECIFICATION GainSpec
CONSTANTS
    Setter = {s1, s2}
    Volume = {0, 50, 100}
    Curve <- SmallCurve
    Unity = 20
    RampFrames = 4
    MaxBatch = 5
INVARIANTS
    SettlesInOneRamp
PROPERTIES
    NoClick
