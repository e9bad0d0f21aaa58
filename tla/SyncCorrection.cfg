SPECIFICATION CorrSpec
CONSTANTS
    Deadband = 1
    Engage = 2
    Gross = 6
    TargetTime = 8
    MinInterval = 3
    MaxWindow = 4
    MinWindow = 2
    Span = 8
    StreakPlans = 2
    Errors <- BothSides
    Periods = {0, 3, 9}
INVARIANTS
    CorrTypeOK FloorOfWindow CorrectsTheError
PROPERTIES
    DropsNeedEvidence
