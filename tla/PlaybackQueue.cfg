SPECIFICATION Spec
CONSTANTS
    Second = 8
    Rate = 3
    Arrivals <- MCArrivals
    Times = {0, 6, 11}
    MaxMoves = 1
    MaxClears = 1
INVARIANTS
    TypeOK OneTimeline CursorCountsFrames GaplessIsLossless
