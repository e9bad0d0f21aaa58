SPECIFICATION FairSpec
CONSTANTS
    c1 = c1
    c2 = c2
    Call = {c1, c2}
    Time = Time
    Goodbye = Goodbye
    Close = Close
    NoCmd = NoCmd
    MaxTimes = 2
PROPERTIES
    GuardReleases KeepsPromise
INVARIANTS
    GoodbyeIsLast WireHasNoGap OkMeansWritten DeadWriterFailsFast DisconnectOkIsFinal
CHECK_DEADLOCK FALSE
