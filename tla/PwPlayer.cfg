SPECIFICATION Spec
CONSTANTS
    Window = 3
    MaxGap = 2
    Tolerance = 40
    Gaps = {0, 2}
    Rates = {0, 1, 2}
    Steps = {0, 1, 2, 3}
    Requested = {0, 3}
    Capacity = 2
    MaxRequests = 2
    MaxNow = 6
INVARIANTS
    DeadThreadReported ReportsOneTimeline
PROPERTIES
    DropEndsAll ReconnectServed
CHECK_DEADLOCK FALSE
