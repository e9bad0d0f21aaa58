SPECIFICATION Spec
CONSTANTS
    Conn = {c1, c2, c3}
    s1 = s1
    s2 = s2
    r1 = r1
    r2 = r2
    Server = {s1, s2}
    Hellos <- MCHellos
    Req = {}
    ReasonOf <- MCReasonOf
    MaxConcurrentHandshakes = 1
    MaxSets = 1
    NoConn = NoConn
    NoServer = NoServer
    NoHello = NoHello
    NoReason = NoReason
SYMMETRY Symmetry
INVARIANTS SingleOwner YieldedInOrder OnlyIncumbentServes PermitsConserved
PROPERTIES RejectedForALiveServer PlaybackNotPreempted KeepsLifecycle
CHECK_DEADLOCK FALSE
