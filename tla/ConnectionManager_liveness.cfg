SPECIFICATION FairSpec
CONSTANTS
    Conn = {c1, c2}
    s1 = s1
    s2 = s2
    r1 = r1
    r2 = r2
    Server = {s1, s2}
    Hellos <- LiveHellos
    Req = {r1}
    ReasonOf <- MCReasonOf
    MaxConcurrentHandshakes = 0
    MaxSets = 0
    NoConn = NoConn
    NoServer = NoServer
    NoHello = NoHello
    NoReason = NoReason
INVARIANT DisconnectHonest
PROPERTIES BacklogAdmitted DisconnectAnswered DropReleasesAll
CHECK_DEADLOCK FALSE
