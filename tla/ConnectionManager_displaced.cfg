SPECIFICATION Spec
CONSTANTS
    Conn = {c1, c2}
    s1 = s1
    s2 = s2
    r1 = r1
    r2 = r2
    Server = {s1, s2}
    Hellos <- MCHellos
    Req = {}
    ReasonOf <- MCReasonOf
    MaxConcurrentHandshakes = 1
    MaxSets = 0
    NoConn = NoConn
    NoServer = NoServer
    NoHello = NoHello
    NoReason = NoReason
PROPERTY DisplacedArrivesClosed
CHECK_DEADLOCK FALSE
