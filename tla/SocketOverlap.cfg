SPECIFICATION Spec
CONSTANTS
    Socket = {s1, s2, s3}
    None = None
    MaxRetries = 2
    MaxMissed = 1
    ResolverMayFail = TRUE
    MaxSends = 2
    MaxCalls = 3
    MaxFaults = 3
SYMMETRY Symmetric
INVARIANTS TypeOK SocketInv OneAttempt NoOrphan ClosedStaysClosed HeartbeatHasItsSocket InOrder
CHECK_DEADLOCK FALSE
