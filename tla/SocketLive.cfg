SPECIFICATION FairSpec
CONSTANTS
    Socket = {s1, s2, s3}
    None = None
    MaxRetries = 2
    MaxMissed = 0
    ResolverMayFail = FALSE
    MaxSends = 0
    MaxCalls = 2
    MaxFaults = 3
INVARIANT KeepsTrying
PROPERTY EventuallyConnected
CHECK_DEADLOCK FALSE
