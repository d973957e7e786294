SPECIFICATION Spec
CONSTANTS
    Client = {c1}
    Mutation = {m1}
    Uuid = {u1}
    MaxFaults = 0
    MaxCrashes = 0
    MaxMoves = 1
    None = None
INVARIANT ForwardedOnce
CHECK_DEADLOCK FALSE
