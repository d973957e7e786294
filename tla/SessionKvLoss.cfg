SPECIFICATION Spec
CONSTANTS
    Op = {u1, u2}
    Socket = {s1}
    Actor = {}
    Handler = {h1, h2}
    Backend = "kv"
    Legacy = FALSE
    MaxInit = 1
    MaxFaults = 0
    None = None
INVARIANT AckedDurable
