SPECIFICATION Spec
CONSTANTS
    Op = {u1}
    Socket = {s1, s2}
    Actor = {s1}
    Handler = {h1, h2}
    Backend = "kv"
    Legacy = TRUE
    MaxInit = 1
    MaxFaults = 1
    None = None
SYMMETRY Symmetry
VIEW LiveView
INVARIANT AckedDurable
