SPECIFICATION Spec
CONSTANTS
    Op = {u1, u2}
    Socket = {s1, s2}
    Actor = {s1}
    Handler = {h1, h2}
    Backend = "sql"
    Legacy = FALSE
    MaxInit = 1
    MaxFaults = 1
    None = None
SYMMETRY Symmetry
VIEW LiveView
INVARIANTS SessionInv AckedDurable SocketsSynced PeersSeeAcked
PROPERTY ImplementsDurableDoc
