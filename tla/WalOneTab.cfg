SPECIFICATION Spec
CONSTANTS
    Tab = {t1}
    Edit = {e1, e2}
    Task = {k1, k2}
    MaxFaults = 1
    MaxBusy = 3
CONSTRAINT BusyBound
SYMMETRY Symmetry
VIEW ViewUndelivered
INVARIANTS WalInv NoStranded PendingInv
