SPECIFICATION Spec
CONSTANTS
    Tab = {t1, t2}
    Edit = {e1}
    Task = {k1}
    MaxFaults = 0
    MaxBusy = 3
CONSTRAINT BusyBound
SYMMETRY Symmetry
VIEW ViewWithoutOwn
INVARIANT NoEditLost
PROPERTY RowsOnlyAdvance
