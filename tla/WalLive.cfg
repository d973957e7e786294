SPECIFICATION FairSpec
CONSTANTS
    Tab = {t1}
    Edit = {e1}
    Task = {k1}
    MaxFaults = 2
    MaxBusy = 9
PROPERTY EventuallyDelivered
