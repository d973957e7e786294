SPECIFICATION FairSpec
CONSTANTS
    Tab = {t1, t2}
    RetryLimit = 1
    MaxFaults = 2
    MaxClosing = 0
    None = None
PROPERTY EventuallyAnswered
CHECK_DEADLOCK FALSE
