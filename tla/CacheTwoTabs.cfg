SPECIFICATION Spec
CONSTANTS
    Tab = {t1, t2}
    RetryLimit = 1
    MaxFaults = 1
    MaxClosing = 2
    None = None
SYMMETRY Symmetric
INVARIANTS TypeOK InFlightHasOwner NeverIdle RequiredWipe AnsweredOnce NoSurprise
CHECK_DEADLOCK FALSE
