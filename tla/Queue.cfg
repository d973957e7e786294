SPECIFICATION Spec
CONSTANTS
    Client = {c1, c2}
    Mutation = {m1, m2}
    Uuid = {u1, u2}
    MaxFaults = 1
    MaxCrashes = 1
    MaxMoves = 1
    None = None
SYMMETRY Symmetric
INVARIANTS TypeOK SendsLeasedHead NothingOvertaken HeirExists NewestIntentKept RunnerAwake
