SPECIFICATION HistSpec
CONSTANTS
    Addresses = {a1, a2, a3}
    Ttls = {1, 3, 6}
    Callers = {c1}
    Nobody = Nobody
    MinLease = 2
    MaxLease = 4
    MaxLeases = 2
    SweepEvery = 1
    LongestAnswer = 2
    LastInstant = 6
INVARIANTS
    LetGoInTime
    WithinLimit
PROPERTY
    LeavesInTurn
SYMMETRY Symmetric
