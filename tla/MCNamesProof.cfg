SPECIFICATION HistSpec
CONSTANTS
    Requests = {r1, r2}
    Main = main
    Nobody = nobody
    MostLives = 1
INVARIANT
    ProvedNotAssumed
CHECK_DEADLOCK FALSE
