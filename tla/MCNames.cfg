SPECIFICATION HistSpec
CONSTANTS
    Requests = {r1, r2}
    Main = main
    Nobody = nobody
    MostLives = 3
INVARIANTS
    UndoneBeforeRefusal
    ForgottenOnceProved
    SweptByNextStart
    GivenBackWhenQuiet
SYMMETRY Symmetry
CHECK_DEADLOCK FALSE
