SPECIFICATION HistSpec
CONSTANTS
    Addresses = {a4}
    Prefixes = {a4, a6}
    V6 = {a6}
    Leftovers = {a6}
    Resolvers = {}
    Pipes = {pipe1}
    Callers = {query1}
    Sweeper = sweeper
    Engine = engine
    Nobody = Nobody
    Ttls = {0}
    MinLease = 1
    MaxLease = 1
    MaxLeases = 1
    SweepEvery = 1
    LongestAnswer = 1
    LastInstant = 1
INVARIANT
    BookkeepingIsExact
PROPERTIES
    NeitherHalfErasesTheOther
    KeepsPromise
    AgreesWhenEditsStop
