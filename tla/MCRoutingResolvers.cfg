SPECIFICATION HistSpec
CONSTANTS
    Addresses = {a4}
    Prefixes = {a4, r4}
    V6 = {}
    Leftovers = {}
    Resolvers = {r4}
    Pipes = {pipe1}
    Callers = {query1}
    Sweeper = sweeper
    Engine = engine
    Nobody = Nobody
    Ttls = {1}
    MinLease = 1
    MaxLease = 1
    MaxLeases = 1
    SweepEvery = 1
    LongestAnswer = 1
    LastInstant = 1
INVARIANT
    TunnelledResolversRouted
