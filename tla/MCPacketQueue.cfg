SPECIFICATION HistSpec
CONSTANTS
    Buckets = {1, 2}
    Connections <- SharedConnections
    BucketOf <- SharedBuckets
    Packets <- SharedPackets
    AckMod = 8
    NoAck = NoAck
    Quantum = 2
    Limit = 4
    Batch = 2
INVARIANTS
    CountsAreExact
    NoLostWakeUp
    NeitherRunsAway
PROPERTIES
    ThinnedIsCovered
    RoundRobin
