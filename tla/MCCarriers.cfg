SPECIFICATION HistSpec
CONSTANTS
    stream1 = stream1
    stream2 = stream2
    first = stream1
    second = stream2
    Endpoints <- MCEndpoints
    Meant <- MCMeant
    StreamId = 0
    Inbound <- MCInbound
    Outbound <- MCOutbound
    MaxDatagrams = 1
    Strategies = {"named", "fronted", "no-sni", "split", "split-slow"}
    Hellos <- MCHellos
    Needle <- MCNeedle
    Packets <- MCPackets
    MaxRun = 2
    Replies <- MCReplies
    Window = 3
INVARIANTS
    RuleBrokenIsTold
    NothingOutlives
    GivenAsMeant
    PayloadsAsWhole
    PacketsGoOutOnce
    FirstSegmentHidesTheName
PROPERTIES
    AttemptReturns
    GoodbyeEndsIt
    EverythingIsHeard
CHECK_DEADLOCK FALSE
