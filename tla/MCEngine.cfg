SPECIFICATION HistSpec
CONSTANTS
    Sources = {here, there}
    CutShortRun = 2
    BackOff <- MCBackOff
    MostFailures = 2
    MostRequests = 1
    MostChanges = 2
INVARIANT
    HandoverIsSilent
PROPERTIES
    HTTP3PaysOnce
    DeadTunnelNoticed
    CarriesWhereItCan
    ReturnsToH3
