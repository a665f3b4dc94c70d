SPECIFICATION HistSpec
CONSTANTS
    Lowered <- MCLowered
    Ports = {50000}
    pid1 = pid1
    line1 = line1
    pid2 = pid2
    Pids = {pid1, pid2}
    Programs <- MCPrograms
    TableTtl = 1
    MaxImages = 1
    Nothing = Nothing
    Refreshing = Refreshing
    query1 = query1
    query2 = query2
    connection1 = connection1
    Udp = {query1, query2}
    Tcp = {connection1}
    Installer = pipe
    PortOf <- MCPortOf
    Asks <- MCAsks
    Garbage = garbage
    Inputs <- MCInputs
    Listen = "127.0.0.1"
    Addresses = {a1}
    LineAddresses = {line1, line2}
    MaxInFlight = 2
    MaxEvents = 2
INVARIANT InstallDoesNotWait
