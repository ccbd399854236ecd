\* A process dies; no call fails.
CONSTANTS
    u1 = u1
    u2 = u2
    a1 = a1
    a2 = a2
    a3 = a3
    s1 = s1
    s2 = s2
    MaxVersion = 1
    MaxCrashes = 0
    Hosts <- MCHosts
    Reader = {}
    Unit <- MCUnits
    Nothing = Nothing
    Runs <- MCParallel
    MaxFlushes = 1
    Writer = {w1, w2}
    MaxFaults = 0
    MaxStops = 0
    Actor = {a1, a2, a3}
    Process = {s1, s2}
    ProcessOf <- MCProcessOf
    NoActor = NoActor
    MaxFailures = 0
    MaxDeaths = 1
SPECIFICATION RunSpec
CHECK_DEADLOCK FALSE
PROPERTIES OnlyLeftRunsMarked
