\* Transactions on three machines: deaths, power losses, failing calls,
\* reordered changes.  Four shapes of run.  Two writers of an artifact.
\* Three calls in two processes.
CONSTANTS
    u1 = u1
    u2 = u2
    a1 = a1
    a2 = a2
    a3 = a3
    s1 = s1
    s2 = s2
    MaxVersion = 2
    MaxCrashes = 2
    Hosts <- MCHosts
    Reader = {r1}
    Unit <- MCUnits
    Nothing = Nothing
    Runs <- MCRuns
    MaxFlushes = 1
    Writer = {w1, w2}
    MaxFaults = 2
    MaxStops = 2
    Actor = {a1, a2, a3}
    Process = {s1, s2}
    ProcessOf <- MCProcessOf
    NoActor = NoActor
    MaxFailures = 1
    MaxDeaths = 1
SPECIFICATION RunFairSpec
INVARIANTS TxSafe RecordKept OriginalPromptOnce ArtifactsSafe RecoverySafe
PROPERTIES TxDecides RunSettles EndToldAfterRecord ReopenedForTask
CHECK_DEADLOCK FALSE
