CONSTANTS
    Calls = {c1, c2}
    MaxJobs = 1
    MaxLost = 1
    Connects = {k1, k2}
    Moves = {m1}
    Uses = {u1}
    d1 = d1
    Dirs = {d1, d2}
    NoHost = NoHost
    a = a
    b = b
    f = f
    g = g
    worse = worse
    better = better
    Watches <- MCWatches
    Diags = {worse, better}
    Severity <- MCSeverity
    PerFile = 2
    Total = 3
    MaxFiles = 1
    e1 = e1
    e2 = e2
    k1 = k1
    k2 = k2
    Edits = {e1, e2}
    Formats = {t1}
    Turns = {s1, s2}
    Formatters <- MCFormatters
SPECIFICATION HostSpec
INVARIANT FailsLoudly
CHECK_DEADLOCK FALSE
