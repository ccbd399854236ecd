CONSTANTS
    r1 = r1  r2 = r2  d1 = d1  d2 = d2  q1 = q1  q2 = q2
    Requests = {r1, r2}
    Disposals = {d1, d2}
    MaxWire = 2
    MaxTalk = 2
    Texts <- MCTexts
    Strings <- MCStrings
    Bytes <- MCBytes
    OrdinaryMax = 20
    ProjectableMax = 60
    ShellMax = 2
    DepthMax = 3
    MaxForeign = 3
    CacheMax = 2
    Prompts = {q1, q2}
    MessageIds = {m1, m2, u1}
    UserIds = {u1}
    NoId = NoId
    Tools = {t1}
    Statuses = {"pending", "completed"}
    MaxUpdates = 4
SPECIFICATION EndpointsSpec
INVARIANTS RpcSafe RecordsSafe ExecSafe AcpSafe TransportSafe TranscriptSafe
PROPERTIES EndpointsStand EndpointsSettle
CHECK_DEADLOCK FALSE
