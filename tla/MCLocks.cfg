SPECIFICATION LocksSpec
CONSTANTS
    c1 = c1  c2 = c2  c3 = c3
    i1 = i1  i2 = i2  i3 = i3
    l1 = l1  l2 = l2  l3 = l3
    p1 = p1  p2 = p2  p3 = p3
    NoClaim = NoClaim
    Claim = {c1, c2, c3}
    Instance = {i1, i2, i3}
    InstanceOf <- MCInstanceOf
    ReusedPid = {i3}
    FaultyScan = {c3}
    MaxTicket = 3
    Call = {l1, l2, l3}
    Watch = {w1}
    NoCall = NoCall
    None = None
    Proc <- MCThree
    Regimes <- MCSound
INVARIANTS ClaimsSafe LeaseSafe LockSafe
PROPERTIES LocksServe ClaimUseSpec LeaseUseSpec UseSpec
CHECK_DEADLOCK FALSE
