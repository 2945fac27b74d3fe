SPECIFICATION Spec
CONSTANTS
    Conns = {c1, c2}
    Tokens = {t1}
    Ttys = {}
    Sessions = {s1}
    Roots = {r1}
    Keys = {k1, k2}
    Capabilities = {}
    Ttls = {}
    Ops = {"GET"}
    None = None
    RequestTtl = 1
    Cooldown = 0
    TouchCache = 0
    MaxPendingPerScope = 1
    MaxGrant = 1
    MaxRequestedGrant = 1
    ReceiptTtl = 1
    MaxReceipts = 1
    MaxRequests = 2
    MaxEpoch = 0
    MaxRegistrations = 2
    MaxVersion = 1
SYMMETRY FullSymmetry
INVARIANTS
    HardwareSlotExact
    LateOutputDiscarded
    SessionGrantsRegistered
    CachedReadIsCurrent
    WaitsOnOwnRequest
    PendingBounded
