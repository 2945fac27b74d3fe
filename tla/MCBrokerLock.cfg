SPECIFICATION Spec
CONSTANTS
    Conns = {c1, c2}
    Tokens = {}
    Ttys = {y1}
    Sessions = {}
    Roots = {r1}
    Keys = {k1}
    Capabilities = {cap1}
    Ttls = {}
    Ops = {"REQUEST", "AUTHORIZE"}
    None = None
    RequestTtl = 1
    Cooldown = 2
    TouchCache = 1
    MaxPendingPerScope = 1
    MaxGrant = 1
    MaxRequestedGrant = 1
    ReceiptTtl = 1
    MaxReceipts = 1
    MaxRequests = 2
    MaxEpoch = 1
    MaxRegistrations = 0
    MaxVersion = 0
SYMMETRY ConnSymmetry
INVARIANTS
    LockWipesAuthority
    ReceiptPerCeremony
    OneTouchPerApproval
PROPERTIES ImplementsTouchGate
