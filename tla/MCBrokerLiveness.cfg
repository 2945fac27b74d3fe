SPECIFICATION FairSpec
CONSTANTS
    Conns = {c1, c2}
    Tokens = {}
    Ttys = {y1}
    Sessions = {}
    Roots = {r1}
    Keys = {k1}
    Capabilities = {}
    Ttls = {}
    Ops = {"GET"}
    None = None
    RequestTtl = 1
    Cooldown = 1
    TouchCache = 0
    MaxPendingPerScope = 1
    MaxGrant = 1
    MaxRequestedGrant = 1
    ReceiptTtl = 1
    MaxReceipts = 1
    MaxRequests = 2
    MaxEpoch = 0
    MaxRegistrations = 0
    MaxVersion = 0
PROPERTIES
    Answered
