CONSTANTS
    Tokens = {t1, t2}
    Conns = {a, b}
    Renewer = renewer
    Permits = 1
    t1 = t1
    t2 = t2
    Ttls = {2}
    Receipt <- TwoReceipts
    Lease = 2
    MaxLive = 1
    MaxFaults = 1
    None = None
SPECIFICATION Spec
INVARIANTS AckMeansInserted ReaperArmed
PROPERTIES RenewalCoversGrant FeedRecovers
