CONSTANTS
    p1 = p1
    p0 = p0
    Handlers = {c1, c2}
    Origins = {vmA, vmB}
    Ports = {p1}
    Own = {p0}
    Urls <- SmallUrls
    MaxForwards = 1
    MultiPeer = TRUE
    Gens = {g1, g2}
    OpenTtl = 1
    HoldTtls = {1}
    MaxHold = 1
    None = None
SPECIFICATION Spec
INVARIANTS LiveLeaseIsServed
PROPERTIES LiveLeaseKeepsOwner StoppedLeaseReleased WaitersWake
