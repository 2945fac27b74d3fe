SPECIFICATION CFairSpec
CONSTANTS
    Authorities <- MCAuthorities
    None = None
    Connections = {}
    MaxConcurrent = 1
    Ttls = {1}
    MaxId = 1
    MaxUnhealthy = 1
    WireCapacity = 2
    MaxInstance = 1
    MaxEpoch = 2
    MaxStreams = 2
INVARIANTS NoMissedLock
PROPERTIES ObservationIsOrdered LockReachesGrants
