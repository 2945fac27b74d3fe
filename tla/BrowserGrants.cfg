SPECIFICATION BGFairSpec
CONSTANTS
    Authorities = {a1, a2}
    None = None
    Connections = {r1}
    MaxConcurrent = 1
    Ttls = {1}
    MaxId = 3
PROPERTIES
    EndReachesEverybody
INVARIANTS
    GrantsUnderAuthority
    PipesCanBeCut
    OpenChannelsAreHeld
