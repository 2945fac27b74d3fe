CONSTANTS
    Ports = {p1, p0}
    Unsafe = {p0}
    BridgePort = p9
    Armers = {a1}
    Holds = {h1, h2}
    Calls = {c1, c2}
    Remotes = {laptop, other}
    Peers = {laptop}
    Loopback = lo
    MultiPeer = TRUE
    Capacity = 2
    Ttls = {1}
    MaxBusy = 3
    None = None
SPECIFICATION Spec
INVARIANTS HeldHasOneRoute
PROPERTIES LiveHolderKept CallsAnswered OrphanedHoldExits
