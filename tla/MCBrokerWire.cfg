CONSTANTS
    c1 = c1
    c2 = c2
    Clients = {c1, c2}
    Frames <- SmallFrames
    MaxFrame = 2
    Workers <- One
    Depth <- One
    Sizes = {0, 2, 3}
    ApprovalTimeout = 2
    ControlTimeout = 1
SPECIFICATION Spec
INVARIANTS ValueIsWhole
PROPERTIES LockGetsThrough CallReturns
