SPECIFICATION Spec
CONSTANTS
    Writers = {w1, w2}
    a = a
    b = b
    k = k
    Names <- MCNames
    Dirs <- MCDirs
    Configs <- MCConfigs
    Commands <- MCCommands
    Disks <- MCDisks
    MaxSync = 1
    Sync = Sync
    Shipped = Shipped
    None = None
INVARIANTS OneTier LeavesNothingBehind
PROPERTIES NoLostUpdate CommandsEnd
CHECK_DEADLOCK FALSE
