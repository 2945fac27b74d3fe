SPECIFICATION Spec
CONSTANTS
    c1 = c1
    c2 = c2
    c3 = c3
    Conns = {c1, c2, c3}
    Labels <- MCLabels
    Chars <- MCChars
    Addresses <- MCAddresses
    Loopback <- MCLoopback
    Urls <- MCUrls
    Asks <- MCAsks
    Configs <- MCConfigs
    FILES_PORT <- Files
    MAX_OPENS = 1
    MAX_TRACKED = 2
    OPEN_WINDOW = 1
    None = None
INVARIANTS LoopBounded OpensWithLeave
PROPERTIES OpensEnd
CHECK_DEADLOCK FALSE
