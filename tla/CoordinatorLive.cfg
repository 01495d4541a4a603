SPECIFICATION FairSpec
 
PROPERTY NoThrash
CONSTANTS
    a = a
    b = b
    c = c
    Native = Native
    None = None
    NoBackup = NoBackup
    Accounts = {a, b, c}
    FileBackend = TRUE
    AutoSwitch = {TRUE}
    Util <- BWorse
    NeverUsed = {}
    MaxGen = 1
    Disturbances = {"network", "pool", "take", "lapse", "wipe", "rotate", "refresh", "pin", "idle", "settings"}
    MaxDisturbances = 2
