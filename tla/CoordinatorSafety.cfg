SPECIFICATION Spec
INVARIANT TypeOK
INVARIANT RowsKeepIdentityWhileRunning
INVARIANT LeaseIsOfInjected
INVARIANT BackupIsNative
INVARIANT NeverWithoutBackup
PROPERTY InjectsUnderLeaseOrLate
PROPERTY ReinjectionKeepsRotation
PROPERTY ManualKeepsAccount
CONSTANTS
    a = a
    b = b
    c = c
    Native = Native
    None = None
    NoBackup = NoBackup
    Accounts = {a, b}
    FileBackend = TRUE
    AutoSwitch = {TRUE, FALSE}
    Util <- Level
    NeverUsed = {a}
    MaxGen = 2
    Disturbances = {"network", "disk", "settings", "quit", "crash", "rotate", "login", "wipe", "refresh", "pool", "pin", "anypin", "take", "lapse", "idle", "mode"}
    MaxDisturbances = 3
