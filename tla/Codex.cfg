SPECIFICATION FairSpec
CONSTANTS
    None = None
    CxAccounts = {1, 2}
    CxModes = {"remote", "local"}
    CxStorages = {"file", "keyring", "auto"}
    CxEvents <- AllEvents
    CxMaxEvents = 3
INVARIANTS
    ManagerInv
PROPERTIES
    TokensKept
    DeviceFollowsPool
CHECK_DEADLOCK FALSE
