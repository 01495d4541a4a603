SPECIFICATION PoolSpec
CONSTANTS
    d1 = d1
    p1 = p1
    b1 = b1
    k1 = k1
    k2 = k2
    Devices = {d1}
    Agents = {p1}
    DeviceOf <- SoloDeviceOf
    Accounts = {1, 2}
    Admins = {b1}
    MgmtKeys = {1, 2}
    Provisioning = {1}
    Policies = {1, 2}
    MaxKeys = 4
    MaxOps = 2
    MaxFaults = 1
    KBProviders = {"deepseek", "openrouter"}
    KBAccounts = {1, 2}
    KBKeys = {k1, k2}
    KBDevices = {d1}
    KBMaxSaves = 2
    KBMaxTurns = 1
    None = None
INVARIANTS
    KeysInv
    BalancesInv
PROPERTIES
    FollowsGrant
    
CHECK_DEADLOCK FALSE
