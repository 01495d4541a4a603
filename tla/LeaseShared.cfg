SPECIFICATION Spec
CONSTANTS
    a1 = a1
    a2 = a2
    x1 = x1
    d1 = d1
    d2 = d2
    p1 = p1
    p2 = p2
    i1 = i1
    i2 = i2
    None = None
    Accounts = {a1, a2, x1}
    Providers = {"claude", "codex"}
    Devices = {d1}
    Agents = {p1, p2}
    LeaseIds = {i1, i2}
    ProviderOf <- MCProviderOf
    DeviceOf <- PairDeviceOf
    TTL = 1
    IdleThreshold = 2
    IdleReports <- MCIdleReports
    MaxNow = 1
    Grants <- Withdrawn
    Administered = {d1}
    Unsteady = {}
SYMMETRY IdSymmetry
INVARIANTS
    TypeOK
    OnePerDeviceProvider
PROPERTIES
    PoolsAreSeparate
CHECK_DEADLOCK FALSE
