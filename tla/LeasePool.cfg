SPECIFICATION Spec
CONSTANTS
    a1 = a1
    a2 = a2
    x1 = x1
    d1 = d1
    d2 = d2
    p1 = p1
    p2 = p2
    i1 = i1
    i2 = i2
    None = None
    Accounts = {a1, a2}
    Providers = {"claude"}
    Devices = {d1, d2}
    Agents = {p1, p2}
    LeaseIds = {i1, i2}
    ProviderOf <- OnePoolProviderOf
    DeviceOf <- MCDeviceOf
    TTL = 2
    IdleThreshold = 2
    IdleReports <- MCIdleReports
    MaxNow = 2
    Grants <- NoGrants
    Administered = {}
    Unsteady = {a1}
SYMMETRY IdSymmetry
INVARIANTS
    OneHolder
    HeldIsBilled
    
PROPERTIES
    NoTheft
    
    ImplementsExclusiveLease
CHECK_DEADLOCK FALSE
