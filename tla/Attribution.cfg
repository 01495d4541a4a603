SPECIFICATION BillingSpec
CONSTANTS
    Devices = {d1, d2}
    TTL = 1
    Retention = 2
    Unit = 6
    Outside = outside
    None = None
    MaxNow = 3
    MaxHolds = 2
    MaxGaps = 1
    MaxRollovers = 1
    Providers = {"claude"}
    Lifetime = 3
    Threshold = 2
    Fallback = 1
    Floor = 1
    Pause = 1
    Strikes = 2
    MaxLogins = 1
    MaxOps = 0
    MaxTurns = 0
    MaxFaults = 0
SYMMETRY DeviceSymmetry
INVARIANTS
    AttributionInv
CHECK_DEADLOCK FALSE
