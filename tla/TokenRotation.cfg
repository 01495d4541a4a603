SPECIFICATION TokenSpec
CONSTANTS
    Devices = {d1}
    Providers = {"claude", "codex"}
    Lifetime = 3
    Threshold = 2
    Fallback = 1
    Floor = 1
    Pause = 1
    Strikes = 2
    MaxLogins = 2
    MaxOps = 1
    MaxTurns = 2
    MaxFaults = 1
    None = None
    TTL = 1
    Retention = 0
    Unit = 1
    Outside = outside
    MaxNow = 0
    MaxHolds = 0
    MaxGaps = 0
    MaxRollovers = 0
INVARIANTS
    RotationInv
PROPERTIES
    RotationSettles
CHECK_DEADLOCK FALSE
