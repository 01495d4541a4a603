SPECIFICATION FairSpec
CONSTANTS
    b1 = b1
    b2 = b2
    d1 = d1
    d2 = d2
    Kinds = {"cli", "tui"}
    Browsers = {b1}
    DeviceIds = {d1, d2}
    Grants = {{"claude", "deepseek"}}
    PairingTTL = 1
    MaxNow = 2
    MaxAttempts = 2
    MaxFaults = 1
    MaxCalls = 2
    None = None
INVARIANTS
    EnrollmentInv
PROPERTIES
    RevokedStaysOutInTheEnd
    AttemptsEnd
CHECK_DEADLOCK FALSE
