SPECIFICATION FairSpec
CONSTANTS
    Harnesses = {"codex", "dsh"}
    Keys = {11, 12}
    UserKeys = {2}
    Models = {1, 2}
    Stem <- MCStem
    MaxGrants = 2
    MaxEdits = 1
    MaxStops = 2
    None = None
INVARIANTS
    ConfigInv
PROPERTIES
    
    ConfigFollowsGrant
CHECK_DEADLOCK FALSE
