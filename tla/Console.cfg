SPECIFICATION ConsoleSpec
CONSTANTS
    e1 = e1
    e2 = e2
    PfAgent = {TRUE, FALSE}
    PfSlots = 2
    PfMaxPoll = 2
    PfMaxEdits = 2
    PfMaxFaults = 1
    FaEmitters = {e1, e2}
    FaErrors = {2}
    FaCapacity = 2
    FaLimit = 2
    FaBuffer = 1
    FaMaxEvents = 3
    FaMaxConnects = 2
    FaMaxCrashes = 1
    FaMaxKeys = 1
    FaLoads = 1
    ApIds = {1, 2}
    ApFirst = {{1}, {1, 2}}
    ApQueries = {{1}, {2}}
    ApAgent = {TRUE, FALSE}
    ApOps = 1
    ApLoads = 1
    ApMaxKeys = 2
    ApMaxOthers = 1
    ApMaxLost = 1
INVARIANTS
    FeedInv
    AccountsInv
    PrefsInv
PROPERTIES
    PatchKeepsTheRest
    
CHECK_DEADLOCK FALSE
