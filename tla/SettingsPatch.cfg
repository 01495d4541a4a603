SPECIFICATION Spec
PROPERTY MissingIsDefault
CONSTANTS
    PfAgent = {FALSE}
    PfSlots = 2
    PfMaxPoll = 2
    PfMaxEdits = 1
    PfMaxFaults = 1
CHECK_DEADLOCK FALSE
