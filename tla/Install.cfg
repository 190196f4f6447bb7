SPECIFICATION ActionsSpec
CONSTANTS
    SMP = TRUE
    Polling = TRUE
INVARIANTS
    ActionsTypeOK
    CallsReachDrivers
