SPECIFICATION FairSpec
CONSTANTS
    SMP = FALSE
    Programs <- AllPrograms
    MaxRequests = 2
    MaxAsync = 2
    MaxBefore = 1
    MaxEarly = 1
INVARIANTS
    TypeOK
    InputDelivered
    ComparingWorks
PROPERTIES
    RequestEnds
CHECK_DEADLOCK FALSE
