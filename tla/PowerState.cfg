SPECIFICATION FairSpec
CONSTANTS
    Strays = FALSE
    MaxLate = 1
INVARIANTS
    TypeOK
    Settled
    ClientsCanTalk
    AwakeDevicesReport
PROPERTIES
    RequestedIsReached
