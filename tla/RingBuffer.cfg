SPECIFICATION FairSpec
CONSTANTS
    N = 3
    PacketLength = 2
    MaxPackets = 8
INVARIANTS
    TypeOK
    PacketIntact
    NoLostWakeup
PROPERTIES
    FifoSpec
    EventuallyHandled
CHECK_DEADLOCK FALSE
