SPECIFICATION FairSpec
CONSTANTS
    Completion = {"c"}
    Forget = {"f"}
    OnStack = {"s"}
    Legacy = {"l"}
    MaxSleeps = 1
INVARIANTS
    TypeOK
    ProcessedInOrder
    NothingLeaks
PROPERTIES
    EventuallyProcessed
CHECK_DEADLOCK FALSE
