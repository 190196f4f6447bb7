SPECIFICATION Spec
CONSTANTS
    Keys <- DecodedKeys
    Breakless <- BreaklessKeys
    Capacity = 2
    Prompt = TRUE
    MaxSent = 5
INVARIANTS
    TypeOK
    BitsAgree
    DownMeansHeld
