SPECIFICATION Spec
CONSTANTS
    KeyOrder <- SomeKeys
    AcpiKeys = {"mirror"}
    Breakless = {"hotkey"}
    Macros <- FnF1
    Settings <- TwoSettings
    Capacity = 2
    Prompt = TRUE
    MaxSent = 5
INVARIANTS
    TypeOK
    MacrosKeepOrder
    TimerHasItsKey
    NothingStuck
    HeldBackIsTimed
CHECK_DEADLOCK FALSE
