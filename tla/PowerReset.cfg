SPECIFICATION Spec
CONSTANTS
    Strays = TRUE
    MaxLate = 0
PROPERTIES
    KnownState
