SPECIFICATION Spec
CONSTANTS
    Keys <- FewKeys
    Breakless = {}
    Capacity = 3
    Prompt = FALSE
    MaxSent = 3
PROPERTIES
    AllKeysUp
