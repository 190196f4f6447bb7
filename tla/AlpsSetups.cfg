SPECIFICATION Spec
CONSTANTS
    Pads <- AllPads
INVARIANTS
    TypeOK
    SetUpIsComplete
    RegistersInCommandMode
    LeftInOrder
