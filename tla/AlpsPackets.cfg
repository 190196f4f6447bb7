SPECIFICATION Spec
CONSTANTS
    N = 3
    P = 6
    Kinds <- TheKinds
    Pads <- ThePads
    MaxPackets = 3
    MaxOdd = 2
INVARIANTS
    TypeOK
    WholeAndValid
    KeepsStep
    FramesArePaired
CHECK_DEADLOCK FALSE
