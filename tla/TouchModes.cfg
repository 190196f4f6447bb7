SPECIFICATION Spec
CONSTANTS
    MaxFingers = 3
    Packets <- SomePackets
    StickButtons <- SomeStickButtons
    Settings <- SomeSettings
    MaxChanges = 1
INVARIANTS
    TypeOK
    ButtonsSettle
    WaitsAreTimed
    FingersAreThisTouchs
