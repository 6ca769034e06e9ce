\* A refused rotation of the default key.
SPECIFICATION Spec
CONSTANTS
    BlockBytes = 2
    CounterModulus = 4
    MaxAuxSize = 255
    SeigEntryBytes = 20
    Stream = {1}
    Configs <- KeyOptions
    Kids = {1, 2}
    Keys = {10, 11}
    ConstantIvs <- RotationIvs
    Lengths = {5}
    Maps <- PacketMaps
    FragmentPackets = 2
    MaxCalls = 4
    MaxWrites = 3
INVARIANTS
    DefaultKeyGiven
CHECK_DEADLOCK FALSE
