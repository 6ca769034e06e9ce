\* Every scheme, rotations and refusals in between, fragments of two samples.
SPECIFICATION Spec
CONSTANTS
    BlockBytes = 2
    CounterModulus = 4
    MaxAuxSize = 20
    SeigEntryBytes = 20
    Stream = {1}
    Configs <- OneStream
    Kids = {1, 2}
    Keys = {10, 11}
    ConstantIvs <- RotationIvs
    Lengths = {1, 5}
    Maps <- PacketMaps
    FragmentPackets = 2
    MaxCalls = 4
    MaxWrites = 3
INVARIANTS
    PackagerTypeOK
    DecryptsBack
    CiphersWhatItShould
    VectorsFresh
CHECK_DEADLOCK FALSE
