\* One caller of an open demuxer, over small files of every kind.
SPECIFICATION Spec
CONSTANTS
    Files <- AllFiles
    Targets <- SeekTargets
    MaxAuxTotal = 100
    MaxFaults = 2
    Payload <- PayloadTable
    Protection <- ProtectionTable
INVARIANTS
    SessionTypeOK
    SamplesAsWritten
    AuxResolved
    SeekLands
PROPERTIES
    Drains
    IsPacketSource
