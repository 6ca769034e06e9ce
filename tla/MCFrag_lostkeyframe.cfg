\* The held-back keyframe and a flush that fails.
SPECIFICATION Spec
CONSTANTS
    NumTracks = 1
    MaxAuxSize = 22
    SeigEntryBytes = 20
    Options <- FailureOptions
    Packets <- FailurePackets
    PsshBoxes <- BadBoxes
    EmsgBoxes <- BadBoxes
    PrftSizes = {}
    StypSizes = {}
    GapDurations <- Gaps
    SsixRangeMax = 180
    NumberMax = 255
    Calls <- QueueCalls
    MaxSequence = 2
INVARIANT
    NoneDropped
CHECK_DEADLOCK FALSE
