\* The sidx of a segment that also has an ssix.
SPECIFICATION Spec
CONSTANTS
    NumTracks = 1
    MaxAuxSize = 255
    SeigEntryBytes = 20
    Options <- RequestOptions
    Packets <- RequestPackets
    PsshBoxes <- GoodBoxes
    EmsgBoxes <- GoodBoxes
    PrftSizes <- Sizes
    StypSizes <- Sizes
    GapDurations <- Gaps
    SsixRangeMax = 1000
    NumberMax = 255
    Calls <- FileCalls
    MaxSequence = 0
INVARIANT
    SidxExact
CHECK_DEADLOCK FALSE
