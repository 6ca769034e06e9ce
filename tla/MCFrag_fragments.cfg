\* Timeline, indexes and annotations of fragments: two tracks, gaps, requests;
\* no call fails.
SPECIFICATION Spec
CONSTANTS
    NumTracks = 2
    MaxAuxSize = 255
    SeigEntryBytes = 20
    Options <- FileOptions
    Packets <- FilePackets
    PsshBoxes <- GoodBoxes
    EmsgBoxes <- GoodBoxes
    PrftSizes <- Sizes
    StypSizes <- Sizes
    GapDurations <- Gaps
    SsixRangeMax = 1000
    NumberMax = 2
    Calls <- FileCalls
    MaxSequence = 0
INVARIANTS
    TypeOK
    NoneDropped
    ReadsBack
    Contiguous
    KeyframeOpensFragment
    CadenceBounds
    TfraExact
    Sealed
    SeekNearestIndexed
    SidxFits
    SsixPartitions
    RequestsInOrder
PROPERTIES
    RequestsKept
CHECK_DEADLOCK FALSE
