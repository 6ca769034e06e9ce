\* The traf numbers of the random-access index.
SPECIFICATION Spec
CONSTANTS
    NumTracks = 2
    MaxAuxSize = 255
    SeigEntryBytes = 20
    Options <- TimingOptions
    Packets <- TimingPackets
    PsshBoxes = {}
    EmsgBoxes = {}
    PrftSizes = {}
    StypSizes = {}
    GapDurations <- Gaps
    SsixRangeMax = 1000
    NumberMax = 255
    Calls <- FileCalls
    MaxSequence = 0
INVARIANT
    TrafNumberNames
CHECK_DEADLOCK FALSE
