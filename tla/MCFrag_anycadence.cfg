\* Cadences that fire on a packet of any track.
SPECIFICATION Spec
CONSTANTS
    NumTracks = 2
    MaxAuxSize = 255
    SeigEntryBytes = 20
    Options <- TimingOptions
    Packets <- TimingPackets
    PsshBoxes = {}
    EmsgBoxes = {}
    PrftSizes = {}
    StypSizes = {}
    GapDurations <- Gaps
    SsixRangeMax = 1000
    NumberMax = 255
    Calls <- FileCalls
    MaxSequence = 0
INVARIANT
    CadenceOfAnyTrack
CHECK_DEADLOCK FALSE
