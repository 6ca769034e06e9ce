\* The queues of a track: calls that fail half way and the calls after them, and
\* protected samples.
SPECIFICATION Spec
CONSTANTS
    NumTracks = 1
    MaxAuxSize = 22
    SeigEntryBytes = 20
    Options <- QueueOptions
    Packets <- QueuePackets
    PsshBoxes <- BadBoxes
    EmsgBoxes <- BadBoxes
    PrftSizes = {}
    StypSizes = {}
    GapDurations <- Gaps
    SsixRangeMax = 180
    NumberMax = 255
    Calls <- QueueCalls
    MaxSequence = 2
INVARIANTS
    InOrder
    KeptUnlessDetached
    QueuesInStep
    AuxReads
    GroupReads
PROPERTIES
    IsSegmentStream
CHECK_DEADLOCK FALSE
