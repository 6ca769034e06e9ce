\* The four rounds of the faststart loop and a movie of three tracks.
SPECIFICATION Spec
CONSTANTS
    NumTracks = 3
    Options <- ThreeTracks
    Packets <- ThreeTrackPackets
    FtypSize = 4
    MoovFixed = 6
    U32Max = 82
    I32Max = 8
    Attempts = 4
    MaxPackets = 3
    MaxFaults = 1
INVARIANT
    FaststartConverges
CHECK_DEADLOCK FALSE
