\* Both layouts and chunk policies, composition offsets, start delays,
\* pre-roll, and outputs that fail.  The 32-bit limit is scaled down so that
\* moov and payload reach it.
SPECIFICATION Spec
CONSTANTS
    NumTracks = 2
    Options <- LayoutOptions
    Packets <- LayoutPackets
    FtypSize = 4
    MoovFixed = 6
    U32Max = 60
    I32Max = 8
    Attempts = 4
    MaxPackets = 4
    MaxFaults = 1
INVARIANTS
    ProgTypeOK
    ChunkBooks
    TablesReadBack
    ChunksEndForAReason
    TimelineKept
    FaststartConverges
CHECK_DEADLOCK FALSE
