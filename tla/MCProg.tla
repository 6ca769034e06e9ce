------------------------------- MODULE MCProg -------------------------------
(***************************************************************************)
(* Small instances of ProgMuxer.                                           *)
(***************************************************************************)
EXTENDS ProgContract

Direct == [faststart |-> FALSE, large |-> FALSE, chunking |-> "sampleCount",
           perChunk |-> [t \in Track |-> IF t = 1 THEN 1 ELSE 2],
           scale |-> [t \in Track |-> IF t = 1 THEN 1000 ELSE 3],
           writeEditList |-> TRUE, edits |-> [t \in Track |-> {}],
           io |-> FALSE]
Faststart == [Direct EXCEPT !.faststart = TRUE]

(* Timestamps in thirds of a second for audio, milliseconds for video. *)
Video(key, pts, dts, duration, size) ==
    [track |-> 1, pts |-> pts, dts |-> dts, duration |-> duration, num |-> 1,
     den |-> 1000, key |-> key, size |-> size, boundary |-> key]
Audio(pts, duration, boundary) ==
    [track |-> 2, pts |-> pts, dts |-> {}, duration |-> duration, num |-> 1,
     den |-> 3, key |-> TRUE, size |-> 3, boundary |-> boundary]

(* Three tracks: a small sample of each, so that the chunk offsets of the  *)
(* tracks lie closer to each other than a promoted track moves them.       *)
ThreeTracks == {Faststart}
ThreeTrackPackets ==
    {Video(TRUE, {0}, {0}, {1}, 3)}
      \cup {[Audio({0}, {1}, FALSE) EXCEPT !.track = t] : t \in {2, 3}}

(* Layouts: both layouts, both policies, an output that may fail.          *)
LayoutOptions ==
    {[Direct EXCEPT !.io = TRUE],
     [Direct EXCEPT !.large = TRUE, !.chunking = "packetBoundaries"],
     Faststart,
     [Faststart EXCEPT !.chunking = "packetBoundaries", !.io = TRUE]}
LayoutPackets ==
    {Video(TRUE, {2}, {0}, {2}, 20), Video(FALSE, {1}, {2}, {}, 3),
     Video(TRUE, {-2}, {-2}, {2}, 20), Video(FALSE, {9}, {0}, {}, 3),
     Audio({4}, {1}, FALSE), Audio({5}, {}, TRUE)}
=============================================================================
