------------------------------- MODULE MCFrag -------------------------------
(***************************************************************************)
(* Small instances of FragMuxer: one or two tracks, a handful of packets.  *)
(***************************************************************************)
EXTENDS FragContract

NoProtection == [supply |-> "absent", size |-> 0]

(* The first configuration; the others change what they are about. *)
Basic == [cadence |-> "keyframe", n |-> 0, indexes |-> TRUE, ssix |-> FALSE,
          styp |-> 24, mehd |-> TRUE, edits |-> FALSE,
          scale |-> [t \in Track |-> IF t = 1 THEN 2 ELSE 3],
          prot |-> [t \in Track |-> NoProtection],
          io |-> FALSE, initOk |-> TRUE]

Packet(t, key, size, pts, dts, duration) ==
    [track |-> t, pts |-> pts, dts |-> dts, duration |-> duration,
     num |-> 1, den |-> 2, key |-> key, size |-> size,
     senc |-> {}, seig |-> {}]

(* Timing.  Video with and without composition offsets, one packet without *)
(* timestamps, audio whose durations come from pts deltas.                 *)
TimingOptions ==
    {Basic, [Basic EXCEPT !.cadence = "packets", !.n = 2, !.styp = 0]}
TimingPackets ==
    {Packet(1, TRUE, 5, {0}, {0}, {2}),
     Packet(1, FALSE, 5, {3}, {1}, {2}),
     Packet(1, FALSE, 7, {}, {}, {}),
     Packet(2, TRUE, 3, {4}, {4}, {})}
Gaps == {4}
Bound(kinds, accepted, asks, breaks) ==
    [writes |-> kinds, packets |-> accepted, requests |-> asks,
     gaps |-> breaks]

(* Requests.  One track is written; the cadence in seconds, of sync        *)
(* samples, with gaps, and of both kinds with an ssix.                     *)
RequestOptions ==
    {[Basic EXCEPT !.cadence = "seconds", !.n = 2, !.mehd = FALSE],
     [Basic EXCEPT !.ssix = TRUE, !.styp = 0]}
RequestPackets ==
    {Packet(1, TRUE, 5, {0}, {0}, {2}), Packet(1, FALSE, 6, {2}, {2}, {2})}
SyncPackets == {p \in RequestPackets : p.key}
GoodBoxes == {[ok |-> TRUE, size |-> 40]}
Sizes == {28}

(* Both: the timeline, and what requests add to the fragments.             *)
FileOptions == TimingOptions \cup RequestOptions
FilePackets == TimingPackets \cup RequestPackets
FileCalls(o) ==
    CASE o.ssix -> Bound(RequestPackets, 3, 2, 0)
      [] o.cadence = "seconds" -> Bound(SyncPackets, 3, 2, 1)
      [] o.cadence = "packets" -> Bound(TimingPackets, 4, 0, 0)
      [] o.cadence = "keyframe" /\ ~o.ssix -> Bound(TimingPackets, 4, 0, 1)

(* CENC.  One track under each IV supply; subsample maps that cover the    *)
(* sample and that do not, two rotation groups, plain samples in between.  *)
Protected(supply, size) ==
    [t \in Track |-> [supply |-> supply, size |-> size]]
CencOptions ==
    {[Basic EXCEPT !.prot = Protected("sample", 8)],
     [Basic EXCEPT !.prot = Protected("constant", 0),
                   !.cadence = "packets", !.n = 3]}
Encrypted(p, iv, subs, covers, seig) ==
    [p EXCEPT !.senc = {[iv |-> iv, subs |-> subs, covers |-> covers]},
              !.seig = seig]
Group(kid, iv) == {[kid |-> kid, protected |-> TRUE, iv |-> iv]}
CencPackets ==
    LET key == Packet(1, TRUE, 5, {0}, {0}, {2})
        delta == Packet(1, FALSE, 6, {2}, {2}, {2})
    IN  {key, delta} \cup
        UNION {{Encrypted(key, iv, 0, FALSE, {}),
                Encrypted(key, iv, 1, TRUE, Group(1, iv)),
                Encrypted(delta, iv, 1, FALSE, {}),
                Encrypted(delta, iv, 2, TRUE, Group(2, iv)),
                Encrypted(delta, iv, 0, TRUE, Group(1, iv))} : iv \in {0, 8}}

(* Failures.  Requests the muxer refuses to serialise, auxiliary data too  *)
(* large for saiz, a range too large for ssix, and an output that may fail *)
(* at any write.                                                           *)
FailureOptions ==
    {[Basic EXCEPT !.io = TRUE, !.mehd = FALSE],
     [Basic EXCEPT !.initOk = FALSE],
     [Basic EXCEPT !.ssix = TRUE, !.prot = Protected("sample", 8)],
     [Basic EXCEPT !.cadence = "packets", !.n = 2,
                   !.prot = Protected("sample", 8)]}
FailurePackets ==
    LET key == Packet(1, TRUE, 5, {0}, {0}, {2})
        delta == Packet(1, FALSE, 9, {2}, {2}, {2})
    IN  {key, delta, Encrypted(key, 8, 0, FALSE, {}),
         Encrypted(delta, 8, 3, TRUE, Group(1, 8))}
BadBoxes == {[ok |-> FALSE, size |-> 40]}

(* Both: the queues of a track, and the auxiliary boxes made of them.      *)
QueueOptions == FailureOptions \cup CencOptions
QueuePackets == FailurePackets \cup CencPackets
QueueCalls(o) ==
    IF o \in CencOptions THEN Bound(CencPackets, 4, 0, 0)
    ELSE Bound(FailurePackets, 3, 1, 1)
=============================================================================
