---------------------------- MODULE ProgContract ----------------------------
(***************************************************************************)
(* What Mp4Muxer promises: about the chunks of its sample tables, about    *)
(* the file it writes as the demuxer reads it, and about the end of the    *)
(* faststart rewrite.                                                      *)
(***************************************************************************)
EXTENDS ProgMuxer

(***************************************************************************)
(* The demuxer on such a file (open_typed and next_packet in src/demux.rs):*)
(* a walk over the top-level boxes finds the moov -- the last one, should  *)
(* there be several -- and the tables lead to the payload.                 *)
(***************************************************************************)
(* What a write left in the file and no later write has touched. *)
Apart(x, y) == x.at + x.size <= y.at \/ y.at + y.size <= x.at
Intact ==
    {writes[k] : k \in {k \in DOMAIN writes :
        \A j \in DOMAIN writes : j > k => Apart(writes[k], writes[j])}}

BoxLength(x) == IF x.holds.kind = "mdat" THEN x.holds.total ELSE x.size
BoxesAt(at) ==
    {x \in Intact : x.at = at /\ x.holds.kind \in {"ftyp", "mdat", "moov"}}
(* A file has at most as many boxes as there were writes; a box of no      *)
(* length is open-ended and ends the walk.                                 *)
WalkedBoxes ==
    LET next(S) == {x.at + BoxLength(x) : x \in {y \in S : BoxLength(y) > 0}}
        at[k \in 0..Len(writes)] ==
            IF k = 0 THEN BoxesAt(0)
            ELSE UNION {BoxesAt(a) : a \in next(at[k - 1])}
    IN  UNION {at[k] : k \in DOMAIN at}

MoovBox ==
    LET moovs == {x \in WalkedBoxes : x.holds.kind = "moov"}
    IN  {x \in moovs : \A y \in moovs : y.at <= x.at}
MoovRead == (CHOOSE x \in MoovBox : TRUE).holds
Readable == Some(MoovBox) /\ \A t \in Track : Expandable(MoovRead.stbl[t])

(* The samples of a track as next_packet delivers them.                    *)
Delivered(t) ==
    LET samples == ExpandSamples(MoovRead.stbl[t])
        map(s) == DeltaForCts(MoovRead.elst[t], opts.scale[t], s.dts + s.cts)
        delivered(s) ==
            [offset |-> s.offset, size |-> s.size, duration |-> s.duration,
             key |-> s.key, cts |-> s.cts,
             pts |-> s.dts + s.cts + map(s).delta,
             dts |-> s.dts + map(s).delta,
             discard |-> ~map(s).presented]
    IN  [i \in DOMAIN samples |-> delivered(samples[i])]

HoldsAt(s, t, id) ==
    \E x \in Intact : /\ x.at = s.offset /\ x.size = s.size
                      /\ x.holds = [kind |-> "sample", track |-> t, id |-> id]

(* No failure that a file does not survive.                                *)
Undamaged == mishaps \subseteq {"trailer"}
Finished == trailerWritten /\ Undamaged

(***************************************************************************)
(* Properties.                                                             *)
(***************************************************************************)
Run == [count : Nat \ {0}, value : Int]
ChunkRun == [first : Nat \ {0}, perChunk : Nat \ {0}]
TrackState ==
    [sampleSizes : Seq(Nat), stts : Seq(Run), ctts : Seq(Run),
     keyframes : Seq(Nat \ {0}), chunkOffsets : Seq(Nat), stsc : Seq(ChunkRun),
     currentChunkSamples : Nat, chunkCount : Nat, lastSamplesPerChunk : Nat,
     nextSampleIndex : Nat, cumulativeDuration : Nat,
     prevPts : SUBSET Int, firstPts : SUBSET Int, firstDts : SUBSET Int,
     prevDts : SUBSET Int, presentationEnd : SUBSET Int]

(* The variables hold values of their types; runs are never empty, and no  *)
(* track ever lasts a negative time.                                       *)
ProgTypeOK ==
    /\ opts \in Options
    /\ headerWritten \in BOOLEAN /\ trailerWritten \in BOOLEAN
    /\ track \in [Track -> TrackState]
    /\ lastTrack \in SUBSET Track
    /\ mdatSizeOffset \in Nat /\ mdatStartOffset \in Nat /\ mdatBytes \in Nat
    /\ position \in Nat
    /\ calls \in Nat /\ faults \in Nat

(* The chunk books balance at every step, failed calls included: only the  *)
(* track written last can have an open chunk, so no chunk spans another    *)
(* track's bytes, and every chunk, closed or open, has one offset.         *)
ChunkBooks ==
    \A t \in Track :
        LET tr == track[t]
        IN  /\ tr.currentChunkSamples > 0 => lastTrack = {t}
            /\ Len(tr.chunkOffsets) =
                 tr.chunkCount + (IF tr.currentChunkSamples > 0 THEN 1 ELSE 0)

(* A finished file gives every accepted packet back, in order, with its    *)
(* size, duration, composition offset and, unless its track has no sync    *)
(* sample at all, its sync flag; and its bytes are where the chunk offsets *)
(* and sizes lead.  So stsc, stsz, stco and the layout of the file agree,  *)
(* in both layouts, whatever shape the runs have, and also when the moov   *)
(* was written at a second attempt.                                        *)
TablesReadBack ==
    Finished =>
        /\ Readable
        /\ \A t \in Track :
            LET got == Delivered(t)
                given(k) == log[t][k].packet
                synced == \E k \in DOMAIN log[t] : given(k).key
            IN  /\ DOMAIN got = DOMAIN log[t]
                /\ \A k \in DOMAIN got :
                    /\ got[k].size = given(k).size
                    /\ got[k].duration = log[t][k].delta
                    /\ got[k].cts = CompositionOffset(given(k))
                    /\ synced => got[k].key = given(k).key
                    /\ HoldsAt(got[k], t, k)

(* A chunk ends for a reason: another track's packet came between, the     *)
(* policy said so, or the file ended.  And a chunk under SampleCount never *)
(* grows past its target.                                                  *)
ChunksEndForAReason ==
    Finished =>
        \A t \in Track :
            LET n == Len(log[t])
                stbl == StblOf(track[t])
                place == Placement(stbl.stsc, Len(stbl.chunkOffsets), n)
                counted == opts.chunking = "sampleCount"
            IN  \A k \in 2..n :
                  /\ place[k].nth = 0 =>
                       \/ log[t][k].call # log[t][k - 1].call + 1
                       \/ counted /\ place[k - 1].nth + 1 >= opts.perChunk[t]
                       \/ ~counted /\ log[t][k - 1].packet.boundary
                  /\ counted => place[k].nth < Max({opts.perChunk[t], 1})

(* The presentation timeline survives: for packets each decoded where the  *)
(* recorded duration of the one before ends, the demuxer delivers the      *)
(* presentation time the packet had -- early by less than one movie tick   *)
(* and one media tick where a start delay is rounded to the movie          *)
(* timescale -- and flags as pre-roll exactly what lies before zero.       *)
DecodedAt(p) == IF Some(p.dts) THEN ValueOf(DtsOf(p), 0) ELSE ValueOf(PtsOf(p), 0)
Regular(t) ==
    /\ opts.writeEditList /\ opts.edits[t] = {}
    /\ \A k \in DOMAIN log[t] :
        LET p == log[t][k].packet
        IN  /\ Some(p.pts)
            /\ ValueOf(PtsOf(p), 0) >= DecodedAt(log[t][1].packet)
            /\ k > 1 =>
                 LET before == log[t][k - 1]
                 IN  DecodedAt(p) = DecodedAt(before.packet) + before.delta
TimelineKept ==
    Finished =>
        \A t \in Track : Regular(t) =>
            LET got == Delivered(t)
                pts(k) == ValueOf(PtsOf(log[t][k].packet), 0)
            IN  \A k \in DOMAIN got :
                  /\ got[k].pts <= pts(k)
                  /\ (pts(k) - got[k].pts) * MovieTimescale
                       < opts.scale[t] + MovieTimescale
                  /\ got[k].discard <=> pts(k) < 0

(* The faststart rewrite does not give up: the size of the moov settles    *)
(* within the rounds the loop has.  A round that does not settle moves one *)
(* track or more to 64-bit chunk offsets, which makes the moov larger and  *)
(* may push the offsets of the next over the limit, so n tracks take up to *)
(* n + 2 rounds.  The code has four: enough for two tracks, where this is  *)
(* claimed, and not for three, where the rewrite may fail and the buffered *)
(* payload is lost.                                                        *)
FaststartConverges == "gaveUp" \notin mishaps
=============================================================================
