---------------------------- MODULE SampleTable -----------------------------
(***************************************************************************)
(* The sample table of one track of a progressive file: the bookkeeping    *)
(* the muxer keeps per sample (TrackState, close_current_chunk and the     *)
(* table part of Mp4Muxer::write_packet in src/muxer.rs), the tables       *)
(* build_stbl makes of it, and the list of samples the demuxer expands     *)
(* them to (expand_samples in src/demux.rs).                               *)
(*                                                                         *)
(* stts and ctts are sequences of runs [count, value], stsc of runs        *)
(* [first, perChunk].  Optional values are sets of at most one member.     *)
(***************************************************************************)
EXTENDS TrackRun, SequencesExt

NewTrack ==
    [sampleSizes |-> <<>>, stts |-> <<>>, ctts |-> <<>>, keyframes |-> <<>>,
     chunkOffsets |-> <<>>, stsc |-> <<>>,
     currentChunkSamples |-> 0, chunkCount |-> 0, lastSamplesPerChunk |-> 0,
     nextSampleIndex |-> 0, cumulativeDuration |-> 0,
     prevPts |-> {}, firstPts |-> {}, firstDts |-> {}, prevDts |-> {},
     presentationEnd |-> {}]

(* The last run grows while its value repeats. *)
PushRun(runs, v) ==
    IF runs # <<>> /\ Last(runs).value = v
    THEN [runs EXCEPT ![Len(runs)].count = @ + 1]
    ELSE Append(runs, [count |-> 1, value |-> v])

(* A closed chunk starts an stsc run unless it is as long as the last one. *)
CloseChunk(tr) ==
    IF tr.currentChunkSamples = 0 THEN tr
    ELSE [tr EXCEPT
           !.chunkCount = @ + 1,
           !.stsc = IF tr.currentChunkSamples = tr.lastSamplesPerChunk THEN @
                    ELSE Append(@, [first |-> tr.chunkCount + 1,
                                    perChunk |-> tr.currentChunkSamples]),
           !.lastSamplesPerChunk = tr.currentChunkSamples,
           !.currentChunkSamples = 0]

(* A sample joins the open chunk, or opens one at `offset`. *)
JoinChunk(tr, offset) ==
    [tr EXCEPT
       !.chunkOffsets = IF tr.currentChunkSamples = 0 THEN Append(@, offset)
                                                      ELSE @,
       !.currentChunkSamples = @ + 1]

Reordered(tr) == \E k \in DOMAIN tr.ctts : tr.ctts[k].value # 0

(***************************************************************************)
(* The tables of the moov.  An absent stss is an empty one, an absent ctts *)
(* a run of zeros; stsz returns the sizes whether it stores them all or    *)
(* the one they share.                                                     *)
(***************************************************************************)
StblOf(tr) ==
    [stsz |-> tr.sampleSizes, stts |-> tr.stts,
     ctts |-> IF Reordered(tr) THEN tr.ctts ELSE <<>>,
     stss |-> tr.keyframes, stsc |-> tr.stsc,
     chunkOffsets |-> tr.chunkOffsets]

(* stco holds 32-bit offsets; one that does not fit makes it a co64. *)
ChunkOffsetBytes(offsets, u32Max) ==
    16 + Len(offsets) * (IF \E k \in DOMAIN offsets : offsets[k] > u32Max
                         THEN 8 ELSE 4)

(***************************************************************************)
(* Expansion.  Tables too short for the samples of stsz are padded: with a *)
(* zero delta, a zero offset, and the last chunk.                          *)
(***************************************************************************)
ExpandRuns(runs) ==
    FlattenSeq([k \in DOMAIN runs |->
                  [j \in 1..runs[k].count |-> runs[k].value]])
ValueAt(q, k, default) == IF k \in DOMAIN q THEN q[k] ELSE default

(* For each of n samples, its chunk and its place in it, from 0. *)
Placement(stsc, chunks, n) ==
    LET end(k) == IF k < Len(stsc) THEN stsc[k + 1].first ELSE chunks + 1
        chunk(c, per) == [j \in 1..Min({per, n}) |-> [chunk |-> c, nth |-> j - 1]]
        run(k) == FlattenSeq([c \in 1..(end(k) - stsc[k].first) |->
                                chunk(stsc[k].first + c - 1, stsc[k].perChunk)])
        placed == FlattenSeq([k \in DOMAIN stsc |-> run(k)])
        rest == [chunk |-> IF placed = <<>> THEN 1 ELSE Last(placed).chunk,
                 nth |-> 0]
    IN  [i \in 1..n |-> ValueAt(placed, i, rest)]

(* The samples of a track before its edit list, in decode order.           *)
ExpandSamples(stbl) ==
    LET n == Len(stbl.stsz)
        delta == ExpandRuns(stbl.stts)
        offset == ExpandRuns(stbl.ctts)
        place == Placement(stbl.stsc, Len(stbl.chunkOffsets), n)
        ticks(d) == d
        bytes(b) == b
    IN  [i \in 1..n |->
          [offset |-> stbl.chunkOffsets[place[i].chunk]
                        + SumOf(SubSeq(stbl.stsz, i - place[i].nth, i - 1), bytes),
           size |-> stbl.stsz[i],
           dts |-> SumOf(SubSeq(delta, 1, Min({i - 1, Len(delta)})), ticks),
           duration |-> ValueAt(delta, i, 0),
           cts |-> ValueAt(offset, i, 0),
           key |-> stbl.stss = <<>> \/ \E k \in DOMAIN stbl.stss : stbl.stss[k] = i]]

(* A sample in a chunk that has no offset makes the whole file unreadable. *)
Expandable(stbl) ==
    LET n == Len(stbl.stsz)
        chunks == Len(stbl.chunkOffsets)
        place == Placement(stbl.stsc, chunks, n)
    IN  \A i \in 1..n : place[i].chunk \in 1..chunks

(***************************************************************************)
(* Edit lists: the one the muxer derives from a track's first timestamps   *)
(* (build_edts and build_preroll_edts, src/muxer.rs), and the timeline the *)
(* demuxer makes of any list (build_elst_timeline and delta_for_cts,       *)
(* src/demux.rs).                                                          *)
(*                                                                         *)
(* An edit is [duration, mediaTime, still]: its length in movie ticks, the *)
(* media time it starts at (-1: an empty edit), and whether its rate is    *)
(* zero (a dwell).                                                         *)
(***************************************************************************)

MovieTimescale == 1000

(* rescale_u64, of natural numbers, rounded down. *)
RescaleU64(v, from, to) == IF from = 0 THEN v ELSE (v * to) \div from

Edit(duration, mediaTime) ==
    [duration |-> duration, mediaTime |-> mediaTime, still |-> FALSE]

(* Faulty: the first pts, whatever the composition offsets. *)
OriginByPts(tr) == tr.firstPts

(* Media time 0 is the first sample's decode time. *)
OriginOf(tr) ==
    IF Reordered(tr) /\ Some(tr.firstDts) THEN tr.firstDts ELSE tr.firstPts

BuildPrerollEdts(tr, origin, scale) ==
    LET end == Max({ValueOf(tr.presentationEnd, 0), 0})
    IN  <<Edit(RescaleU64(end, scale, MovieTimescale), -origin)>>

BuildEdts(tr, scale) ==
    LET origin == ValueOf(OriginOf(tr), 0)
        delay == RescaleU64(origin, scale, MovieTimescale)
        length == RescaleU64(tr.cumulativeDuration, scale, MovieTimescale)
    IN  IF origin < 0 THEN BuildPrerollEdts(tr, origin, scale)
        ELSE IF delay = 0 THEN <<>>
        ELSE <<Edit(delay, -1), Edit(length, 0)>>

(***************************************************************************)
(* The timeline.  An edit that consumes media is a segment                 *)
(* [presStart, mediaStart, duration] in media ticks.                       *)
(***************************************************************************)
Consumes(edit) == edit.mediaTime # -1 /\ ~edit.still

Segments(elst, scale) ==
    LET length(edit) == (edit.duration * scale) \div MovieTimescale
        segment(k) == [presStart |-> SumOf(SubSeq(elst, 1, k - 1), length),
                       mediaStart |-> elst[k].mediaTime,
                       duration |-> length(elst[k])]
        kept == Selected([k \in DOMAIN elst |-> k],
                         {k \in DOMAIN elst : Consumes(elst[k])})
    IN  [n \in DOMAIN kept |-> segment(kept[n])]

Shift(s) == s.presStart - s.mediaStart

(* Neither the media nor the shift goes backwards. *)
MediaMonotonic(segments) ==
    \A k \in 1..(Len(segments) - 1) :
        /\ segments[k].mediaStart <= segments[k + 1].mediaStart
        /\ Shift(segments[k]) <= Shift(segments[k + 1])

LeadingShift(elst) ==
    LET media == {k \in DOMAIN elst : elst[k].mediaTime # -1}
    IN  IF media = {} THEN 0 ELSE elst[Min(media)].mediaTime

(* What the list adds to the times of a sample composed at cts, and        *)
(* whether the sample is presented at all.                                 *)
DeltaForCts(elst, scale, cts) ==
    LET segs == Segments(elst, scale)
        begun == {k \in DOMAIN segs : segs[k].mediaStart <= cts}
        chosen == Max(begun)
        s == segs[chosen]
    IN  IF segs = <<>> \/ ~MediaMonotonic(segs)
        THEN [delta |-> -LeadingShift(elst), presented |-> TRUE]
        ELSE IF begun = {} THEN [delta |-> Shift(segs[1]), presented |-> FALSE]
        ELSE [delta |-> Shift(s),
              presented |-> \/ s.duration = 0
                            \/ cts < s.mediaStart + s.duration
                            \/ chosen = Len(segs)]
=============================================================================
