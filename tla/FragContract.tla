---------------------------- MODULE FragContract ----------------------------
(***************************************************************************)
(* What FragmentedMuxer promises: about its queues, about the file it      *)
(* writes as the demuxer reads it, and about the requests for the next     *)
(* fragment.                                                               *)
(***************************************************************************)
EXTENDS FragMuxer, FragReader

Ids(q) == [k \in DOMAIN q |-> q[k].id]
Accounted(t) == Ids(published[t] \o pending[t])

(* A sample as the muxer queues it, and its CENC auxiliary record.         *)
Sample == [id : Nat, key : BOOLEAN, duration : Nat \ {0}, size : Nat, cts : Int,
           given : [senc : SUBSET SencGiven, seig : SUBSET SeigGiven]]
AuxRecord == [of : Nat, iv : Nat, subs : Nat]

QueueTypes ==
    /\ opts \in Options
    /\ headerWritten \in BOOLEAN
    /\ packetsTotal \in [Track -> Nat]
    /\ prevPts \in [Track -> SUBSET Int]
    /\ pending \in [Track -> Seq(Sample)]
    /\ published \in [Track -> Seq(Sample)]
    /\ pendingSenc \in [Track -> Seq(AuxRecord)]
    /\ pendingSeig \in [Track -> Seq(SUBSET SeigGiven)]

(* Every variable holds a value of its type; a duration is never zero.     *)
TypeOK ==
    /\ QueueTypes
    /\ trailerWritten \in BOOLEAN
    /\ sequenceNumber \in Nat /\ asked \in Nat /\ gaps \in Nat
    /\ nextBmdt \in [Track -> Nat]
    /\ DOMAIN tfraEntries = Track
    /\ \A k \in DOMAIN file : file[k].size \in Nat \ {0}

(***************************************************************************)
(* The queues.                                                             *)
(***************************************************************************)
(* The muxer's own account of a track, what it holds to have published and *)
(* then what is pending: the samples are in the order they were accepted,  *)
(* and none is in it twice.  The detach and replay of a keyframe, gaps,    *)
(* explicit flushes and flushes that fail never reorder or duplicate them  *)
(* there.  It says nothing of the file: a flush cut behind its moof leaves *)
(* samples in the file that stay queued, and the next flush writes them    *)
(* again.  What the file holds is the matter of ReadsBack, which is        *)
(* claimed while no write fails.                                           *)
InOrder ==
    \A t \in Track :
        LET ids == Accounted(t)
        IN  /\ \A k \in DOMAIN ids : ids[k] \in 1..packetsTotal[t]
            /\ \A j, k \in DOMAIN ids : j < k => ids[j] < ids[k]

(* No accepted sample is dropped: what was published and what is pending   *)
(* are together every packet ever accepted.                                *)
NoneDropped ==
    \A t \in Track : Accounted(t) = [k \in 1..packetsTotal[t] |-> k]

(* A flush that fails may only drop the sample an EveryKeyframe cadence    *)
(* holds back: under the other cadences nothing is ever lost.              *)
KeptUnlessDetached == opts.cadence # "keyframe" => NoneDropped

(* The CENC queues of a track are empty or parallel to its samples, and    *)
(* each auxiliary record lies beside the sample it was written with, also  *)
(* after a keyframe was detached and put back, and after a failed flush.   *)
TrackInStep(q, senc, seig) ==
    /\ Len(seig) = Len(senc)
    /\ senc # <<>> => Len(senc) = Len(q)
    /\ \A k \in DOMAIN senc :
          senc[k].of = q[k].id /\ seig[k] = q[k].given.seig
QueuesInStep ==
    \A t \in Track : TrackInStep(pending[t], pendingSenc[t], pendingSeig[t])

(* EveryKeyframe: a sync sample of the anchor track only ever opens a      *)
(* fragment, and none waits behind another sample between two calls.       *)
KeyframeOpensFragment ==
    opts.cadence = "keyframe" =>
        /\ \A s \in ToSet(SamplesOf(file, Anchor)) : s.key => s.nth = 1
        /\ \A k \in DOMAIN pending[Anchor] : pending[Anchor][k].key => k = 1

(* Between two calls the anchor queue is short of the cadence's threshold: *)
(* a fragment never waits for a packet that comes after the one that       *)
(* completed it.  The anchor queue only: the other tracks may queue any    *)
(* number of packets, as options.rs says of the first track.               *)
CadenceBounds ==
    CASE opts.cadence = "packets" ->
           opts.n # 0 => Len(pending[Anchor]) < opts.n
      [] opts.cadence = "seconds" ->
           pending[Anchor] = <<>>
             \/ Ticks(pending[Anchor]) < opts.n * opts.scale[Anchor]
      [] OTHER -> TRUE

(* What the comment on should_flush adds: EveryNPackets and EveryKeyframe  *)
(* fire on the matching event of any track, so no queue reaches the count  *)
(* and no sync sample waits behind another, whichever track it is of.      *)
CadenceOfAnyTrack ==
    \A t \in Track :
        /\ opts.cadence = "packets" /\ opts.n # 0 => Len(pending[t]) < opts.n
        /\ opts.cadence = "keyframe" =>
              \A k \in DOMAIN pending[t] : pending[t][k].key => k = 1

(***************************************************************************)
(* The file, as the demuxer reads it.                                      *)
(***************************************************************************)
(* Packing and unpacking agree: the demuxer finds exactly the published    *)
(* samples of each track, in order, with the duration, size, sync flag and *)
(* composition offset they were queued with, whichever fields went into    *)
(* tfhd defaults, first_sample_flags or trun rows; and the bytes at the    *)
(* offset it computes are that sample's bytes.                             *)
SampleReads(t, s, p, stored) ==
    /\ s.duration = p.duration /\ s.size = p.size
    /\ s.key = p.key /\ s.cts = p.cts
    /\ [offset |-> s.offset, size |-> s.size, track |-> t, id |-> p.id]
         \in stored
ReadsBack ==
    LET all == Samples(file)
        stored == Stored(file)
    IN  \A t \in Track :
            LET read == OfTrack(all, t)
            IN  /\ Len(read) = Len(published[t])
                /\ \A k \in DOMAIN read :
                      SampleReads(t, read[k], published[t][k], stored)

(* The decode timeline of a track has no hole and no overlap: each traf    *)
(* starts where the one before it ended, gap fragments included, and the   *)
(* next one will start where the file ends.                                *)
Contiguous ==
    \A t \in Track :
        LET trafs == TrafsOf(file, t)
        IN  /\ \A k \in DOMAIN trafs :
                  trafs[k].bmdt = IF k = 1 THEN 0 ELSE TrafEnd(trafs[k - 1])
            /\ nextBmdt[t] = TrackEnd(file, t)

(* The segment that box k opens ends with the first mdat from there on. *)
SegmentEnd(k) ==
    Position(file, 1 + CHOOSE m \in DOMAIN file :
                         /\ m >= k /\ file[m].kind = "mdat"
                         /\ \A j \in k..(m - 1) : file[j].kind # "mdat")

(* A sidx describes the segment that follows it: its reference starts at   *)
(* the next byte and ends with the mdat, and its time, duration and SAP    *)
(* flag are those of the first samples of the reference track.             *)
SidxDescribes(k) ==
    LET sidx == file[k]
        moof == CHOOSE m \in (k + 1)..Len(file) :
                    /\ file[m].kind = "moof"
                    /\ \A j \in k..(m - 1) : file[j].kind # "moof"
        run == OfTrack(MoofSamples(file, moof), sidx.track)
    IN  /\ Position(file, k + 1) + sidx.referenced = SegmentEnd(k)
        /\ run # <<>>
        /\ sidx.ept = run[1].dts
        /\ sidx.duration = Ticks(run)
        /\ sidx.sap = run[1].key
SidxExact == \A k \in DOMAIN file : file[k].kind = "sidx" => SidxDescribes(k)

(* ... as long as no ssix is written between the two.  A segment fits its  *)
(* fields here: the code clamps the size at 0x7FFF_FFFF and the duration   *)
(* at u32::MAX, and of a segment beyond them this says nothing.            *)
SidxFits == ~opts.ssix => SidxExact

(* The two ranges of an ssix partition the segment written after it: one   *)
(* ends where the mdat box starts, the other with the mdat.                *)
SsixPartitions ==
    \A k \in DOMAIN file :
        file[k].kind = "ssix" =>
            LET start == Position(file, k + 1)
                metaEnd == start + file[k].ranges[1]
            IN  /\ \E m \in DOMAIN file :
                      file[m].kind = "mdat" /\ Position(file, m) = metaEnd
                /\ metaEnd + file[k].ranges[2] = SegmentEnd(k)

(* The random-access index is exact: the entries of a track's tfra are its *)
(* sync samples up to the trailer, in order, each with its decode time,    *)
(* the position of its moof and its number in the run, or the largest the  *)
(* field holds when the run is longer than that.                           *)
IndexOf(m, t) ==
    LET boxes == OfTrack(file[m].tfra, t)
    IN  IF boxes = <<>> THEN <<>> ELSE boxes[1].entries
KeysBefore(all, m) ==
    Selected(all, {k \in DOMAIN all : all[k].key /\ all[k].moof < m})
SyncsBefore(m, t) == KeysBefore(SamplesOf(file, t), m)
TfraExact ==
    \A m \in ToSet(OfKind(file, "mfra")), t \in Track :
        LET entries == IndexOf(m, t)
            syncs == SyncsBefore(m, t)
        IN  /\ Len(entries) = Len(syncs)
            /\ \A n \in DOMAIN entries :
                  /\ entries[n].time = syncs[n].dts
                  /\ entries[n].moofOffset = Position(file, syncs[n].moof)
                  /\ entries[n].sample = Min({syncs[n].nth, NumberMax})

(* The traf an index entry names belongs to the indexed track. *)
TrafNumberNames ==
    \A m \in ToSet(OfKind(file, "mfra")), t \in Track :
        \A n \in DOMAIN IndexOf(m, t) :
            LET e == IndexOf(m, t)[n]
                moof == CHOOSE k \in DOMAIN file :
                            Position(file, k) = e.moofOffset
            IN  file[moof].trafs[e.traf].tfhd.track = t

(* write_trailer seals the mehd with the duration of the longest track as  *)
(* the file up to the index tells it, rounded up to movie ticks.           *)
SealedWith(f, mehd) ==
    LET timed == {t \in Track : opts.scale[t] > 0}
        movie(t) == (TrackEnd(f, t) * 1000 + opts.scale[t] - 1)
                       \div opts.scale[t]
    IN  /\ \A t \in timed : movie(t) <= mehd
        /\ IF timed = {} THEN mehd = 0 ELSE \E t \in timed : movie(t) = mehd
Sealed ==
    trailerWritten /\ opts.mehd =>
        \A m \in ToSet(OfKind(file, "mfra")) :
            SealedWith(SubSeq(file, 1, m), ValueOf(file[2].mehd, 0))

(* What seek_to promises: the last sync sample at or before the target, or *)
(* the first of the track when there is none.                              *)
NearestSync(S, t, pts) ==
    LET syncs == SyncsOf(S, t)
        due == {k \in syncs : Pts(S[k]) <= pts}
    IN  IF syncs = {} THEN {}
        ELSE IF due = {} THEN {Pts(S[Min(syncs)])}
        ELSE {Max({Pts(S[k]) : k \in due})}
SeekIsNearest(t) ==
    LET all == Samples(file)
        end == TrackEnd(file, t)
    IN  \A pts \in -1..(end + 1) :
            {Pts(s) : s \in SeekTo(file, all, t, pts)} = NearestSync(all, t, pts)

(* In a finished EveryKeyframe file it does so for the anchor track, whose *)
(* every sync sample opens a fragment: the tfra entry, the moof it names   *)
(* and the first sync sample from there on agree.                          *)
SeekNearestIndexed ==
    opts.cadence = "keyframe" /\ file # <<>> /\ Last(file).kind = "mfra"
        => SeekIsNearest(Anchor)

(***************************************************************************)
(* The CENC boxes, as the demuxer reads them.                              *)
(***************************************************************************)
TrafAt(m, n) ==
    24 + SumOf(file[m].pssh, BoxSize) + SumOf(SubSeq(file[m].trafs, 1, n - 1), TrafBytes)
SencAt(m, n) == TrafAt(m, n) + 8 + TfhdBytes(file[m].trafs[n].tfhd) + 20

(* Sample s, published as p, has the auxiliary information it was written  *)
(* with: as the nth record of the senc and in the cell saiz and saio point *)
(* to; none in a plain fragment or where there is nothing to say.  While   *)
(* no write fails: a moof left behind by a flush that was cut holds        *)
(* samples that are not published.                                         *)
AuxReadsAt(s, p) ==
    LET boxes == file[s.moof].trafs[s.traf].cenc
        b == ValueOf(boxes, {})
        given == ValueOf(p.given.senc, [iv |-> 0, subs |-> 0])
    IN  IF boxes = {} THEN given.iv = 0 /\ given.subs = 0
        ELSE /\ p.given.senc # {}
             /\ b.saizCount = Len(ValueOf(file[s.moof].trafs[s.traf].trun, {}).rows)
             /\ b.senc[s.nth] = [of |-> p.id, iv |-> given.iv, subs |-> given.subs]
             /\ SaizSize(b, s.nth) = AuxSize(b.senc, s.nth)
             /\ CellAt(b, s.nth) = RecordAt(b, SencAt(s.moof, s.traf), s.nth)
AuxReads ==
    ~opts.io =>
        LET all == Samples(file)
        IN  \A t \in Track :
                LET read == OfTrack(all, t)
                IN  \A k \in DOMAIN read : AuxReadsAt(read[k], published[t][k])

(* Each sample is in the key-rotation group it was written with, whatever  *)
(* the run lengths of the sbgp and the deduplication of the sgpd; while no *)
(* write fails.                                                            *)
GroupReads ==
    ~opts.io =>
        LET all == Samples(file)
        IN  \A t \in Track :
                LET read == OfTrack(all, t)
                IN  \A k \in DOMAIN read :
                      ReadGroup(file[read[k].moof].trafs[read[k].traf].groups,
                                read[k].nth)
                        = published[t][k].given.seig

(***************************************************************************)
(* The requests.                                                           *)
(***************************************************************************)
RequestIds(q) == {q[k].id : k \in DOMAIN q}
Delivered(f) ==
    (UNION {RequestIds(f[m].pssh) : m \in ToSet(Moofs(f))})
      \cup {f[k].id : k \in ToSet(OfKind(f, "emsg"))}
Waiting == RequestIds(pendingMoofPssh) \cup RequestIds(pendingEmsg)

(* A queued pssh or emsg stays queued until it is in the file.             *)
RequestsKept == [][Waiting \subseteq Waiting' \cup Delivered(file')]_vars

(* The moof a delivered request annotates: its own for a pssh, the next    *)
(* one for an emsg or a prft.                                              *)
Annotates(i) ==
    {m \in ToSet(Moofs(file)) :
        \/ i \in RequestIds(file[m].pssh)
        \/ \E k \in 1..(m - 1) :
              /\ file[k].kind \in {"emsg", "prft"} /\ file[k].id = i
              /\ \A j \in k..(m - 1) : file[j].kind # "moof"}

(* Each request annotates at most one fragment, one that has samples; the  *)
(* requests come out in the order they were made, and one still waiting    *)
(* was made after all that have come out.                                  *)
RequestsInOrder ==
    LET out == {i \in 1..asked : Annotates(i) # {}}
    IN  /\ \A i \in out : Cardinality(Annotates(i)) = 1
        /\ \A i \in out : \A m \in Annotates(i) :
              file[m].trafs[1].trun # {}
        /\ \A i, j \in out : \A m \in Annotates(i), n \in Annotates(j) :
              i < j => m <= n
        /\ \A i \in out, j \in Waiting \cup {x.id : x \in pendingPrft} :
              i < j

(***************************************************************************)
(* The muxer implements the log of SegmentStream.                          *)
(***************************************************************************)
ABS == INSTANCE SegmentStream
         WITH ready <- headerWritten, accepted <- packetsTotal,
              waiting <- [t \in Track |-> Ids(pending[t])],
              log <- [t \in Track |-> Ids(published[t])]

(* Every call is a step of the log, a flush that fails included. *)
IsSegmentStream == ABS!StreamSpec
=============================================================================
