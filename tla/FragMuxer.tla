------------------------------ MODULE FragMuxer -----------------------------
(***************************************************************************)
(* FragmentedMuxer (src/frag.rs): packets queue per track, a cadence or    *)
(* the caller cuts the queues into movie fragments, and the trailer adds   *)
(* the random-access index and seals the duration.                         *)
(*                                                                         *)
(* One action is one call of the public interface, the flush it triggers   *)
(* included.  A call that is refused before it changes anything is a       *)
(* stuttering step.  A call that fails half way is an action of its own.   *)
(*                                                                         *)
(* `file` is the output: the sequence of top-level boxes, each with its    *)
(* size in bytes; a position is the sum of the sizes before it.            *)
(***************************************************************************)
EXTENDS TrackCenc, SequencesExt

CONSTANTS
    NumTracks,     \* tracks of the movie; track 1 is index 0, the anchor
    Options,       \* configurations the muxer may be opened with
    Packets,       \* packets the caller may write
    PsshBoxes,     \* pssh requests, records [ok, size]
    EmsgBoxes,     \* emsg requests, records [ok, size]
    PrftSizes,     \* sizes of the prft boxes the caller may request
    StypSizes,     \* sizes of the styp boxes the caller may override with
    GapDurations,  \* durations handed to insert_empty_time
    SsixRangeMax,  \* largest ssix range_size (24 bits)
    NumberMax,     \* largest tfra sample number (8 bits)
    Calls(_),      \* bound: the calls made under a configuration, a record of
                   \*   writes    the packets written,
                   \*   packets   how many of them are accepted,
                   \*   requests  set_next_segment_* and styp override calls,
                   \*   gaps      gap fragments
    MaxSequence    \* bound: failed flushes happen below this number

Track == 1..NumTracks
Anchor == 1

Cadences == {"seconds", "keyframe", "packets"}
SencGiven == [iv : Nat, subs : Nat, covers : BOOLEAN]
SeigGiven == [kid : Nat, protected : BOOLEAN, iv : Nat]

(* A movie has a track, its time scales and time bases are not negative,   *)
(* and EveryNPackets counts packets.                                       *)
ASSUME NumTracksAssumption == NumTracks \in Nat /\ NumTracks >= 1
ASSUME OptionsAssumption ==
    \A o \in Options : /\ o.cadence \in Cadences
                       /\ o.scale \in [Track -> Nat] /\ o.styp \in Nat
                       /\ o.n \in Int /\ (o.cadence = "packets" => o.n \in Nat)
ASSUME PacketsAssumption ==
    Packets \subseteq
        [track : Track, pts : SUBSET Int, dts : SUBSET Int,
         duration : SUBSET Int, num : Nat, den : Nat, key : BOOLEAN,
         size : Nat, senc : SUBSET SencGiven, seig : SUBSET SeigGiven]
(* Every box has a header; a duration is a number of ticks.                *)
ASSUME RequestsAssumption ==
    /\ \A x \in PsshBoxes \cup EmsgBoxes : x.size \in Nat \ {0}
    /\ PrftSizes \subseteq Nat \ {0} /\ StypSizes \subseteq Nat \ {0}
ASSUME GapsAssumption == GapDurations \subseteq Int
ASSUME SeigAssumption == SeigEntryBytes \in Nat
ASSUME NumberAssumption == NumberMax \in Nat
(* An option holds at most one value.                                      *)
ASSUME OverridesAssumption == \A p \in Packets : \A x, y \in p.seig : x = y

VARIABLES
    opts,             \* the options, fixed at open
    headerWritten, trailerWritten,
    sequenceNumber,   \* of the last fragment started
    pending,          \* per track: samples queued for the next fragment
    pendingSenc,      \* per track: their CENC auxiliary records
    pendingSeig,      \* per track: their key-rotation overrides
    nextBmdt,         \* per track: decode time of the next fragment
    prevPts,          \* per track: base.prev_pts_in_ts, an option
    packetsTotal,     \* per track: packets seen
    tfraEntries,      \* per track: random-access entries collected
    stypOverride, pendingPrft, pendingMoofPssh, pendingEmsg,
    file,             \* the output
    published,        \* history, per track: samples put in a fragment
    asked,            \* history: number of the last request
    gaps              \* history: gap fragments written

queues == <<pending, pendingSenc, pendingSeig>>
requests == <<stypOverride, pendingPrft, pendingMoofPssh, pendingEmsg>>
output == <<sequenceNumber, nextBmdt, tfraEntries, file, published>>
vars == <<opts, headerWritten, trailerWritten, queues, prevPts, packetsTotal,
          requests, output, asked, gaps>>

Ftyp == [kind |-> "ftyp", size |-> 32]
Moov(mehd) == [kind |-> "moov", size |-> 700, mehd |-> mehd,
               overwritten |-> FALSE]

Empty == [t \in Track |-> <<>>]

Init ==
    /\ opts \in Options
    /\ headerWritten = FALSE /\ trailerWritten = FALSE
    /\ sequenceNumber = 0
    /\ pending = Empty /\ pendingSenc = Empty /\ pendingSeig = Empty
    /\ nextBmdt = [t \in Track |-> 0]
    /\ prevPts = [t \in Track |-> {}]
    /\ packetsTotal = [t \in Track |-> 0]
    /\ tfraEntries = Empty
    /\ stypOverride = {} /\ pendingPrft = {}
    /\ pendingMoofPssh = <<>> /\ pendingEmsg = <<>>
    /\ file = <<>>
    /\ published = Empty
    /\ asked = 0 /\ gaps = 0

(***************************************************************************)
(* A batch: the queues a flush works on, and what it holds back for the    *)
(* fragment after (the just-queued keyframe of an EveryKeyframe cadence,   *)
(* with its CENC records when it has them).                                *)
(***************************************************************************)
WholeBatch(p, sc, sg) ==
    [pending |-> p, senc |-> sc, seig |-> sg,
     held |-> <<>>, heldSenc |-> <<>>, heldSeig |-> <<>>]

TakeLast(q) == IF q = <<>> THEN <<>> ELSE <<Last(q)>>
Trim(q) == IF q = <<>> THEN <<>> ELSE Front(q)

(* Faulty: the keyframe is copied, not taken. *)
DetachCopy(p, sc, sg) ==
    IF p[Anchor] = <<>> \/ ~Last(p[Anchor]).key THEN WholeBatch(p, sc, sg)
    ELSE [WholeBatch(p, sc, sg) EXCEPT !.held = <<Last(p[Anchor])>>]

DetachKeyframe(p, sc, sg) ==
    LET rest == Front(p[Anchor])
        paired == Len(sc[Anchor]) > Len(rest)
    IN  IF p[Anchor] = <<>> \/ ~Last(p[Anchor]).key THEN WholeBatch(p, sc, sg)
        ELSE [pending |-> [p EXCEPT ![Anchor] = rest],
              senc |-> IF paired THEN [sc EXCEPT ![Anchor] = Trim(@)] ELSE sc,
              seig |-> IF paired THEN [sg EXCEPT ![Anchor] = Trim(@)] ELSE sg,
              held |-> <<Last(p[Anchor])>>,
              heldSenc |-> IF paired THEN TakeLast(sc[Anchor]) ELSE <<>>,
              heldSeig |-> IF paired THEN TakeLast(sg[Anchor]) ELSE <<>>]

CadenceBatch(p, sc, sg) ==
    IF opts.cadence = "keyframe" THEN DetachKeyframe(p, sc, sg)
                                 ELSE WholeBatch(p, sc, sg)

Idle(b) == \A t \in Track : b.pending[t] = <<>>
Contributing(b) ==
    Selected([t \in Track |-> t], {t \in Track : b.pending[t] # <<>>})

(***************************************************************************)
(* Building the moof of a batch.  Each traf records its own position `at`; *)
(* the data offset of a run is `mdatStart` plus the bytes of the tracks    *)
(* before it, so the moof is built once to learn its size and once more    *)
(* with the offsets.                                                       *)
(***************************************************************************)
TrafBytes(traf) ==
    8 + TfhdBytes(traf.tfhd) + 20 + CencBytes(traf.cenc)
      + GroupBytes(traf.groups)
      + (IF traf.trun = {} THEN 0 ELSE TrunBytes(ValueOf(traf.trun, {})))

BuildTraf(b, t, at, dataOffset) ==
    LET tfhd == BuildTfhd(t, b.pending[t])
    IN  [at |-> at,
         tfhd |-> tfhd,
         bmdt |-> nextBmdt[t],
         cenc |-> CencBoxes(b.senc[t], at + 8 + TfhdBytes(tfhd) + 20),
         groups |-> SeigGroups(b.seig[t]),
         trun |-> {BuildTrun(b.pending[t], dataOffset)}]

MoofBox(seq, pssh, trafs) ==
    [kind |-> "moof", seq |-> seq, pssh |-> pssh, trafs |-> trafs,
     size |-> 24 + SumOf(pssh, BoxSize) + SumOf(trafs, TrafBytes)]

BuildMoofInner(b, mdatStart) ==
    LET tracks == Contributing(b)
        bytes(t) == Bytes(b.pending[t])
        before(k) == SumOf(SubSeq(tracks, 1, k - 1), bytes)
        trafs[k \in DOMAIN tracks] ==
            BuildTraf(b, tracks[k],
                      IF k = 1 THEN 24 + SumOf(pendingMoofPssh, BoxSize)
                               ELSE trafs[k - 1].at + TrafBytes(trafs[k - 1]),
                      mdatStart + before(k))
    IN  MoofBox(sequenceNumber + 1, pendingMoofPssh, trafs)

BuildMoof(b) == BuildMoofInner(b, BuildMoofInner(b, 0).size + 8)

(* The mdat holds the samples track by track, in the order the runs do. *)
BuildMdat(b) ==
    LET tracks == Contributing(b)
        tagged(t) == [k \in DOMAIN b.pending[t] |->
                         [track |-> t, id |-> b.pending[t][k].id,
                          size |-> b.pending[t][k].size]]
        payload == FlattenSeq([k \in DOMAIN tracks |-> tagged(tracks[k])])
    IN  [kind |-> "mdat", data |-> payload, size |-> 8 + Bytes(payload)]

(* A pssh that does not round-trip, or auxiliary information too large for *)
(* saiz, makes build_moof fail; an emsg with a NUL makes build_emsg_box    *)
(* fail.                                                                   *)
MoofBuilds(b) ==
    /\ \A k \in DOMAIN pendingMoofPssh : pendingMoofPssh[k].ok
    /\ \A t \in Track : b.pending[t] # <<>>
                          => AuxFits(b.senc[t], b.pending[t])
EmsgBuilds == \A k \in DOMAIN pendingEmsg : pendingEmsg[k].ok

(***************************************************************************)
(* The boxes of one segment, in the order they are written:                *)
(*   sidx? ssix? styp? emsg* prft? moof mdat                               *)
(***************************************************************************)
StypBox(size) == [kind |-> "styp", size |-> size]
Styp == IF Some(stypOverride) THEN <<StypBox(ValueOf(stypOverride, {}).size)>>
        ELSE IF opts.styp > 0 THEN <<StypBox(opts.styp)>>
        ELSE <<>>
Emsg == [k \in DOMAIN pendingEmsg |->
            [kind |-> "emsg", size |-> pendingEmsg[k].size,
             id |-> pendingEmsg[k].id]]
Prft == IF pendingPrft = {} THEN <<>>
        ELSE LET r == ValueOf(pendingPrft, {})
             IN  <<[kind |-> "prft", size |-> r.size, id |-> r.id]>>

(* Faulty: without the emsg boxes. *)
MetaBytesSansEmsg(b) ==
    SumOf(Styp, BoxSize) + SumOf(Prft, BoxSize) + BuildMoof(b).size

MetaBytes(b) ==
    SumOf(Styp, BoxSize) + SumOf(Emsg, BoxSize) + SumOf(Prft, BoxSize)
        + BuildMoof(b).size

Sidx(b) ==
    LET t == Contributing(b)[1]
    IN  [kind |-> "sidx", size |-> 52, track |-> t,
         ept |-> nextBmdt[t],
         referenced |-> MetaBytes(b) + BuildMdat(b).size,
         duration |-> Ticks(b.pending[t]),
         sap |-> b.pending[t][1].key]

(* Faulty: the first range misses the prft. *)
SsixSansPrft(b) ==
    [kind |-> "ssix", size |-> 28,
     ranges |-> <<MetaBytes(b) - SumOf(Prft, BoxSize), BuildMdat(b).size>>]
Ssix(b) == [kind |-> "ssix", size |-> 28,
            ranges |-> <<MetaBytes(b), BuildMdat(b).size>>]
SsixBuilds(b) ==
    opts.indexes /\ opts.ssix
        => \A k \in 1..2 : Ssix(b).ranges[k] <= SsixRangeMax

Indexes(b) ==
    IF ~opts.indexes THEN <<>>
    ELSE IF opts.ssix THEN <<Sidx(b), Ssix(b)>> ELSE <<Sidx(b)>>

Segment(b) ==
    Indexes(b) \o Styp \o Emsg \o Prft \o <<BuildMoof(b), BuildMdat(b)>>

(***************************************************************************)
(* What a completed flush of batch b leaves behind.  With nothing to write *)
(* it leaves everything as it is and puts back what it held.               *)
(***************************************************************************)
FileAfter(b) == IF Idle(b) THEN file ELSE file \o Segment(b)
SequenceAfter(b) == IF Idle(b) THEN sequenceNumber ELSE sequenceNumber + 1
(* Faulty: the decode time advances by samples, not ticks. *)
BmdtByCount(b) == [t \in Track |-> nextBmdt[t] + Len(b.pending[t])]
BmdtAfter(b) == [t \in Track |-> nextBmdt[t] + Ticks(b.pending[t])]
PublishedAfter(b) == [t \in Track |-> published[t] \o b.pending[t]]

(* Faulty: the styp does not count. *)
MoofOffsetSansStyp(b) == EndOf(file \o Indexes(b) \o Emsg \o Prft)
MoofOffset(b) == EndOf(file \o Indexes(b) \o Styp \o Emsg \o Prft)

(* One entry per sync sample of the batch, in order. *)
SyncEntries(b, t) ==
    LET q == b.pending[t]
        entry(k) == [time |-> nextBmdt[t] + Ticks(SubSeq(q, 1, k - 1)),
                     moofOffset |-> MoofOffset(b),
                     traf |-> 1, trun |-> 1, sample |-> k]
        syncs == Selected([k \in DOMAIN q |-> k], {k \in DOMAIN q : q[k].key})
    IN  [n \in DOMAIN syncs |-> entry(syncs[n])]
TfraAfter(b) == [t \in Track |-> tfraEntries[t] \o SyncEntries(b, t)]

Requeue(q, held) == [q EXCEPT ![Anchor] = @ \o held]
(* Faulty: the queue is not cleared. *)
DrainedNever(b, q) == q
Drained(b, q) == IF Idle(b) THEN q ELSE Empty

(* Faulty: the emsg requests stay; the requests go even if nothing is      *)
(* written.                                                                *)
TakeRequestsNotEmsg(b) ==
    IF Idle(b) THEN UNCHANGED requests
    ELSE /\ stypOverride' = {} /\ pendingPrft' = {} /\ pendingMoofPssh' = <<>>
         /\ UNCHANGED pendingEmsg
TakeRequestsIdle(b) ==
    /\ stypOverride' = {} /\ pendingPrft' = {}
    /\ pendingMoofPssh' = <<>> /\ pendingEmsg' = <<>>

TakeRequests(b) ==
    IF Idle(b) THEN UNCHANGED requests
    ELSE /\ stypOverride' = {} /\ pendingPrft' = {}
         /\ pendingMoofPssh' = <<>> /\ pendingEmsg' = <<>>

(* Faulty: what was held back is not put back. *)
EmptyQueuesSansReplay(b) ==
    /\ pending' = Drained(b, b.pending)
    /\ pendingSenc' = Drained(b, b.senc)
    /\ pendingSeig' = Drained(b, b.seig)

EmptyQueues(b) ==
    /\ pending' = Requeue(Drained(b, b.pending), b.held)
    /\ pendingSenc' = Requeue(Drained(b, b.senc), b.heldSenc)
    /\ pendingSeig' = Requeue(Drained(b, b.seig), b.heldSeig)

FlushBuilds(b) == Idle(b) \/ (MoofBuilds(b) /\ EmsgBuilds /\ SsixBuilds(b))

FlushDone(b) ==
    /\ FlushBuilds(b)
    /\ sequenceNumber' = SequenceAfter(b)
    /\ nextBmdt' = BmdtAfter(b)
    /\ tfraEntries' = TfraAfter(b)
    /\ file' = FileAfter(b)
    /\ published' = PublishedAfter(b)
    /\ EmptyQueues(b)
    /\ TakeRequests(b)

(***************************************************************************)
(* A flush that fails: the error returns at once.  The sequence number is  *)
(* spent, the pssh requests are taken, the batch stays queued, and what    *)
(* was held back is gone with the call.                                    *)
(***************************************************************************)
(* Faulty: the batch is taken from the queues first. *)
FlushFailsDraining(b) ==
    /\ ~Idle(b)
    /\ sequenceNumber < MaxSequence
    /\ sequenceNumber' = sequenceNumber + 1
    /\ pendingMoofPssh' = <<>>
    /\ pending' = Empty /\ pendingSenc' = Empty /\ pendingSeig' = Empty
    /\ UNCHANGED <<nextBmdt, tfraEntries, published>>
(* Faulty: the held CENC records are put back without their sample. *)
FlushFailsUneven(b) ==
    /\ ~Idle(b)
    /\ sequenceNumber < MaxSequence
    /\ sequenceNumber' = sequenceNumber + 1
    /\ pendingMoofPssh' = <<>>
    /\ pending' = b.pending
    /\ pendingSenc' = Requeue(b.senc, b.heldSenc)
    /\ pendingSeig' = Requeue(b.seig, b.heldSeig)
    /\ UNCHANGED <<nextBmdt, tfraEntries, published>>

FlushFails(b) ==
    /\ ~Idle(b)
    /\ sequenceNumber < MaxSequence
    /\ sequenceNumber' = sequenceNumber + 1
    /\ pendingMoofPssh' = <<>>
    /\ pending' = b.pending /\ pendingSenc' = b.senc /\ pendingSeig' = b.seig
    /\ UNCHANGED <<nextBmdt, tfraEntries, published>>

(* In build_moof or build_emsg_box: nothing is written. *)
FlushRejected(b) ==
    /\ FlushFails(b)
    /\ ~(MoofBuilds(b) /\ EmsgBuilds)
    /\ pendingEmsg' = IF MoofBuilds(b) THEN <<>> ELSE pendingEmsg
    /\ UNCHANGED <<stypOverride, pendingPrft, file>>

(* At a write, after the first n boxes (or in build_ssix_box, after the    *)
(* sidx): the override and the prft are taken when their turn has come.    *)
FlushCut(b, n) ==
    /\ FlushFails(b)
    /\ MoofBuilds(b) /\ EmsgBuilds
    /\ IF SsixBuilds(b) THEN opts.io ELSE n = 1 \/ (opts.io /\ n = 0)
    /\ n < Len(Segment(b))
    /\ file' = file \o SubSeq(Segment(b), 1, n)
    /\ stypOverride' = IF n >= Len(Indexes(b)) THEN {} ELSE stypOverride
    /\ pendingPrft' = IF n >= Len(Indexes(b) \o Styp \o Emsg)
                      THEN {} ELSE pendingPrft
    /\ pendingEmsg' = <<>>

FlushBreaks(b) ==
    \/ FlushRejected(b)
    \/ \E n \in 0..9 : FlushCut(b, n)

Flush(b) == FlushDone(b) \/ FlushBreaks(b)

(***************************************************************************)
(* write_header.  The ftyp goes out before the moov is built, so a moov    *)
(* that cannot be built, or a failing write, leaves the ftyp behind.       *)
(***************************************************************************)
WriteHeader ==
    /\ ~headerWritten
    /\ opts.initOk
    /\ headerWritten' = TRUE
    /\ file' = file \o <<Ftyp, Moov(Present(opts.mehd, 0))>>
    /\ UNCHANGED <<opts, trailerWritten, queues, prevPts, packetsTotal,
                   requests, sequenceNumber, nextBmdt, tfraEntries, published,
                   asked, gaps>>

HeaderFails ==
    /\ ~headerWritten
    /\ opts.io \/ ~opts.initOk
    /\ file = <<>>                         \* bound: one failed attempt
    /\ file' = <<Ftyp>>
    /\ UNCHANGED <<opts, headerWritten, trailerWritten, queues, prevPts,
                   packetsTotal, requests, sequenceNumber, nextBmdt,
                   tfraEntries, published, asked, gaps>>

(***************************************************************************)
(* Queueing a packet: write_packet, write_protected_packet and             *)
(* write_protected_packet_grouped.  A packet is a record                   *)
(*   [track, pts, dts, duration, num, den, key, size, senc, seig]          *)
(* with options for the fields a caller may leave out; senc is an option   *)
(* of [iv, subs, covers], seig an option of [kid, protected, iv].  The     *)
(* field `given` of a sample is history: what the caller attached to it.   *)
(***************************************************************************)
MediaTs(p, v) == Rescale(v, p.num, p.den, opts.scale[p.track])
(* Faulty: a zero or negative duration stays. *)
AtLeastAnything(v) == v
AtLeastOne(v) == IF v > 0 THEN v ELSE 1

PacketDuration(p) ==
    IF Some(p.duration) THEN AtLeastOne(MediaTs(p, ValueOf(p.duration, 0)))
    ELSE IF Some(p.pts) /\ Some(prevPts[p.track])
         THEN AtLeastOne(MediaTs(p, ValueOf(p.pts, 0))
                           - ValueOf(prevPts[p.track], 0))
    ELSE 1

CompositionOffset(p) ==
    IF Some(p.pts) /\ Some(p.dts)
    THEN MediaTs(p, ValueOf(p.pts, 0)) - MediaTs(p, ValueOf(p.dts, 0))
    ELSE 0

PrevPtsAfter(p) ==
    IF Some(p.pts) THEN {MediaTs(p, ValueOf(p.pts, 0))}
    ELSE {ValueOf(prevPts[p.track], 0) + PacketDuration(p)}

SampleOf(p) ==
    [id |-> packetsTotal[p.track] + 1, key |-> p.key,
     duration |-> PacketDuration(p), size |-> p.size,
     cts |-> CompositionOffset(p),
     given |-> [senc |-> p.senc,
                seig |-> IF p.senc = {} THEN {} ELSE p.seig]]
SencOf(p) ==
    LET e == ValueOf(p.senc, {})
    IN  IF p.senc = {} THEN <<>>
        ELSE <<[of |-> packetsTotal[p.track] + 1, iv |-> e.iv, subs |-> e.subs]>>
SeigOf(p) == IF p.senc = {} THEN <<>> ELSE <<p.seig>>

(* The CENC queue discipline: a fragment's samples all carry auxiliary     *)
(* information or none does, with the IV width the track prescribes.       *)
SeigAllowed(p) ==
    \A e \in p.seig :
        e.protected /\ opts.prot[p.track].supply # "absent"
            => e.iv = opts.prot[p.track].size
SencAllowed(p) ==
    LET t == p.track
        prot == opts.prot[t]
        e == ValueOf(p.senc, {})
    IN  IF p.senc = {} THEN pendingSenc[t] = <<>>
        ELSE /\ prot.supply # "absent"
             /\ Len(pendingSenc[t]) = Len(pending[t])
             /\ CASE prot.supply = "sample" -> e.iv = prot.size
                  [] prot.supply = "constant" -> e.iv = 0
                  [] OTHER -> FALSE
             /\ e.subs > 0 => e.covers
Admissible(p) == headerWritten /\ SeigAllowed(p) /\ SencAllowed(p)

(* The cadence, looked at after the packet p has joined its queue. *)
(* Faulty: one packet late. *)
ShouldFlushLate(queued, p) ==
    LET anchor == queued[Anchor] IN
    CASE opts.cadence = "seconds" ->
           Ticks(anchor) > opts.n * opts.scale[Anchor]
      [] opts.cadence = "keyframe" ->
           p.track = Anchor /\ p.key /\ Len(anchor) > 2
      [] opts.cadence = "packets" ->
           opts.n # 0 /\ p.track = Anchor /\ Len(anchor) > opts.n

ShouldFlush(queued, p) ==
    LET anchor == queued[Anchor] IN
    CASE opts.cadence = "seconds" ->
           anchor # <<>> /\ Ticks(anchor) >= opts.n * opts.scale[Anchor]
      [] opts.cadence = "keyframe" ->
           p.track = Anchor /\ p.key /\ Len(anchor) >= 2
      [] opts.cadence = "packets" ->
           opts.n # 0 /\ p.track = Anchor /\ Len(anchor) >= opts.n

(* The queues once the packet p has joined them. *)
PendingWith(p) == [pending EXCEPT ![p.track] = Append(@, SampleOf(p))]
SencWith(p) == [pendingSenc EXCEPT ![p.track] = @ \o SencOf(p)]
SeigWith(p) == [pendingSeig EXCEPT ![p.track] = @ \o SeigOf(p)]

Accepted == LET count(n) == n IN SumOf(packetsTotal, count)

QueuePacket(p) ==
    /\ Admissible(p)
    /\ p \in Calls(opts).writes /\ Accepted < Calls(opts).packets
    /\ packetsTotal' = [packetsTotal EXCEPT ![p.track] = @ + 1]
    /\ prevPts' = [prevPts EXCEPT ![p.track] = PrevPtsAfter(p)]
    /\ IF ShouldFlush(PendingWith(p), p)
       THEN Flush(CadenceBatch(PendingWith(p), SencWith(p), SeigWith(p)))
       ELSE /\ pending' = PendingWith(p)
            /\ pendingSenc' = SencWith(p) /\ pendingSeig' = SeigWith(p)
            /\ UNCHANGED <<requests, output>>
    /\ UNCHANGED <<opts, headerWritten, trailerWritten, asked, gaps>>

Queued == WholeBatch(pending, pendingSenc, pendingSeig)

FlushFragment ==
    /\ ~Idle(Queued)
    /\ Flush(Queued)
    /\ UNCHANGED <<opts, headerWritten, trailerWritten, prevPts, packetsTotal,
                   asked, gaps>>

(***************************************************************************)
(* Requests for the next fragment.  A styp or prft request replaces the    *)
(* one before it; pssh and emsg requests add up.                           *)
(***************************************************************************)
Ask ==
    /\ asked < Calls(opts).requests
    /\ asked' = asked + 1
    /\ UNCHANGED <<opts, headerWritten, trailerWritten, queues, prevPts,
                   packetsTotal, output, gaps>>
SetStyp(size) ==
    /\ Ask
    /\ stypOverride' = {[id |-> asked + 1, size |-> size]}
    /\ UNCHANGED <<pendingPrft, pendingMoofPssh, pendingEmsg>>
SetPrft(size) ==
    /\ Ask
    /\ pendingPrft' = {[id |-> asked + 1, size |-> size]}
    /\ UNCHANGED <<stypOverride, pendingMoofPssh, pendingEmsg>>
SetPssh(x) ==
    /\ Ask
    /\ pendingMoofPssh' =
         Append(pendingMoofPssh, [id |-> asked + 1, ok |-> x.ok, size |-> x.size])
    /\ UNCHANGED <<stypOverride, pendingPrft, pendingEmsg>>
SetEmsg(x) ==
    /\ Ask
    /\ pendingEmsg' =
         Append(pendingEmsg, [id |-> asked + 1, ok |-> x.ok, size |-> x.size])
    /\ UNCHANGED <<stypOverride, pendingPrft, pendingMoofPssh>>

(***************************************************************************)
(* insert_empty_time: flush what is pending, then a moof whose only traf   *)
(* has an empty duration and no run.                                       *)
(***************************************************************************)
GapTfhd(t, duration) ==
    [track |-> t, empty |-> TRUE,
     duration |-> {duration}, size |-> {}, flags |-> {}]
GapMoof(seq, t, start, duration) ==
    MoofBox(seq, <<>>,
            <<[at |-> 24, tfhd |-> GapTfhd(t, duration), bmdt |-> start,
               cenc |-> {}, groups |-> {}, trun |-> {}]>>)

GapAllowed(duration) ==
    headerWritten /\ ~trailerWritten /\ ~opts.edits /\ duration > 0

(* A flush on behalf of the call, then `extra` boxes after the segment. *)
FlushThen(extra, seq, bmdt) ==
    /\ FlushBuilds(Queued)
    /\ sequenceNumber' = seq
    /\ nextBmdt' = bmdt
    /\ file' = FileAfter(Queued) \o extra
    /\ tfraEntries' = TfraAfter(Queued)
    /\ published' = PublishedAfter(Queued)
    /\ EmptyQueues(Queued)
    /\ TakeRequests(Queued)

InsertEmptyTime(t, duration) ==
    /\ GapAllowed(duration)
    /\ gaps < Calls(opts).gaps
    /\ LET seq == SequenceAfter(Queued) + 1
           bmdt == BmdtAfter(Queued)
       IN  \/ FlushThen(<<GapMoof(seq, t, bmdt[t], duration)>>, seq,
                        [bmdt EXCEPT ![t] = @ + duration])
           \/ FlushBreaks(Queued)
           \/ opts.io /\ seq <= MaxSequence /\ FlushThen(<<>>, seq, bmdt)
    /\ gaps' = gaps + 1
    /\ UNCHANGED <<opts, headerWritten, trailerWritten, prevPts, packetsTotal,
                   asked>>

(***************************************************************************)
(* write_trailer: the last flush keeps a trailing keyframe; then the mfra  *)
(* when some track has a random-access entry, and the patch of the mehd.   *)
(***************************************************************************)
TfraBox(t, entries) ==
    [track |-> t,
     entries |-> [n \in DOMAIN entries |->
        [entries[n] EXCEPT !.sample = IF @ < NumberMax THEN @ ELSE NumberMax]]]
Mfra(tfra) ==
    LET tracks == Selected([t \in Track |-> t], {t \in Track : tfra[t] # <<>>})
        bytes(t) == 24 + 19 * Len(tfra[t])
    IN  [kind |-> "mfra", size |-> 8 + SumOf(tracks, bytes) + 16,
         tfra |-> [n \in DOMAIN tracks |->
                     TfraBox(tracks[n], tfra[tracks[n]])]]
Index(tfra) ==
    IF opts.indexes /\ \E t \in Track : tfra[t] # <<>> THEN <<Mfra(tfra)>>
    ELSE <<>>

(* Faulty: rounded down. *)
MovieTimeFloor(bmdt, t) == (bmdt[t] * 1000) \div opts.scale[t]
MovieTime(bmdt, t) ==
    (bmdt[t] * 1000 + opts.scale[t] - 1) \div opts.scale[t]
Longest(bmdt) ==
    LET timed == {t \in Track : opts.scale[t] > 0}
    IN  Max({0} \cup {MovieTime(bmdt, t) : t \in timed})
(* The patch position assumes that the moov follows the first ftyp; after  *)
(* a retried header it falls short, onto other bytes of the moov.          *)
Seal(f, bmdt) ==
    IF ~opts.mehd THEN f
    ELSE IF f[2].kind = "moov" THEN [f EXCEPT ![2].mehd = {Longest(bmdt)}]
    ELSE [f EXCEPT ![3].overwritten = TRUE]

TrailerDone ==
    LET f == FileAfter(Queued) \o Index(TfraAfter(Queued))
    IN  /\ FlushBuilds(Queued)
        /\ trailerWritten' = TRUE
        /\ sequenceNumber' = SequenceAfter(Queued)
        /\ nextBmdt' = BmdtAfter(Queued)
        /\ tfraEntries' = TfraAfter(Queued)
        /\ file' = Seal(f, BmdtAfter(Queued))
        /\ published' = PublishedAfter(Queued)
        /\ EmptyQueues(Queued)
        /\ TakeRequests(Queued)

(* A failing write of the mfra, or of the mehd patch after it.  (A patch   *)
(* that fails between its two seeks leaves the output positioned inside    *)
(* the moov; what a call after that overwrites is left out.)               *)
TrailerCut ==
    /\ opts.io
    /\ Last(file).kind # "mfra"            \* bound: not twice in a row
    /\ \E extra \in {<<>>, Index(TfraAfter(Queued))} :
          FlushThen(extra, SequenceAfter(Queued), BmdtAfter(Queued))
    /\ UNCHANGED trailerWritten

WriteTrailer ==
    /\ headerWritten /\ ~trailerWritten
    /\ \/ TrailerDone
       \/ FlushBreaks(Queued) /\ UNCHANGED trailerWritten
       \/ TrailerCut
    /\ UNCHANGED <<opts, headerWritten, prevPts, packetsTotal, asked, gaps>>

Next ==
    \/ WriteHeader
    \/ HeaderFails
    \/ \E p \in Packets : QueuePacket(p)
    \/ FlushFragment
    \/ \E size \in StypSizes : SetStyp(size)
    \/ \E size \in PrftSizes : SetPrft(size)
    \/ \E x \in PsshBoxes : SetPssh(x)
    \/ \E x \in EmsgBoxes : SetEmsg(x)
    \/ \E t \in Track, d \in GapDurations : InsertEmptyTime(t, d)
    \/ WriteTrailer

Spec == Init /\ [][Next]_vars
=============================================================================
