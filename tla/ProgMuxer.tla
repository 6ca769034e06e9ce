------------------------------ MODULE ProgMuxer -----------------------------
(***************************************************************************)
(* Mp4Muxer (src/muxer.rs): the progressive writer.  Payload goes to the   *)
(* mdat packet by packet while each track keeps its sample table;          *)
(* write_trailer adds the moov behind the mdat, or, with faststart, writes *)
(* moov and buffered mdat behind the ftyp.                                 *)
(*                                                                         *)
(* One action is one call of the public interface.  The output is a seek   *)
(* position and the sequence of writes made so far, each an extent         *)
(* [at, size, holds]; a later write covers an earlier one.                 *)
(***************************************************************************)
EXTENDS SampleTable

CONSTANTS
    NumTracks,   \* tracks of the movie
    Options,     \* configurations the muxer may be opened with
    Packets,     \* packets the caller may write
    FtypSize,    \* bytes of the ftyp box
    MoovFixed,   \* bytes of the moov but for its chunk offset boxes
    U32Max,      \* largest box size and stco offset (2^32 - 1)
    I32Max,      \* largest composition offset (2^31 - 1)
    Attempts,    \* rounds of the faststart loop (4)
    MaxPackets,  \* bound: packets accepted, a failed call counting as one
    MaxFaults    \* bound: calls that fail after they changed something

Track == 1..NumTracks

(* An edit list handed over by the caller replaces the derived one. *)
EditRec == [duration : Nat, mediaTime : Int, still : BOOLEAN]
ChunkPolicies == {"sampleCount", "packetBoundaries"}

ASSUME ProgTracksAssumption == NumTracks \in Nat /\ NumTracks >= 1
ASSUME ProgOptionsAssumption ==
    Options \subseteq
        [faststart : BOOLEAN, large : BOOLEAN, chunking : ChunkPolicies,
         perChunk : [Track -> Nat], scale : [Track -> Nat],
         writeEditList : BOOLEAN, edits : [Track -> SUBSET Seq(EditRec)],
         io : BOOLEAN]
ASSUME ProgPacketsAssumption ==
    Packets \subseteq
        [track : Track, pts : SUBSET Int, dts : SUBSET Int,
         duration : SUBSET Int, num : Nat, den : Nat, key : BOOLEAN,
         size : Nat, boundary : BOOLEAN]
(* Timestamps and durations are options: of one value at most. *)
ASSUME ProgTimesAssumption ==
    \A p \in Packets : \A o \in {p.pts, p.dts, p.duration} : \A u, v \in o : u = v
ASSUME ProgSizesAssumption ==
    /\ FtypSize \in Nat /\ FtypSize > 0 /\ MoovFixed \in Nat /\ U32Max \in Nat
    /\ Attempts \in Nat /\ Attempts >= 1

VARIABLES
    opts,           \* the options, fixed at open
    headerWritten, trailerWritten,
    track,          \* per track: its TrackState
    lastTrack,      \* the track written last, an option
    mdatSizeOffset, mdatStartOffset,
    mdatBytes,      \* payload bytes so far
    mdatBuffer,     \* the payload held back for faststart, an option
    position,       \* of the output
    writes,         \* the output: its extents in the order written
    log,            \* history, per track: packets accepted
    calls,          \* history: write_packet calls that did something
    faults,         \* history: number of calls that failed half way
    mishaps         \* history: kinds of failure a file may not survive

output == <<position, writes>>
history == <<log, calls, faults, mishaps>>
vars == <<opts, headerWritten, trailerWritten, track, lastTrack,
          mdatSizeOffset, mdatStartOffset, mdatBytes, mdatBuffer, output,
          history>>

Init ==
    /\ opts \in Options
    /\ headerWritten = FALSE /\ trailerWritten = FALSE
    /\ track = [t \in Track |-> NewTrack]
    /\ lastTrack = {}
    /\ mdatSizeOffset = 0 /\ mdatStartOffset = 0 /\ mdatBytes = 0
    /\ mdatBuffer = {}
    /\ position = 0 /\ writes = <<>>
    /\ log = [t \in Track |-> <<>>]
    /\ calls = 0 /\ faults = 0 /\ mishaps = {}

(***************************************************************************)
(* Writing.  A call writes pieces [size, holds] one after the other; one   *)
(* that fails stops after k of them and possibly one byte of the next.     *)
(***************************************************************************)
Piece(size, holds) == [size |-> size, holds |-> holds]
Ftyp == Piece(FtypSize, [kind |-> "ftyp"])
HeaderBytes(wide) == IF wide THEN 16 ELSE 8
MdatHeader(wide, total) ==
    Piece(HeaderBytes(wide), [kind |-> "mdat", total |-> total])
Payload(t, id, size) ==
    Piece(size, [kind |-> "sample", track |-> t, id |-> id])

Placed(pieces, at) ==
    [k \in DOMAIN pieces |->
        [at |-> at + Bytes(SubSeq(pieces, 1, k - 1)),
         size |-> pieces[k].size, holds |-> pieces[k].holds]]
WriteAt(at, pieces) ==
    /\ writes' = writes \o Placed(pieces, at)
    /\ position' = at + Bytes(pieces)

Cuts(pieces) ==
    {[kept |-> k, torn |-> n] : k \in 0..(Len(pieces) - 1), n \in {0, 1}}
Cut(pieces, c) ==
    SubSeq(pieces, 1, c.kept) \o
    (IF c.torn = 0 THEN <<>> ELSE <<Piece(1, [kind |-> "torn"])>>)
(* Only a piece of more than one byte can be torn. *)
CanCut(pieces, c) ==
    opts.io /\ (c.torn = 1 => pieces[c.kept + 1].size > 1)

Fault(kinds) ==
    /\ faults < MaxFaults
    /\ faults' = faults + 1
    /\ mishaps' = mishaps \cup kinds

(***************************************************************************)
(* write_header: the ftyp, and for the direct layout a placeholder of the  *)
(* mdat header.                                                            *)
(***************************************************************************)
Header ==
    IF opts.faststart THEN <<Ftyp>> ELSE <<Ftyp, MdatHeader(opts.large, 0)>>

WriteHeader ==
    /\ ~headerWritten
    /\ headerWritten' = TRUE
    /\ WriteAt(position, Header)
    /\ mdatSizeOffset' = IF opts.faststart THEN 0 ELSE position + FtypSize
    /\ mdatStartOffset' = IF opts.faststart THEN 0 ELSE position + Bytes(Header)
    /\ mdatBuffer' = Present(opts.faststart, <<>>)
    /\ UNCHANGED <<opts, trailerWritten, track, lastTrack, mdatBytes, history>>

HeaderFails ==
    /\ ~headerWritten
    /\ \E c \in Cuts(Header) :
          /\ CanCut(Header, c)
          /\ WriteAt(position, Cut(Header, c))
          /\ Fault(IF c.torn = 0 THEN {} ELSE {"torn"})
    /\ UNCHANGED <<opts, headerWritten, trailerWritten, track, lastTrack,
                   mdatSizeOffset, mdatStartOffset, mdatBytes, mdatBuffer,
                   log, calls>>

(***************************************************************************)
(* write_packet.                                                           *)
(***************************************************************************)
MediaTs(p, v) == Rescale(v, p.num, p.den, opts.scale[p.track])
PtsOf(p) == {MediaTs(p, v) : v \in p.pts}
DtsOf(p) == {MediaTs(p, v) : v \in p.dts}

(* Faulty: the distance to the packet before is taken as it is. *)
ComputeDeltaUnguarded(tr, p) ==
    LET own == {MediaTs(p, d) : d \in p.duration \ {0}}
        byDts == {n - b : n \in DtsOf(p), b \in tr.prevDts}
    IN  IF own # {} THEN ValueOf(own, 1) ELSE ValueOf(byDts, 1)
(* The packet's own duration, else the distance to the packet before.      *)
ComputeDelta(tr, p) ==
    LET own == {MediaTs(p, d) : d \in p.duration \ {0}}
        since(prev, now) == {n - b : n \in now, b \in prev}
        byDts == since(tr.prevDts, DtsOf(p))
        byPts == IF p.dts = {} THEN since(tr.prevPts, PtsOf(p)) ELSE {}
        positive(o) == \E d \in o : d > 0
    IN  IF positive(own) THEN ValueOf(own, 1)
        ELSE IF positive(byDts) THEN ValueOf(byDts, 1)
        ELSE IF positive(byPts) THEN ValueOf(byPts, 1)
        ELSE 1

CompositionOffset(p) ==
    IF Some(p.pts) /\ Some(p.dts)
    THEN ValueOf(PtsOf(p), 0) - ValueOf(DtsOf(p), 0) ELSE 0
OffsetFits(p) == CompositionOffset(p) \in (-I32Max - 1)..I32Max

(* Size, delta and decode time are recorded first ... *)
RecordDecoding(tr, p) ==
    LET delta == ComputeDelta(tr, p)
    IN  [tr EXCEPT
           !.sampleSizes = Append(@, p.size),
           !.stts = PushRun(@, delta),
           !.cumulativeDuration = @ + delta,
           !.firstDts = IF Some(p.dts) /\ tr.nextSampleIndex = 0
                        THEN DtsOf(p) ELSE @,
           !.prevDts = IF Some(p.dts) THEN DtsOf(p) ELSE @]

(* Faulty: the sample that reaches the target still leaves the chunk open. *)
ChunkEndsLate(tr, p) ==
    IF opts.chunking = "sampleCount"
    THEN tr.currentChunkSamples > opts.perChunk[p.track]
    ELSE p.boundary
ChunkEnds(tr, p) ==
    IF opts.chunking = "sampleCount"
    THEN tr.currentChunkSamples >= opts.perChunk[p.track]
    ELSE p.boundary

(* ... then the composition offset, the sync flag and the chunk ...        *)
RecordPlace(tr, p, offset) ==
    LET joined == JoinChunk(
          [tr EXCEPT
             !.ctts = PushRun(@, CompositionOffset(p)),
             !.keyframes = IF p.key THEN Append(@, tr.nextSampleIndex + 1) ELSE @],
          offset)
    IN  IF ChunkEnds(joined, p) THEN CloseChunk(joined) ELSE joined

(* ... and the presentation times.                                         *)
RecordPresentation(tr, p, delta) ==
    LET pts == ValueOf(PtsOf(p), 0)
        end == pts + delta
    IN  IF Some(p.pts)
        THEN [tr EXCEPT
                !.firstPts = {ValueOf(@, pts)},
                !.prevPts = {pts},
                !.presentationEnd = {Max({ValueOf(@, end), end})},
                !.nextSampleIndex = @ + 1]
        ELSE [tr EXCEPT
                !.prevPts = {ValueOf(@, 0) + delta},
                !.firstPts = {ValueOf(@, 0)},
                !.nextSampleIndex = @ + 1]

(* Faulty: the chunk of the other track stays open. *)
SwitchToSansClose(t) == track
(* The chunk of another track ends where this packet begins. *)
SwitchTo(t) ==
    [u \in Track |-> IF u # t /\ u \in lastTrack THEN CloseChunk(track[u])
                                                 ELSE track[u]]

Accepted == LET count(q) == Len(q) IN SumOf(log, count)
LogEntry(p) ==
    [packet |-> p, delta |-> ComputeDelta(track[p.track], p), call |-> calls + 1]

(* Once a trailer was tried, packets may end up behind the moov, or, with  *)
(* the buffer gone, where the moov should be.                              *)
Late == IF "trailer" \in mishaps THEN {"late"} ELSE {}

StorePayload(p) ==
    LET piece == Payload(p.track, Len(log[p.track]) + 1, p.size)
    IN  /\ IF Some(mdatBuffer)
           THEN /\ mdatBuffer' = {Append(ValueOf(mdatBuffer, <<>>), piece)}
                /\ UNCHANGED output
           ELSE /\ WriteAt(position, <<piece>>)
                /\ UNCHANGED mdatBuffer
        /\ mdatBytes' = mdatBytes + p.size

WritePacket(p) ==
    LET t == p.track
        tr == SwitchTo(t)[t]
        delta == ComputeDelta(tr, p)
    IN  /\ headerWritten
        /\ OffsetFits(p)
        /\ Accepted + faults < MaxPackets
        /\ StorePayload(p)
        /\ lastTrack' = {t}
        /\ track' = [SwitchTo(t) EXCEPT ![t] =
             RecordPresentation(
               RecordPlace(RecordDecoding(tr, p), p, mdatStartOffset + mdatBytes),
               p, delta)]
        /\ log' = [log EXCEPT ![t] = Append(@, LogEntry(p))]
        /\ calls' = calls + 1
        /\ mishaps' = mishaps \cup Late
        /\ UNCHANGED <<opts, headerWritten, trailerWritten, mdatSizeOffset,
                       mdatStartOffset, faults>>

(* The output refuses the payload: nothing of the packet is recorded.      *)
PayloadFails(p) ==
    LET pieces == <<Payload(p.track, Len(log[p.track]) + 1, p.size)>>
    IN  /\ headerWritten
        /\ mdatBuffer = {}
        /\ p.size > 0
        /\ \E c \in Cuts(pieces) :
              /\ CanCut(pieces, c)
              /\ WriteAt(position, Cut(pieces, c))
              /\ Fault(Late \cup (IF c.torn = 0 THEN {} ELSE {"torn"}))
        /\ track' = SwitchTo(p.track)
        /\ lastTrack' = {p.track}
        /\ calls' = calls + 1
        /\ UNCHANGED <<opts, headerWritten, trailerWritten, mdatSizeOffset,
                       mdatStartOffset, mdatBytes, mdatBuffer, log>>

(* A composition offset beyond 32 bits is refused when half of the packet  *)
(* is already recorded.                                                    *)
OffsetRefused(p) ==
    LET t == p.track
    IN  /\ headerWritten
        /\ ~OffsetFits(p)
        /\ StorePayload(p)
        /\ lastTrack' = {t}
        /\ track' = [SwitchTo(t) EXCEPT ![t] = RecordDecoding(@, p)]
        /\ calls' = calls + 1
        /\ Fault({"refused"})
        /\ UNCHANGED <<opts, headerWritten, trailerWritten, mdatSizeOffset,
                       mdatStartOffset, log>>

(***************************************************************************)
(* The moov.                                                               *)
(***************************************************************************)
MoovSize(trs) ==
    LET bytes(tr) == ChunkOffsetBytes(tr.chunkOffsets, U32Max)
    IN  MoovFixed + SumOf(trs, bytes)

ElstOf(trs, t) ==
    IF Some(opts.edits[t]) THEN ValueOf(opts.edits[t], <<>>)
    ELSE IF opts.writeEditList THEN BuildEdts(trs[t], opts.scale[t])
    ELSE <<>>

Moov(trs) ==
    Piece(MoovSize(trs),
          [kind |-> "moov",
           stbl |-> [t \in Track |-> StblOf(trs[t])],
           elst |-> [t \in Track |-> ElstOf(trs, t)]])

(***************************************************************************)
(* write_trailer.                                                          *)
(***************************************************************************)
Closed == [t \in Track |-> CloseChunk(track[t])]

TrailerCall ==
    /\ headerWritten /\ ~trailerWritten
    /\ UNCHANGED <<opts, headerWritten, lastTrack, mdatSizeOffset,
                   mdatStartOffset, mdatBytes, log, calls>>

(* Direct layout: the size in the mdat header is everything up to where    *)
(* the output stands, then the moov follows.                               *)
MdatTotal == position - mdatSizeOffset
Unsizable == ~opts.large /\ MdatTotal > U32Max
PatchAt == mdatSizeOffset + (IF opts.large THEN 8 ELSE 0)
Patched == <<[at |-> mdatSizeOffset, size |-> HeaderBytes(opts.large),
              holds |-> [kind |-> "mdat", total |-> MdatTotal]]>>

TrailerDirect ==
    /\ ~opts.faststart
    /\ TrailerCall
    /\ ~Unsizable
    /\ track' = Closed
    /\ writes' = writes \o Patched \o Placed(<<Moov(Closed)>>, position)
    /\ position' = position + MoovSize(Closed)
    /\ trailerWritten' = TRUE
    /\ mishaps' = mishaps \cup {"trailer"}
    /\ UNCHANGED <<mdatBuffer, faults>>

(* The payload is too long for the header chosen at the start, or the      *)
(* output cannot tell where it stands.                                     *)
TrailerRefused ==
    /\ ~opts.faststart
    /\ TrailerCall
    /\ Unsizable \/ opts.io
    /\ track' = Closed
    /\ Fault({"trailer"})
    /\ UNCHANGED <<trailerWritten, mdatBuffer, output>>

(* The patch fails, or the seek back behind the payload does: the output   *)
(* stands in the mdat header.                                              *)
PatchFails ==
    /\ ~opts.faststart
    /\ TrailerCall
    /\ ~Unsizable
    /\ opts.io
    /\ track' = Closed
    /\ \/ writes' = writes /\ position' = PatchAt
       \/ /\ writes' = writes \o Patched
          /\ position' = PatchAt + (IF opts.large THEN 8 ELSE 4)
    /\ Fault({"trailer", "patch"})
    /\ UNCHANGED <<trailerWritten, mdatBuffer>>

(* The moov cannot be written, or only the flush behind it fails.          *)
MoovFails ==
    /\ ~opts.faststart
    /\ TrailerCall
    /\ ~Unsizable
    /\ opts.io
    /\ track' = Closed
    /\ LET pieces == <<Moov(Closed)>>
       IN  \E part \in {Cut(pieces, c) : c \in Cuts(pieces)} \cup {pieces} :
              /\ writes' = writes \o Patched \o Placed(part, position)
              /\ position' = position + Bytes(part)
    /\ Fault({"trailer"})
    /\ UNCHANGED <<trailerWritten, mdatBuffer>>

(***************************************************************************)
(* Faststart layout.  Every chunk offset is shifted by what precedes the   *)
(* payload, the moov included, whose size depends on the shifted offsets:  *)
(* the moov is built with the size of the round before until the size      *)
(* repeats.                                                                *)
(***************************************************************************)
Shifted(trs, base) ==
    [t \in Track |-> [trs[t] EXCEPT !.chunkOffsets =
                        [k \in DOMAIN @ |-> @[k] + base]]]

(* Faulty: the header of the mdat is taken to be the short one. *)
PayloadStartNarrow(moovSize, wide) == FtypSize + moovSize + HeaderBytes(FALSE)
PayloadStart(moovSize, wide) == FtypSize + moovSize + HeaderBytes(wide)

(* Faulty: two rounds, enough while every offset fits. *)
RoundsTwo == 2
Rounds == Attempts

FaststartPlan ==
    LET payload == ValueOf(mdatBuffer, <<>>)
        wide == opts.large \/ 8 + Bytes(payload) > U32Max
        base(moovSize) == PayloadStart(moovSize, wide)
        size[k \in 0..Rounds] ==
            IF k = 0 THEN 0 ELSE MoovSize(Shifted(Closed, base(size[k - 1])))
        settled == {k \in 1..Rounds : size[k] = size[k - 1]}
        last == IF settled = {} THEN Rounds ELSE Min(settled)
        trs == Shifted(Closed, base(size[last - 1]))
    IN  [converged |-> settled # {},
         tracks |-> trs,
         pieces |-> <<Moov(trs), MdatHeader(wide, HeaderBytes(wide) + Bytes(payload))>>
                      \o payload]

(* A moov that has not settled is refused, the buffer taken already.       *)
TrailerFaststart ==
    /\ opts.faststart
    /\ TrailerCall
    /\ track' = FaststartPlan.tracks
    /\ mdatBuffer' = {}
    /\ IF FaststartPlan.converged
       THEN /\ WriteAt(FtypSize, FaststartPlan.pieces)
            /\ trailerWritten' = TRUE
            /\ mishaps' = mishaps \cup {"trailer"}
            /\ UNCHANGED faults
       ELSE /\ Fault({"trailer", "gaveUp"})
            /\ UNCHANGED <<trailerWritten, output>>

(* A write fails, or only the flush behind the last.  The payload buffer   *)
(* is gone and the offsets are shifted, whatever the caller does next.     *)
FaststartFails ==
    /\ opts.faststart
    /\ TrailerCall
    /\ opts.io
    /\ FaststartPlan.converged
    /\ track' = FaststartPlan.tracks
    /\ LET pieces == FaststartPlan.pieces
       IN  \E part \in {Cut(pieces, c) : c \in {c \in Cuts(pieces) : CanCut(pieces, c)}}
                         \cup {pieces} :
              WriteAt(FtypSize, part)
    /\ mdatBuffer' = {}
    /\ Fault({"trailer", "rebuilt"})
    /\ UNCHANGED trailerWritten

WriteTrailer ==
    \/ TrailerDirect \/ TrailerRefused \/ PatchFails \/ MoovFails
    \/ TrailerFaststart \/ FaststartFails

Next ==
    \/ WriteHeader
    \/ HeaderFails
    \/ \E p \in Packets : WritePacket(p) \/ PayloadFails(p) \/ OffsetRefused(p)
    \/ WriteTrailer

Spec == Init /\ [][Next]_vars
=============================================================================
