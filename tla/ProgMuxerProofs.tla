-------------------------- MODULE ProgMuxerProofs ---------------------------
(***************************************************************************)
(* The chunk books of ProgMuxer balance for every number of tracks, every  *)
(* option and packet set and every bound, failing calls included.          *)
(*                                                                         *)
(* ChunkBooks is not inductive: a packet opens a chunk only if the counter *)
(* it raises is a number and the offsets it extends are a sequence.        *)
(* BooksInv adds that, per track, and nothing about the rest of a track;   *)
(* ProgInv then gives every field of a track its type.  What the promotion *)
(* of chunk offsets in the faststart layout needs is counted in rounds.    *)
(***************************************************************************)
EXTENDS ProgContract, ListProofs

Fields ==
    {"sampleSizes", "stts", "ctts", "keyframes", "chunkOffsets", "stsc",
     "currentChunkSamples", "chunkCount", "lastSamplesPerChunk",
     "nextSampleIndex", "cumulativeDuration", "prevPts", "firstPts",
     "firstDts", "prevDts", "presentationEnd"}
IsSeq(s) == \E S : s \in Seq(S)

(* One offset for every chunk, closed or open. *)
Balanced(tr) ==
    /\ DOMAIN tr = Fields
    /\ IsSeq(tr.chunkOffsets)
    /\ tr.currentChunkSamples \in Nat /\ tr.chunkCount \in Nat
    /\ Len(tr.chunkOffsets) =
         tr.chunkCount + (IF tr.currentChunkSamples > 0 THEN 1 ELSE 0)
Open(tr) == tr.currentChunkSamples > 0

BooksInv ==
    /\ track = [t \in Track |-> track[t]]
    /\ \A t \in Track : Balanced(track[t])
    /\ \A t \in Track : Open(track[t]) => lastTrack = {t}

(***************************************************************************)
(* Sequences of anything.                                                  *)
(***************************************************************************)
LEMMA AppendIsSeq ==
    ASSUME NEW s, IsSeq(s), NEW x
    PROVE  IsSeq(Append(s, x)) /\ Len(Append(s, x)) = Len(s) + 1
  <1>1. PICK S : s \in Seq(S)
    BY DEF IsSeq
  <1> DEFINE T == S \cup {x}
  <1>2. s \in Seq(T) /\ x \in T
    BY <1>1
  <1>3. Append(s, x) \in Seq(T) /\ Len(Append(s, x)) = Len(s) + 1
    BY <1>2
  <1> QED
    BY <1>3 DEF IsSeq

LEMMA MapIsSeq ==
    ASSUME NEW s, IsSeq(s), NEW b
    PROVE  /\ IsSeq([k \in DOMAIN s |-> s[k] + b])
           /\ Len([k \in DOMAIN s |-> s[k] + b]) = Len(s)
  <1>1. PICK S : s \in Seq(S)
    BY DEF IsSeq
  <1> DEFINE m == [k \in DOMAIN s |-> s[k] + b]
             T == {s[k] + b : k \in DOMAIN s}
  <1>2. DOMAIN s = 1..Len(s) /\ Len(s) \in Nat
    BY <1>1
  <1>3. m \in [1..Len(s) -> T]
    BY <1>2
  <1> HIDE DEF m, T
  <1>4. m \in Seq(T) /\ Len(m) = Len(s)
    BY <1>2, <1>3
  <1>5. IsSeq(m) /\ Len(m) = Len(s)
    BY <1>4 DEF IsSeq
  <1> QED
    BY <1>5 DEF m

(***************************************************************************)
(* One track.                                                              *)
(***************************************************************************)
LEMMA NewTrackBalanced == Balanced(NewTrack) /\ ~Open(NewTrack)
  <1>1. <<>> \in Seq({})
    OBVIOUS
  <1> QED
    BY <1>1 DEF Balanced, Open, NewTrack, Fields, IsSeq

(* A closed chunk stays in the books. *)
LEMMA CloseChunkBalanced ==
    ASSUME NEW tr, Balanced(tr)
    PROVE  Balanced(CloseChunk(tr)) /\ ~Open(CloseChunk(tr))
  BY DEF Balanced, Open, CloseChunk, Fields

LEMMA JoinChunkBalanced ==
    ASSUME NEW tr, Balanced(tr), NEW offset
    PROVE  Balanced(JoinChunk(tr, offset))
  <1>1. /\ IsSeq(Append(tr.chunkOffsets, offset))
        /\ Len(Append(tr.chunkOffsets, offset)) = Len(tr.chunkOffsets) + 1
    BY AppendIsSeq DEF Balanced
  <1> QED
    BY <1>1 DEF Balanced, JoinChunk, Fields

(* The rest of a packet's records leaves the chunks alone. *)
LEMMA RecordDecodingBalanced ==
    ASSUME NEW tr, Balanced(tr), NEW p
    PROVE  /\ Balanced(RecordDecoding(tr, p))
           /\ Open(RecordDecoding(tr, p)) <=> Open(tr)
  BY DEF Balanced, Open, RecordDecoding, Fields

LEMMA RecordPresentationBalanced ==
    ASSUME NEW tr, Balanced(tr), NEW p, NEW delta
    PROVE  Balanced(RecordPresentation(tr, p, delta))
  BY DEF Balanced, RecordPresentation, Fields

LEMMA RecordPlaceBalanced ==
    ASSUME NEW tr, Balanced(tr), NEW p, NEW offset
    PROVE  Balanced(RecordPlace(tr, p, offset))
  <1> DEFINE noted ==
        [tr EXCEPT
           !.ctts = PushRun(@, CompositionOffset(p)),
           !.keyframes = IF p.key THEN Append(@, tr.nextSampleIndex + 1) ELSE @]
             joined == JoinChunk(noted, offset)
  <1>1. Balanced(noted)
    BY DEF Balanced, Fields
  <1>2. Balanced(joined)
    BY <1>1, JoinChunkBalanced
  <1>3. Balanced(CloseChunk(joined))
    BY <1>2, CloseChunkBalanced
  <1>4. RecordPlace(tr, p, offset) \in {joined, CloseChunk(joined)}
    BY DEF RecordPlace
  <1> HIDE DEF joined
  <1> QED
    BY <1>2, <1>3, <1>4

LEMMA ShiftedBalanced ==
    ASSUME NEW trs, NEW base, \A t \in Track : Balanced(trs[t]) /\ ~Open(trs[t])
    PROVE  /\ Shifted(trs, base) = [t \in Track |-> Shifted(trs, base)[t]]
           /\ \A t \in Track : /\ Balanced(Shifted(trs, base)[t])
                               /\ ~Open(Shifted(trs, base)[t])
  <1>1. ASSUME NEW t \in Track
        PROVE  /\ Balanced(Shifted(trs, base)[t])
               /\ ~Open(Shifted(trs, base)[t])
    <2> DEFINE s == trs[t].chunkOffsets
               m == [k \in DOMAIN s |-> s[k] + base]
    <2>1. Shifted(trs, base)[t] = [trs[t] EXCEPT !.chunkOffsets = m]
      BY DEF Shifted, Balanced, Fields
    <2>2. IsSeq(m) /\ Len(m) = Len(s)
      BY MapIsSeq DEF Balanced
    <2> HIDE DEF m
    <2> QED
      BY <2>1, <2>2 DEF Balanced, Open, Fields
  <1> QED
    BY <1>1 DEF Shifted

(***************************************************************************)
(* All tracks.                                                             *)
(***************************************************************************)
(* Before a packet only its own track can have an open chunk.              *)
LEMMA SwitchToBalanced ==
    ASSUME BooksInv, NEW t \in Track
    PROVE  /\ SwitchTo(t) = [u \in Track |-> SwitchTo(t)[u]]
           /\ \A u \in Track : /\ Balanced(SwitchTo(t)[u])
                               /\ Open(SwitchTo(t)[u]) => u = t
  <1>1. ASSUME NEW u \in Track
        PROVE  /\ Balanced(SwitchTo(t)[u])
               /\ Open(SwitchTo(t)[u]) => u = t
    <2>1. CASE u # t /\ u \in lastTrack
      BY <2>1, CloseChunkBalanced DEF BooksInv, SwitchTo
    <2>2. CASE ~(u # t /\ u \in lastTrack)
      <3>1. SwitchTo(t)[u] = track[u]
        BY <2>2 DEF SwitchTo
      <3>2. Open(track[u]) => u \in lastTrack
        BY DEF BooksInv
      <3> QED
        BY <2>2, <3>1, <3>2 DEF BooksInv
    <2> QED
      BY <2>1, <2>2
  <1> QED
    BY <1>1 DEF SwitchTo

(* A packet's track may leave its chunk open, the others have none.        *)
LEMMA BooksAfterPacket ==
    ASSUME BooksInv, NEW t \in Track, NEW tr, Balanced(tr),
           track' = [SwitchTo(t) EXCEPT ![t] = tr], lastTrack' = {t}
    PROVE  BooksInv'
  <1>1. \A u \in Track : track'[u] = IF u = t THEN tr ELSE SwitchTo(t)[u]
    BY SwitchToBalanced
  <1>2. track' = [u \in Track |-> track'[u]]
    BY SwitchToBalanced
  <1>3. \A u \in Track : Balanced(track'[u])
    BY <1>1, SwitchToBalanced
  <1>4. \A u \in Track : Open(track'[u]) => u = t
    BY <1>1, SwitchToBalanced
  <1>5. \A u \in Track : Balanced(track[u])'
    BY <1>3 DEF Balanced, Fields, IsSeq
  <1>6. \A u \in Track : Open(track[u])' => lastTrack' = {u}
    BY <1>4 DEF Open
  <1> QED
    BY <1>2, <1>5, <1>6 DEF BooksInv

(* With every chunk closed it does not matter which track came last.       *)
LEMMA BooksAfterTrailer ==
    ASSUME NEW trs, trs = [t \in Track |-> trs[t]],
           \A t \in Track : Balanced(trs[t]) /\ ~Open(trs[t]),
           track' = trs
    PROVE  BooksInv'
  <1>1. \A t \in Track : Balanced(track[t])' /\ ~Open(track[t])'
    BY DEF Balanced, Open, Fields, IsSeq
  <1> QED
    BY <1>1 DEF BooksInv

LEMMA ClosedBalanced ==
    ASSUME BooksInv
    PROVE  /\ Closed = [t \in Track |-> Closed[t]]
           /\ \A t \in Track : Balanced(Closed[t]) /\ ~Open(Closed[t])
  <1>1. ASSUME NEW t \in Track
        PROVE  Balanced(Closed[t]) /\ ~Open(Closed[t])
    BY CloseChunkBalanced DEF Closed, BooksInv
  <1> QED
    BY <1>1 DEF Closed

(* Whatever size the moov settles at, the plan only moves the offsets.     *)
LEMMA PlanShifts == \E base : FaststartPlan.tracks = Shifted(Closed, base)
  BY Zenon DEF FaststartPlan

LEMMA PlanBalanced ==
    ASSUME BooksInv
    PROVE  /\ FaststartPlan.tracks = [t \in Track |-> FaststartPlan.tracks[t]]
           /\ \A t \in Track : /\ Balanced(FaststartPlan.tracks[t])
                               /\ ~Open(FaststartPlan.tracks[t])
  <1>1. PICK base : FaststartPlan.tracks = Shifted(Closed, base)
    BY PlanShifts
  <1> DEFINE trs == Shifted(Closed, base)
  <1>2. /\ trs = [t \in Track |-> trs[t]]
        /\ \A t \in Track : Balanced(trs[t]) /\ ~Open(trs[t])
    BY ClosedBalanced, ShiftedBalanced
  <1> HIDE DEF trs
  <1> QED
    BY <1>1, <1>2 DEF trs

(***************************************************************************)
(* The calls.                                                              *)
(***************************************************************************)
LEMMA WritePacketBooks ==
    ASSUME BooksInv, NEW p \in Packets, WritePacket(p)
    PROVE  BooksInv'
  <1> DEFINE t == p.track
             tr == SwitchTo(t)[t]
             delta == ComputeDelta(tr, p)
             decoded == RecordDecoding(tr, p)
             placed == RecordPlace(decoded, p, mdatStartOffset + mdatBytes)
             new == RecordPresentation(placed, p, delta)
  <1>1. t \in Track
    BY ProgPacketsAssumption
  <1>2. Balanced(decoded)
    BY <1>1, SwitchToBalanced, RecordDecodingBalanced
  <1>3. Balanced(placed)
    BY <1>2, RecordPlaceBalanced
  <1>4. Balanced(new)
    BY <1>3, RecordPresentationBalanced
  <1>5. track' = [SwitchTo(t) EXCEPT ![t] = new] /\ lastTrack' = {t}
    BY DEF WritePacket
  <1> HIDE DEF t, new
  <1> QED
    BY <1>1, <1>4, <1>5, BooksAfterPacket

LEMMA PayloadFailsBooks ==
    ASSUME BooksInv, NEW p \in Packets, PayloadFails(p)
    PROVE  BooksInv'
  <1> DEFINE t == p.track
             tr == SwitchTo(t)[t]
  <1>1. t \in Track
    BY ProgPacketsAssumption
  <1>2. Balanced(tr)
    BY <1>1, SwitchToBalanced
  <1>3. [SwitchTo(t) EXCEPT ![t] = tr] = SwitchTo(t)
    BY <1>1 DEF SwitchTo
  <1>4. track' = SwitchTo(t) /\ lastTrack' = {t}
    BY DEF PayloadFails
  <1> HIDE DEF t, tr
  <1> QED
    BY <1>1, <1>2, <1>3, <1>4, BooksAfterPacket

LEMMA OffsetRefusedBooks ==
    ASSUME BooksInv, NEW p \in Packets, OffsetRefused(p)
    PROVE  BooksInv'
  <1> DEFINE t == p.track
             tr == RecordDecoding(SwitchTo(t)[t], p)
  <1>1. t \in Track
    BY ProgPacketsAssumption
  <1>2. Balanced(tr)
    BY <1>1, SwitchToBalanced, RecordDecodingBalanced
  <1>3. [SwitchTo(t) EXCEPT ![t] = RecordDecoding(@, p)] = [SwitchTo(t) EXCEPT ![t] = tr]
    OBVIOUS
  <1>4. track' = [SwitchTo(t) EXCEPT ![t] = tr] /\ lastTrack' = {t}
    BY <1>3 DEF OffsetRefused
  <1> HIDE DEF t, tr
  <1> QED
    BY <1>1, <1>2, <1>4, BooksAfterPacket

LEMMA WriteTrailerBooks ==
    ASSUME BooksInv, WriteTrailer
    PROVE  BooksInv'
  <1>1. track' = Closed \/ track' = FaststartPlan.tracks
    BY DEF WriteTrailer, TrailerDirect, TrailerRefused, PatchFails, MoovFails,
           TrailerFaststart, FaststartFails
  <1>2. CASE track' = Closed
    BY <1>2, ClosedBalanced, BooksAfterTrailer
  <1>3. CASE track' = FaststartPlan.tracks
    BY <1>3, PlanBalanced, BooksAfterTrailer
  <1> QED
    BY <1>1, <1>2, <1>3

LEMMA UnchangedBooks ==
    ASSUME BooksInv, track' = track, lastTrack' = lastTrack
    PROVE  BooksInv'
  BY DEF BooksInv, Balanced, Open, Fields, IsSeq

LEMMA BooksInit == Init => BooksInv
  <1> SUFFICES ASSUME Init PROVE BooksInv
    OBVIOUS
  <1>1. \A t \in Track : track[t] = NewTrack
    BY DEF Init
  <1>2. track = [t \in Track |-> track[t]]
    BY DEF Init
  <1> QED
    BY <1>1, <1>2, NewTrackBalanced DEF BooksInv

LEMMA BooksStep == BooksInv /\ [Next]_vars => BooksInv'
  <1> SUFFICES ASSUME BooksInv, [Next]_vars PROVE BooksInv'
    OBVIOUS
  <1>1. CASE WriteHeader
    BY <1>1, UnchangedBooks DEF WriteHeader
  <1>2. CASE HeaderFails
    BY <1>2, UnchangedBooks DEF HeaderFails
  <1>3. ASSUME NEW p \in Packets, WritePacket(p) PROVE BooksInv'
    BY <1>3, WritePacketBooks
  <1>4. ASSUME NEW p \in Packets, PayloadFails(p) PROVE BooksInv'
    BY <1>4, PayloadFailsBooks
  <1>5. ASSUME NEW p \in Packets, OffsetRefused(p) PROVE BooksInv'
    BY <1>5, OffsetRefusedBooks
  <1>6. CASE WriteTrailer
    BY <1>6, WriteTrailerBooks
  <1>7. CASE UNCHANGED vars
    BY <1>7, UnchangedBooks DEF vars
  <1> QED
    BY <1>1, <1>2, <1>3, <1>4, <1>5, <1>6, <1>7 DEF Next

LEMMA BooksImply == BooksInv => ChunkBooks
  BY DEF BooksInv, Balanced, Open, ChunkBooks

(* The chunk books balance after every call, whether it succeeds or fails  *)
(* and at whatever write: only the track written last may have a chunk     *)
(* open, and every chunk has one offset (Mp4Muxer::write_packet,           *)
(* close_current_chunk and write_trailer).                                 *)
THEOREM ChunkBooksAlways == Spec => []ChunkBooks
  <1> QED
    BY BooksInit, BooksStep, BooksImply, PTL DEF Spec

(***************************************************************************)
(* Types.  A track's last timestamps are options, so that the distance to  *)
(* the packet before is one number, and positive when the code takes it.   *)
(***************************************************************************)
IsOption(o) == \A u, v \in o : u = v
Timed(tr) == tr \in TrackState /\ IsOption(tr.prevPts) /\ IsOption(tr.prevDts)
Sized(q) == \E S : q \in Seq(S) /\ \A k \in 1..Len(q) : q[k].size \in Nat

ProgInv ==
    /\ ProgTypeOK
    /\ \A t \in Track : Timed(track[t])
    /\ \A q \in mdatBuffer : Sized(q)

LEMMA PieceSeq ==
    ASSUME NEW q, Sized(q)
    PROVE  Bytes(q) \in Nat
  <1>1. PICK S : q \in Seq(S) /\ \A k \in 1..Len(q) : q[k].size \in Nat
    BY DEF Sized
  <1> DEFINE g == [k \in DOMAIN q |-> q[k].size]
  <1>2. DOMAIN q = 1..Len(q) /\ Len(q) \in Nat
    BY <1>1
  <1>3. g \in [1..Len(q) -> Nat]
    BY <1>1, <1>2
  <1>4. Bytes(q) = Total(g)
    BY DEF Bytes, SumOf
  <1> HIDE DEF g
  <1>5. g \in Seq(Nat)
    BY <1>2, <1>3
  <1> QED
    BY <1>4, <1>5, TotalNat

LEMMA SizedEmpty == Sized(<<>>)
  <1>1. <<>> \in Seq({}) /\ Len(<<>>) = 0
    OBVIOUS
  <1>2. \A k \in 1..Len(<<>>) : <<>>[k].size \in Nat
    BY <1>1
  <1> QED
    BY <1>1, <1>2 DEF Sized

LEMMA SizedAppend ==
    ASSUME NEW q, Sized(q), NEW x, x.size \in Nat
    PROVE  Sized(Append(q, x))
  <1>1. PICK S : q \in Seq(S) /\ \A k \in 1..Len(q) : q[k].size \in Nat
    BY DEF Sized
  <1> DEFINE T == S \cup {x}
             r == Append(q, x)
  <1>2. q \in Seq(T) /\ x \in T
    BY <1>1
  <1>3. r \in Seq(T) /\ Len(r) = Len(q) + 1 /\ Len(q) \in Nat
        /\ r[Len(q) + 1] = x /\ \A k \in 1..Len(q) : r[k] = q[k]
    BY <1>2
  <1> HIDE DEF T, r
  <1>4. \A k \in 1..Len(r) : k \in 1..Len(q) \/ k = Len(q) + 1
    BY <1>3
  <1>5. \A k \in 1..Len(r) : r[k].size \in Nat
    BY <1>1, <1>3, <1>4
  <1>6. Sized(r)
    BY <1>3, <1>5 DEF Sized
  <1> QED
    BY <1>6 DEF r

LEMMA SizedConcat ==
    ASSUME NEW p, Sized(p), NEW q, Sized(q)
    PROVE  Sized(p \o q)
  <1>1. PICK S : p \in Seq(S) /\ \A k \in 1..Len(p) : p[k].size \in Nat
    BY DEF Sized
  <1>2. PICK T : q \in Seq(T) /\ \A k \in 1..Len(q) : q[k].size \in Nat
    BY DEF Sized
  <1> DEFINE U == S \cup T
             r == p \o q
  <1>3. p \in Seq(U) /\ q \in Seq(U)
    BY <1>1, <1>2
  <1>4. /\ r \in Seq(U) /\ Len(r) = Len(p) + Len(q)
        /\ Len(p) \in Nat /\ Len(q) \in Nat
        /\ \A k \in 1..Len(r) : r[k] = IF k <= Len(p) THEN p[k] ELSE q[k - Len(p)]
    BY <1>3
  <1> HIDE DEF U, r
  <1>5. \A k \in 1..Len(r) : (k <= Len(p) => k \in 1..Len(p))
                             /\ (~(k <= Len(p)) => k - Len(p) \in 1..Len(q))
    BY <1>4
  <1>6. \A k \in 1..Len(r) : r[k].size \in Nat
    BY <1>1, <1>2, <1>4, <1>5
  <1>7. Sized(r)
    BY <1>4, <1>6 DEF Sized
  <1> QED
    BY <1>7 DEF r

LEMMA SizedPrefix ==
    ASSUME NEW q, Sized(q), NEW n \in 0..Len(q)
    PROVE  Sized(SubSeq(q, 1, n))
  <1>1. PICK S : q \in Seq(S) /\ \A k \in 1..Len(q) : q[k].size \in Nat
    BY DEF Sized
  <1> DEFINE r == SubSeq(q, 1, n)
  <1>2. r \in Seq(S) /\ Len(r) = n /\ \A k \in 1..n : r[k] = q[k]
    BY <1>1, PrefixIs
  <1> HIDE DEF r
  <1>3. n \in Nat /\ n <= Len(q) /\ Len(q) \in Nat
    BY <1>1
  <1>4. \A k \in 1..Len(r) : r[k].size \in Nat
    BY <1>1, <1>2, <1>3
  <1>5. Sized(r)
    BY <1>2, <1>4 DEF Sized
  <1> QED
    BY <1>5 DEF r

(* What a call that fails has written. *)
LEMMA SizedCut ==
    ASSUME NEW q, Sized(q), NEW c \in Cuts(q)
    PROVE  Sized(Cut(q, c))
  <1>1. PICK k \in 0..(Len(q) - 1), n \in {0, 1} : c = [kept |-> k, torn |-> n]
    BY DEF Cuts
  <1>2. c.kept = k /\ Len(q) \in Nat
    BY <1>1 DEF Sized
  <1>3. k \in 0..Len(q)
    BY <1>1, <1>2
  <1> DEFINE p == SubSeq(q, 1, k)
             one == <<Piece(1, [kind |-> "torn"])>>
             none == <<>>
  <1>4. Sized(p)
    BY <1>3, SizedPrefix
  <1>5. Sized(none)
    BY SizedEmpty
  <1>6. Sized(one)
    <2> DEFINE x == Piece(1, [kind |-> "torn"])
    <2>1. x.size \in Nat
      BY DEF Piece
    <2>2. one = Append(none, x)
      OBVIOUS
    <2> HIDE DEF x, one, none
    <2> QED
      BY <1>5, <2>1, <2>2, SizedAppend
  <1>7. Cut(q, c) = p \o none \/ Cut(q, c) = p \o one
    BY <1>2 DEF Cut
  <1> HIDE DEF p, one, none
  <1> QED
    BY <1>4, <1>5, <1>6, <1>7, SizedConcat

LEMMA SizedOne ==
    ASSUME NEW x, x.size \in Nat
    PROVE  Sized(<<x>>)
  <1>1. <<x>> = Append(<<>>, x)
    OBVIOUS
  <1> QED
    BY <1>1, SizedEmpty, SizedAppend

LEMMA SizedHeader == Sized(Header)
  <1> DEFINE m == MdatHeader(opts.large, 0)
  <1>1. Ftyp.size \in Nat
    BY ProgSizesAssumption DEF Ftyp, Piece
  <1>2. m.size \in Nat
    BY DEF MdatHeader, Piece, HeaderBytes
  <1>3. <<Ftyp, m>> = Append(<<Ftyp>>, m)
    OBVIOUS
  <1> HIDE DEF m
  <1>4. Sized(<<Ftyp>>)
    BY <1>1, SizedOne
  <1>5. Sized(<<Ftyp, m>>)
    BY <1>2, <1>3, <1>4, SizedAppend
  <1> QED
    BY <1>4, <1>5 DEF Header, m

(***************************************************************************)
(* The packet and its times.                                               *)
(***************************************************************************)
LEMMA TimeInt ==
    ASSUME NEW v \in Int, NEW num \in Nat, NEW den \in Nat, NEW scale \in Nat
    PROVE  Rescale(v, num, den, scale) \in Int
  <1>1. \A a \in Int, d \in Nat : d # 0 => a \div d \in Int
    OBVIOUS
  <1>2. \A a, b \in Int : a * b \in Int
    OBVIOUS
  <1>3. v * num * scale \in Int /\ -v * num * scale \in Int
    BY <1>2
  <1>4. den # 0 => /\ (v * num * scale) \div den \in Int
                   /\ -((-v * num * scale) \div den) \in Int
    BY <1>1, <1>3
  <1> QED
    BY <1>4 DEF Rescale

LEMMA OptionsFields ==
    ASSUME NEW o \in Options
    PROVE  /\ o.large \in BOOLEAN /\ o.faststart \in BOOLEAN
           /\ \A t \in Track : o.scale[t] \in Nat
  BY ProgOptionsAssumption

LEMMA PacketIs ==
    ASSUME NEW p \in Packets, opts \in Options
    PROVE  /\ p.track \in Track /\ p.size \in Nat /\ p.key \in BOOLEAN
           /\ \A v \in Int : MediaTs(p, v) \in Int
           /\ p.duration \in SUBSET Int
           /\ PtsOf(p) \in SUBSET Int /\ DtsOf(p) \in SUBSET Int
           /\ IsOption(p.duration) /\ IsOption(PtsOf(p)) /\ IsOption(DtsOf(p))
  <1>1. /\ p.track \in Track /\ p.size \in Nat /\ p.key \in BOOLEAN
        /\ p.num \in Nat /\ p.den \in Nat
        /\ p.pts \in SUBSET Int /\ p.dts \in SUBSET Int /\ p.duration \in SUBSET Int
    BY ProgPacketsAssumption
  <1>2. opts.scale[p.track] \in Nat
    BY <1>1, OptionsFields
  <1>3. \A v \in Int : MediaTs(p, v) \in Int
    BY <1>1, <1>2, TimeInt DEF MediaTs
  <1>4. /\ \A u, v \in p.pts : u = v
        /\ \A u, v \in p.dts : u = v
        /\ \A u, v \in p.duration : u = v
    BY ProgTimesAssumption
  <1>5. IsOption(p.duration) /\ IsOption(PtsOf(p)) /\ IsOption(DtsOf(p))
    BY <1>4 DEF IsOption, PtsOf, DtsOf
  <1>6. PtsOf(p) \in SUBSET Int /\ DtsOf(p) \in SUBSET Int
    BY <1>1, <1>3 DEF PtsOf, DtsOf
  <1> QED
    BY <1>1, <1>3, <1>5, <1>6

LEMMA ValueInt ==
    ASSUME NEW o \in SUBSET Int, NEW d \in Int
    PROVE  ValueOf(o, d) \in Int
  BY DEF ValueOf

(* A positive option has a positive value. *)
LEMMA ValuePositive ==
    ASSUME NEW o \in SUBSET Int, IsOption(o), \E d \in o : d > 0
    PROVE  ValueOf(o, 1) \in Nat /\ ValueOf(o, 1) >= 1
  <1>1. PICK d \in o : d > 0
    OBVIOUS
  <1>2. ValueOf(o, 1) \in o
    BY <1>1 DEF ValueOf
  <1>3. ValueOf(o, 1) = d
    BY <1>1, <1>2 DEF IsOption
  <1> QED
    BY <1>1, <1>3

LEMMA DeltaPositive ==
    ASSUME NEW p \in Packets, opts \in Options, NEW tr, Timed(tr)
    PROVE  ComputeDelta(tr, p) \in Nat /\ ComputeDelta(tr, p) >= 1
  <1> DEFINE own == {MediaTs(p, d) : d \in p.duration \ {0}}
             byDts == {n - b : n \in DtsOf(p), b \in tr.prevDts}
             since == {n - b : n \in PtsOf(p), b \in tr.prevPts}
             byPts == IF p.dts = {} THEN since ELSE {}
             positive(o) == \E d \in o : d > 0
  <1>1. ComputeDelta(tr, p) = IF positive(own) THEN ValueOf(own, 1)
                              ELSE IF positive(byDts) THEN ValueOf(byDts, 1)
                              ELSE IF positive(byPts) THEN ValueOf(byPts, 1)
                              ELSE 1
    BY DEF ComputeDelta
  <1>2. tr.prevDts \in SUBSET Int /\ tr.prevPts \in SUBSET Int
        /\ IsOption(tr.prevPts) /\ IsOption(tr.prevDts)
    BY DEF Timed, TrackState
  <1>3. own \in SUBSET Int /\ IsOption(own)
    BY PacketIs DEF IsOption
  <1>4. byDts \in SUBSET Int /\ IsOption(byDts)
    <2>1. DtsOf(p) \in SUBSET Int /\ IsOption(DtsOf(p))
      BY PacketIs
    <2> QED
      BY <1>2, <2>1 DEF IsOption
  <1>5. since \in SUBSET Int /\ IsOption(since)
    <2>1. PtsOf(p) \in SUBSET Int /\ IsOption(PtsOf(p))
      BY PacketIs
    <2> QED
      BY <1>2, <2>1 DEF IsOption
  <1>6. byPts \in SUBSET Int /\ IsOption(byPts)
    BY <1>5 DEF IsOption
  <1> HIDE DEF own, byDts, byPts
  <1>7. \A o \in {own, byDts, byPts} :
          positive(o) => ValueOf(o, 1) \in Nat /\ ValueOf(o, 1) >= 1
    BY <1>3, <1>4, <1>6, ValuePositive
  <1> QED
    BY <1>1, <1>7

(***************************************************************************)
(* One track.                                                              *)
(***************************************************************************)
LEMMA NewTrackTimed == Timed(NewTrack)
  <1>1. \A S : <<>> \in Seq(S)
    OBVIOUS
  <1> QED
    BY <1>1 DEF Timed, TrackState, NewTrack, IsOption

LEMMA PushRunTyped ==
    ASSUME NEW runs \in Seq(Run), NEW v \in Int
    PROVE  PushRun(runs, v) \in Seq(Run)
  <1>1. CASE runs # <<>> /\ Last(runs).value = v
    <2> DEFINE n == Len(runs)
    <2>1. n \in 1..Len(runs) /\ runs[n] \in Run
      BY <1>1
    <2> DEFINE r == [runs[n] EXCEPT !.count = @ + 1]
    <2>2. r \in Run
      BY <2>1 DEF Run
    <2>3. PushRun(runs, v) = [runs EXCEPT ![n] = r]
      BY <1>1 DEF PushRun
    <2> HIDE DEF n, r
    <2> QED
      BY <2>1, <2>2, <2>3
  <1>2. CASE ~(runs # <<>> /\ Last(runs).value = v)
    <2>1. [count |-> 1, value |-> v] \in Run
      BY DEF Run
    <2> QED
      BY <1>2, <2>1 DEF PushRun
  <1> QED
    BY <1>1, <1>2

LEMMA CloseChunkTimed ==
    ASSUME NEW tr, Timed(tr)
    PROVE  Timed(CloseChunk(tr))
  <1>1. tr.chunkCount \in Nat /\ tr.currentChunkSamples \in Nat /\ tr.stsc \in Seq(ChunkRun)
    BY DEF Timed, TrackState
  <1>2. CASE tr.currentChunkSamples = 0
    BY <1>2 DEF CloseChunk
  <1>3. CASE tr.currentChunkSamples # 0
    <2> DEFINE x == [first |-> tr.chunkCount + 1, perChunk |-> tr.currentChunkSamples]
               q == IF tr.currentChunkSamples = tr.lastSamplesPerChunk THEN tr.stsc
                    ELSE Append(tr.stsc, x)
               n == tr.chunkCount + 1
               m == tr.currentChunkSamples
    <2>1. x \in ChunkRun
      BY <1>1, <1>3 DEF ChunkRun
    <2>2. q \in Seq(ChunkRun) /\ n \in Nat /\ m \in Nat
      BY <1>1, <2>1
    <2> DEFINE counted == [tr EXCEPT !.chunkCount = n, !.stsc = q]
    <2> DEFINE z == 0
               last == [counted EXCEPT !.lastSamplesPerChunk = m]
    <2>3. CloseChunk(tr) = [last EXCEPT !.currentChunkSamples = z]
      BY <1>3 DEF CloseChunk, Timed, TrackState
    <2>4. z \in Nat
      OBVIOUS
    <2> HIDE DEF x, q, n, m, z
    <2>5. Timed(counted)
      BY <2>2 DEF Timed, TrackState
    <2> HIDE DEF counted
    <2>6. Timed(last)
      BY <2>2, <2>5 DEF Timed, TrackState
    <2> HIDE DEF last
    <2> QED
      BY <2>3, <2>4, <2>6 DEF Timed, TrackState
  <1> QED
    BY <1>2, <1>3

LEMMA JoinChunkTimed ==
    ASSUME NEW tr, Timed(tr), NEW offset \in Nat
    PROVE  Timed(JoinChunk(tr, offset))
  <1> DEFINE q == IF tr.currentChunkSamples = 0 THEN Append(tr.chunkOffsets, offset)
                                                ELSE tr.chunkOffsets
             n == tr.currentChunkSamples + 1
  <1>1. q \in Seq(Nat) /\ n \in Nat
    BY DEF Timed, TrackState
  <1>2. JoinChunk(tr, offset) = [tr EXCEPT !.chunkOffsets = q, !.currentChunkSamples = n]
    BY DEF JoinChunk, Timed, TrackState
  <1> HIDE DEF q, n
  <1> QED
    BY <1>1, <1>2 DEF Timed, TrackState

LEMMA RecordDecodingTimed ==
    ASSUME NEW p \in Packets, opts \in Options, NEW tr, Timed(tr)
    PROVE  Timed(RecordDecoding(tr, p))
  <1> DEFINE delta == ComputeDelta(tr, p)
             sizes == Append(tr.sampleSizes, p.size)
             runs == PushRun(tr.stts, delta)
             first == IF Some(p.dts) /\ tr.nextSampleIndex = 0 THEN DtsOf(p) ELSE tr.firstDts
             prev == IF Some(p.dts) THEN DtsOf(p) ELSE tr.prevDts
             sum == tr.cumulativeDuration + delta
  <1>1. delta \in Nat /\ sum \in Nat
    <2>1. delta \in Nat
      BY DeltaPositive
    <2>2. tr.cumulativeDuration \in Nat
      BY DEF Timed, TrackState
    <2> HIDE DEF delta
    <2> QED
      BY <2>1, <2>2
  <1> HIDE DEF delta
  <1>2. sizes \in Seq(Nat) /\ runs \in Seq(Run)
    BY <1>1, PacketIs, PushRunTyped DEF Timed, TrackState
  <1>3. first \in SUBSET Int /\ prev \in SUBSET Int /\ IsOption(prev)
    BY PacketIs DEF Timed, TrackState
  <1>4. RecordDecoding(tr, p) =
          [tr EXCEPT !.sampleSizes = sizes, !.stts = runs,
             !.cumulativeDuration = sum, !.firstDts = first, !.prevDts = prev]
    BY DEF RecordDecoding, Timed, TrackState, delta
  <1> HIDE DEF sizes, runs, first, prev, sum
  <1> QED
    BY <1>1, <1>2, <1>3, <1>4, ZenonT(60), SMTT(30) DEF Timed, TrackState

LEMMA RecordPlaceTimed ==
    ASSUME NEW p \in Packets, opts \in Options, NEW tr, Timed(tr), NEW offset \in Nat
    PROVE  Timed(RecordPlace(tr, p, offset))
  <1> DEFINE runs == PushRun(tr.ctts, CompositionOffset(p))
             keys == IF p.key THEN Append(tr.keyframes, tr.nextSampleIndex + 1)
                              ELSE tr.keyframes
             noted == [tr EXCEPT !.ctts = runs, !.keyframes = keys]
             joined == JoinChunk(noted, offset)
  <1>1. CompositionOffset(p) \in Int
    BY PacketIs, ValueInt DEF CompositionOffset
  <1>2. runs \in Seq(Run)
    BY <1>1, PushRunTyped DEF Timed, TrackState
  <1>3. keys \in Seq(Nat \ {0})
    <2>1. tr.keyframes \in Seq(Nat \ {0}) /\ tr.nextSampleIndex \in Nat
      BY DEF Timed, TrackState
    <2>2. tr.nextSampleIndex + 1 \in Nat \ {0}
      BY <2>1
    <2> QED
      BY <2>1, <2>2
  <1>4. RecordPlace(tr, p, offset) \in {joined, CloseChunk(joined)}
    BY DEF RecordPlace, Timed, TrackState
  <1> HIDE DEF runs, keys
  <1>5. Timed(noted)
    BY <1>2, <1>3 DEF Timed, TrackState
  <1> HIDE DEF noted
  <1>6. Timed(joined)
    BY <1>5, JoinChunkTimed
  <1> HIDE DEF joined
  <1> QED
    BY <1>4, <1>6, CloseChunkTimed

LEMMA MaxOfTwo ==
    ASSUME NEW a \in Int, NEW b \in Int
    PROVE  Max({a, b}) \in Int
  <1>1. \E x \in {a, b} : \A y \in {a, b} : x >= y
    OBVIOUS
  <1> QED
    BY <1>1 DEF Max

LEMMA RecordPresentationTimed ==
    ASSUME NEW p \in Packets, opts \in Options, NEW tr, Timed(tr), NEW delta \in Int
    PROVE  Timed(RecordPresentation(tr, p, delta))
  <1> DEFINE pts == ValueOf(PtsOf(p), 0)
             end == pts + delta
             first == ValueOf(tr.firstPts, pts)
             zero == ValueOf(tr.firstPts, 0)
             next == ValueOf(tr.prevPts, 0) + delta
             last == Max({ValueOf(tr.presentationEnd, end), end})
             n == tr.nextSampleIndex + 1
  <1>1. /\ tr.firstPts \in SUBSET Int /\ tr.prevPts \in SUBSET Int
        /\ tr.presentationEnd \in SUBSET Int /\ n \in Nat
    BY DEF Timed, TrackState
  <1>2. pts \in Int /\ end \in Int
    BY PacketIs, ValueInt
  <1>3. first \in Int /\ zero \in Int /\ next \in Int /\ ValueOf(tr.presentationEnd, end) \in Int
    BY <1>1, <1>2, ValueInt
  <1>4. last \in Int
    BY <1>2, <1>3, MaxOfTwo
  <1>5. RecordPresentation(tr, p, delta)
          \in {[tr EXCEPT !.firstPts = {first}, !.prevPts = {pts},
                          !.presentationEnd = {last}, !.nextSampleIndex = n],
               [tr EXCEPT !.prevPts = {next}, !.firstPts = {zero}, !.nextSampleIndex = n]}
    BY DEF RecordPresentation, Timed, TrackState
  <1> HIDE DEF pts, first, zero, next, last, n
  <1>6. Timed([tr EXCEPT !.firstPts = {first}, !.prevPts = {pts},
                         !.presentationEnd = {last}, !.nextSampleIndex = n])
    BY <1>1, <1>2, <1>3, <1>4 DEF Timed, TrackState, IsOption
  <1>7. Timed([tr EXCEPT !.prevPts = {next}, !.firstPts = {zero}, !.nextSampleIndex = n])
    BY <1>1, <1>3 DEF Timed, TrackState, IsOption
  <1> QED
    BY <1>5, <1>6, <1>7

LEMMA ShiftedTimed ==
    ASSUME NEW trs, \A t \in Track : Timed(trs[t]), NEW base \in Nat
    PROVE  \A t \in Track : Timed(Shifted(trs, base)[t])
  <1> SUFFICES ASSUME NEW t \in Track PROVE Timed(Shifted(trs, base)[t])
    OBVIOUS
  <1> DEFINE s == trs[t].chunkOffsets
             m == [k \in DOMAIN s |-> s[k] + base]
  <1>1. s \in Seq(Nat)
    BY DEF Timed, TrackState
  <1>2. m \in [1..Len(s) -> Nat] /\ Len(s) \in Nat
    BY <1>1
  <1>3. Shifted(trs, base)[t] = [trs[t] EXCEPT !.chunkOffsets = m]
    BY DEF Shifted, Timed, TrackState
  <1> HIDE DEF m
  <1>4. m \in Seq(Nat)
    BY <1>2
  <1> QED
    BY <1>3, <1>4, ZenonT(60), SMTT(30) DEF Timed, TrackState

(***************************************************************************)
(* The moov and the rounds of the faststart loop.  What one round makes of *)
(* the size of the round before is Grown; the tracks whose offsets need 64 *)
(* bits are Promoted.                                                      *)
(***************************************************************************)
OffsetBytes(trs) ==
    [t \in Track |-> ChunkOffsetBytes(trs[t].chunkOffsets, U32Max)]
Wide ==
    LET payload == ValueOf(mdatBuffer, <<>>)
    IN  opts.large \/ 8 + Bytes(payload) > U32Max
Base(n) == PayloadStart(n, Wide)
Grown(n) == MoovSize(Shifted(Closed, Base(n)))
IsRounds(s, n) == s = [k \in 0..n |-> IF k = 0 THEN 0 ELSE Grown(s[k - 1])]
Sizes == CHOOSE s : s = [k \in 0..Rounds |-> IF k = 0 THEN 0 ELSE Grown(s[k - 1])]
Settled == {k \in 1..Rounds : Sizes[k] = Sizes[k - 1]}
LastRound == IF Settled = {} THEN Rounds ELSE Min(Settled)

LEMMA OffsetBytesNat ==
    ASSUME NEW trs, \A t \in Track : Timed(trs[t])
    PROVE  OffsetBytes(trs) \in Seq(Nat) /\ Len(OffsetBytes(trs)) = NumTracks
  <1>1. ASSUME NEW t \in Track
        PROVE  ChunkOffsetBytes(trs[t].chunkOffsets, U32Max) \in Nat
    <2> DEFINE s == trs[t].chunkOffsets
    <2>1. Len(s) \in Nat
      BY DEF Timed, TrackState
    <2> DEFINE n == Len(s)
               each == IF \E k \in DOMAIN s : s[k] > U32Max THEN 8 ELSE 4
    <2>2. ChunkOffsetBytes(s, U32Max) = 16 + n * each
      BY DEF ChunkOffsetBytes
    <2>3. each \in {4, 8}
      OBVIOUS
    <2> HIDE DEF n, each
    <2>4. n \in Nat
      BY <2>1 DEF n
    <2>5. n * 4 \in Nat /\ n * 8 \in Nat
      BY <2>4
    <2> QED
      BY <2>2, <2>3, <2>5
  <1>2. NumTracks \in Nat
    BY ProgTracksAssumption
  <1> DEFINE g == OffsetBytes(trs)
  <1>3. g \in [1..NumTracks -> Nat]
    BY <1>1 DEF OffsetBytes, Track
  <1> HIDE DEF g
  <1>4. g \in Seq(Nat) /\ Len(g) = NumTracks
    BY <1>2, <1>3
  <1> QED
    BY <1>4 DEF g

LEMMA MoovSizeIs ==
    ASSUME NEW trs, trs = [t \in Track |-> trs[t]]
    PROVE  MoovSize(trs) = MoovFixed + Total(OffsetBytes(trs))
  <1>1. DOMAIN trs = Track
    OBVIOUS
  <1>2. [t \in DOMAIN trs |-> ChunkOffsetBytes(trs[t].chunkOffsets, U32Max)]
          = OffsetBytes(trs)
    BY <1>1 DEF OffsetBytes
  <1> QED
    BY <1>2 DEF MoovSize, SumOf

LEMMA MoovSizeNat ==
    ASSUME NEW trs, trs = [t \in Track |-> trs[t]], \A t \in Track : Timed(trs[t])
    PROVE  MoovSize(trs) \in Nat
  <1> DEFINE g == OffsetBytes(trs)
  <1>1. g \in Seq(Nat)
    BY OffsetBytesNat
  <1> HIDE DEF g
  <1>2. Total(g) \in Nat
    BY <1>1, TotalNat
  <1>3. MoovSize(trs) = MoovFixed + Total(g)
    BY MoovSizeIs DEF g
  <1> QED
    BY <1>2, <1>3, ProgSizesAssumption

LEMMA ClosedTimed ==
    ASSUME \A t \in Track : Timed(track[t])
    PROVE  Closed = [t \in Track |-> Closed[t]] /\ \A t \in Track : Timed(Closed[t])
  BY CloseChunkTimed DEF Closed

LEMMA BaseNat ==
    ASSUME NEW n \in Nat
    PROVE  Base(n) \in Nat /\ \A m \in Nat : n <= m => Base(n) <= Base(m)
  BY ProgSizesAssumption DEF Base, PayloadStart, HeaderBytes

LEMMA GrownNat ==
    ASSUME \A t \in Track : Timed(track[t]), NEW n \in Nat
    PROVE  Grown(n) \in Nat
  <1> DEFINE base == Base(n)
             trs == Shifted(Closed, base)
  <1>1. base \in Nat
    BY BaseNat
  <1> HIDE DEF base
  <1>2. \A t \in Track : Timed(trs[t])
    BY <1>1, ClosedTimed, ShiftedTimed
  <1>3. trs = [t \in Track |-> trs[t]]
    BY DEF Shifted
  <1> HIDE DEF trs
  <1>4. MoovSize(trs) \in Nat
    BY <1>2, <1>3, MoovSizeNat
  <1> QED
    BY <1>4 DEF Grown, trs, base

LEMMA RoundsExist == \A n \in Nat : \E s : IsRounds(s, n)
  <1> DEFINE T == {n \in Nat : \E s : IsRounds(s, n)}
  <1>1. 0 \in T
    <2> DEFINE s == [k \in 0..0 |-> 0]
    <2>1. s = [k \in 0..0 |-> IF k = 0 THEN 0 ELSE Grown(s[k - 1])]
      OBVIOUS
    <2> HIDE DEF s
    <2>2. IsRounds(s, 0)
      BY <2>1 DEF IsRounds
    <2> QED
      BY <2>2
  <1>2. ASSUME NEW n \in Nat, n \in T PROVE n + 1 \in T
    <2>1. PICK r : IsRounds(r, n)
      BY <1>2
    <2> DEFINE g(k) == IF k = 0 THEN 0 ELSE Grown(r[k - 1])
               s == [k \in 0..(n + 1) |-> g(k)]
    <2>2. r = [k \in 0..n |-> g(k)]
      BY <2>1 DEF IsRounds
    <2>3. \A k \in 0..n : r[k] = g(k)
      BY <2>2
    <2>4. \A k \in 0..(n + 1) : k # 0 => k - 1 \in 0..n /\ k - 1 \in 0..(n + 1)
      OBVIOUS
    <2>5. \A k \in 0..(n + 1) : s[k] = g(k)
      OBVIOUS
    <2>6. \A k \in 0..(n + 1) : k # 0 => s[k - 1] = r[k - 1]
      BY <2>3, <2>4, <2>5
    <2>7. s = [k \in 0..(n + 1) |-> IF k = 0 THEN 0 ELSE Grown(s[k - 1])]
      BY <2>6
    <2> HIDE DEF s
    <2>8. IsRounds(s, n + 1)
      BY <2>7 DEF IsRounds
    <2> QED
      BY <2>8
  <1> HIDE DEF T
  <1>3. Nat \subseteq T
    BY <1>1, <1>2, NumberInduction
  <1> QED
    BY <1>3 DEF T

LEMMA SizesAre ==
    ASSUME \A t \in Track : Timed(track[t])
    PROVE  /\ Sizes[0] = 0
           /\ \A k \in 1..Rounds : Sizes[k] = Grown(Sizes[k - 1])
           /\ \A k \in 0..Rounds : Sizes[k] \in Nat
  <1>1. Rounds \in Nat
    BY ProgSizesAssumption DEF Rounds
  <1>2. \E s : s = [k \in 0..Rounds |-> IF k = 0 THEN 0 ELSE Grown(s[k - 1])]
    BY <1>1, RoundsExist DEF IsRounds
  <1>3. Sizes = [k \in 0..Rounds |-> IF k = 0 THEN 0 ELSE Grown(Sizes[k - 1])]
    BY <1>2, Zenon DEF Sizes
  <1>4. /\ Sizes[0] = 0
        /\ \A k \in 1..Rounds : Sizes[k] = Grown(Sizes[k - 1])
    BY <1>1, <1>3
  <1> DEFINE T == {n \in Nat : n \in 0..Rounds => Sizes[n] \in Nat}
  <1>5. 0 \in T
    BY <1>4
  <1>6. ASSUME NEW n \in Nat, n \in T PROVE n + 1 \in T
    <2> SUFFICES ASSUME n + 1 \in 0..Rounds PROVE Sizes[n + 1] \in Nat
      OBVIOUS
    <2>1. n \in 0..Rounds /\ n + 1 \in 1..Rounds /\ (n + 1) - 1 = n
      BY <1>1
    <2>2. Sizes[n] \in Nat
      BY <1>6, <2>1
    <2>3. Sizes[n + 1] = Grown(Sizes[n])
      BY <1>4, <2>1
    <2> QED
      BY <2>2, <2>3, GrownNat
  <1> HIDE DEF T
  <1>7. Nat \subseteq T
    BY <1>5, <1>6, NumberInduction
  <1>8. \A k \in 0..Rounds : Sizes[k] \in Nat
    BY <1>1, <1>7 DEF T
  <1> QED
    BY <1>4, <1>8

LEMMA LastRoundIs == LastRound \in 1..Rounds
  <1>1. Rounds \in Nat /\ Rounds >= 1
    BY ProgSizesAssumption DEF Rounds
  <1>2. CASE Settled = {}
    BY <1>1, <1>2 DEF LastRound
  <1>3. CASE Settled # {}
    <2>1. Settled \in SUBSET Nat
      BY <1>1 DEF Settled
    <2>2. \E m \in Settled : \A k \in Settled : m <= k
      BY <1>3, <2>1, LeastNumber
    <2>3. Min(Settled) \in Settled
      BY <2>2 DEF Min
    <2> QED
      BY <1>3, <2>3 DEF LastRound, Settled
  <1> QED
    BY <1>2, <1>3

(* The loop of the model is this sequence of sizes. *)
LEMMA PlanIs ==
    /\ FaststartPlan.converged = (Settled # {})
    /\ FaststartPlan.tracks = Shifted(Closed, Base(Sizes[LastRound - 1]))
    /\ FaststartPlan.pieces =
         <<Moov(FaststartPlan.tracks),
           MdatHeader(Wide, HeaderBytes(Wide) + Bytes(ValueOf(mdatBuffer, <<>>)))>>
           \o ValueOf(mdatBuffer, <<>>)
  <1> DEFINE tracks == Shifted(Closed, Base(Sizes[LastRound - 1]))
             payload == ValueOf(mdatBuffer, <<>>)
             pieces == <<Moov(tracks),
                         MdatHeader(Wide, HeaderBytes(Wide) + Bytes(payload))>> \o payload
  <1>1. FaststartPlan = [converged |-> Settled # {}, tracks |-> tracks, pieces |-> pieces]
    BY DEF FaststartPlan, Settled, LastRound, Sizes, Base, Wide, Grown
  <1> HIDE DEF tracks, pieces
  <1> QED
    BY <1>1 DEF tracks, pieces

(***************************************************************************)
(* The calls.                                                              *)
(***************************************************************************)
LEMMA InvNext ==
    ASSUME ProgInv, UNCHANGED opts,
           headerWritten' \in BOOLEAN, trailerWritten' \in BOOLEAN,
           track' = [t \in Track |-> track'[t]], \A t \in Track : Timed(track'[t]),
           lastTrack' \in SUBSET Track,
           mdatSizeOffset' \in Nat, mdatStartOffset' \in Nat, mdatBytes' \in Nat,
           position' \in Nat, calls' \in Nat, faults' \in Nat,
           \A q \in mdatBuffer' : Sized(q)
    PROVE  ProgInv'
  <1>1. track' \in [Track -> TrackState]
    <2>1. \A t \in Track : track'[t] \in TrackState
      BY DEF Timed
    <2> QED
      BY <2>1
  <1>2. ProgTypeOK'
    BY <1>1 DEF ProgInv, ProgTypeOK
  <1>3. (\A t \in Track : Timed(track[t]))'
    BY DEF Timed, IsOption
  <1>4. (\A q \in mdatBuffer : Sized(q))'
    BY DEF Sized
  <1> QED
    BY <1>2, <1>3, <1>4 DEF ProgInv

LEMMA SwitchToTimed ==
    ASSUME ProgInv, NEW t
    PROVE  /\ SwitchTo(t) = [u \in Track |-> SwitchTo(t)[u]]
           /\ \A u \in Track : Timed(SwitchTo(t)[u])
  BY CloseChunkTimed DEF SwitchTo, ProgInv

LEMMA WritesAt ==
    ASSUME NEW at \in Nat, NEW q, Sized(q), WriteAt(at, q)
    PROVE  position' \in Nat
  BY PieceSeq DEF WriteAt

LEMMA StoreIs ==
    ASSUME ProgInv, NEW p \in Packets, StorePayload(p)
    PROVE  /\ position' \in Nat /\ mdatBytes' \in Nat
           /\ \A q \in mdatBuffer' : Sized(q)
  <1> DEFINE piece == Payload(p.track, Len(log[p.track]) + 1, p.size)
  <1>1. opts \in Options /\ position \in Nat /\ mdatBytes \in Nat
        /\ \A q \in mdatBuffer : Sized(q)
    BY DEF ProgInv, ProgTypeOK
  <1>2. p.size \in Nat
    BY <1>1, PacketIs
  <1>3. piece.size \in Nat
    BY <1>2 DEF Payload, Piece
  <1>4. /\ IF Some(mdatBuffer)
           THEN /\ mdatBuffer' = {Append(ValueOf(mdatBuffer, <<>>), piece)}
                /\ UNCHANGED output
           ELSE /\ WriteAt(position, <<piece>>)
                /\ UNCHANGED mdatBuffer
        /\ mdatBytes' = mdatBytes + p.size
    BY DEF StorePayload
  <1> HIDE DEF piece
  <1>5. mdatBytes' \in Nat
    BY <1>1, <1>2, <1>4
  <1>6. CASE Some(mdatBuffer)
    <2> DEFINE q == ValueOf(mdatBuffer, <<>>)
    <2>1. q \in mdatBuffer
      BY <1>6 DEF Some, ValueOf
    <2>2. Sized(q)
      BY <1>1, <2>1
    <2> HIDE DEF q
    <2>3. Sized(Append(q, piece))
      BY <1>3, <2>2, SizedAppend
    <2>4. mdatBuffer' = {Append(q, piece)} /\ UNCHANGED output
      BY <1>4, <1>6 DEF q
    <2> QED
      BY <1>1, <1>5, <2>3, <2>4 DEF output
  <1>7. CASE ~Some(mdatBuffer)
    <2>1. Sized(<<piece>>)
      BY <1>3, SizedOne
    <2>2. WriteAt(position, <<piece>>) /\ UNCHANGED mdatBuffer
      BY <1>4, <1>7
    <2> QED
      BY <1>1, <1>5, <2>1, <2>2, WritesAt
  <1> QED
    BY <1>6, <1>7

LEMMA TypedParts ==
    ASSUME ProgInv
    PROVE  /\ opts \in Options
           /\ headerWritten \in BOOLEAN /\ trailerWritten \in BOOLEAN
           /\ track = [t \in Track |-> track[t]] /\ \A t \in Track : Timed(track[t])
           /\ lastTrack \in SUBSET Track
           /\ mdatSizeOffset \in Nat /\ mdatStartOffset \in Nat /\ mdatBytes \in Nat
           /\ position \in Nat /\ calls \in Nat /\ faults \in Nat
           /\ \A q \in mdatBuffer : Sized(q)
  BY DEF ProgInv, ProgTypeOK

LEMMA HeaderTyped ==
    ASSUME ProgInv, WriteHeader \/ HeaderFails
    PROVE  ProgInv'
  <1>1. CASE WriteHeader
    <2>1. position' \in Nat /\ Bytes(Header) \in Nat
      BY <1>1, TypedParts, SizedHeader, WritesAt, PieceSeq DEF WriteHeader
    <2>2. mdatSizeOffset' \in Nat /\ mdatStartOffset' \in Nat
      BY <1>1, <2>1, TypedParts, ProgSizesAssumption DEF WriteHeader
    <2>3. \A q \in mdatBuffer' : Sized(q)
      BY <1>1, SizedEmpty DEF WriteHeader, Present
    <2>4. /\ headerWritten' = TRUE
          /\ UNCHANGED <<opts, trailerWritten, track, lastTrack, mdatBytes, calls, faults>>
      BY <1>1 DEF WriteHeader, history
    <2> QED
      BY <2>1, <2>2, <2>3, <2>4, TypedParts, InvNext
  <1>2. CASE HeaderFails
    <2>1. PICK c \in Cuts(Header) : WriteAt(position, Cut(Header, c))
      BY <1>2 DEF HeaderFails
    <2>2. position' \in Nat
      BY <2>1, TypedParts, SizedHeader, SizedCut, WritesAt
    <2>3. faults' \in Nat
      BY <1>2, TypedParts DEF HeaderFails, Fault
    <2>4. UNCHANGED <<opts, headerWritten, trailerWritten, track, lastTrack,
                   mdatSizeOffset, mdatStartOffset, mdatBytes, mdatBuffer, calls>>
      BY <1>2 DEF HeaderFails
    <2> QED
      BY <2>2, <2>3, <2>4, TypedParts, InvNext
  <1> QED
    BY <1>1, <1>2

LEMMA WritePacketTyped ==
    ASSUME ProgInv, NEW p \in Packets, WritePacket(p)
    PROVE  ProgInv'
  <1> DEFINE t == p.track
             old == SwitchTo(t)
             tr == old[t]
             delta == ComputeDelta(tr, p)
             decoded == RecordDecoding(tr, p)
             at == mdatStartOffset + mdatBytes
             placed == RecordPlace(decoded, p, at)
             new == RecordPresentation(placed, p, delta)
  <1>1. t \in Track /\ opts \in Options
    BY PacketIs, TypedParts
  <1>2. old = [u \in Track |-> old[u]] /\ \A u \in Track : Timed(old[u])
    BY SwitchToTimed
  <1>3. track' = [old EXCEPT ![t] = new]
    BY DEF WritePacket
  <1>4. at \in Nat
    BY TypedParts
  <1> HIDE DEF old, at, t
  <1>5. Timed(tr)
    BY <1>1, <1>2
  <1> HIDE DEF tr
  <1>6. delta \in Int /\ Timed(decoded)
    BY <1>1, <1>5, DeltaPositive, RecordDecodingTimed
  <1> HIDE DEF delta, decoded
  <1>7. Timed(placed)
    BY <1>1, <1>4, <1>6, RecordPlaceTimed
  <1> HIDE DEF placed
  <1>8. Timed(new)
    BY <1>1, <1>6, <1>7, RecordPresentationTimed
  <1> HIDE DEF new
  <1>9. track' = [u \in Track |-> track'[u]] /\ \A u \in Track : Timed(track'[u])
    BY <1>1, <1>2, <1>3, <1>8
  <1>10. StorePayload(p)
    BY DEF WritePacket
  <1>11. /\ lastTrack' = {t} /\ calls' = calls + 1
         /\ UNCHANGED <<opts, headerWritten, trailerWritten, mdatSizeOffset,
                        mdatStartOffset, faults>>
    BY DEF WritePacket, t
  <1>12. calls' \in Nat /\ lastTrack' \in SUBSET Track
    BY <1>1, <1>11, TypedParts
  <1> QED
    BY <1>9, <1>10, <1>11, <1>12, StoreIs, TypedParts, InvNext

LEMMA PayloadFailsTyped ==
    ASSUME ProgInv, NEW p \in Packets, PayloadFails(p)
    PROVE  ProgInv'
  <1> DEFINE piece == Payload(p.track, Len(log[p.track]) + 1, p.size)
             pieces == <<piece>>
  <1>1. p.track \in Track /\ p.size \in Nat
    BY PacketIs, TypedParts
  <1>2. piece.size \in Nat
    BY <1>1 DEF Payload, Piece
  <1>3. PICK c \in Cuts(pieces) : WriteAt(position, Cut(pieces, c))
    BY DEF PayloadFails
  <1> HIDE DEF piece
  <1>4. Sized(pieces)
    BY <1>2, SizedOne
  <1> HIDE DEF pieces
  <1>5. position' \in Nat
    BY <1>3, <1>4, TypedParts, SizedCut, WritesAt
  <1>6. faults' \in Nat
    BY TypedParts DEF PayloadFails, Fault
  <1>7. /\ track' = SwitchTo(p.track) /\ lastTrack' = {p.track} /\ calls' = calls + 1
        /\ UNCHANGED <<opts, headerWritten, trailerWritten, mdatSizeOffset,
                       mdatStartOffset, mdatBytes, mdatBuffer>>
    BY DEF PayloadFails
  <1>8. track' = [u \in Track |-> track'[u]] /\ \A u \in Track : Timed(track'[u])
    BY <1>7, SwitchToTimed
  <1>9. calls' \in Nat /\ lastTrack' \in SUBSET Track
    BY <1>1, <1>7, TypedParts
  <1> QED
    BY <1>5, <1>6, <1>7, <1>8, <1>9, TypedParts, InvNext

LEMMA OffsetRefusedTyped ==
    ASSUME ProgInv, NEW p \in Packets, OffsetRefused(p)
    PROVE  ProgInv'
  <1> DEFINE t == p.track
             old == SwitchTo(t)
             new == RecordDecoding(old[t], p)
  <1>1. t \in Track /\ opts \in Options
    BY PacketIs, TypedParts
  <1>2. old = [u \in Track |-> old[u]] /\ \A u \in Track : Timed(old[u])
    BY SwitchToTimed
  <1>3. track' = [old EXCEPT ![t] = RecordDecoding(@, p)]
    BY DEF OffsetRefused
  <1>4. Timed(new)
    BY <1>1, <1>2, RecordDecodingTimed
  <1> HIDE DEF t, old
  <1>5. track' = [old EXCEPT ![t] = new]
    BY <1>1, <1>2, <1>3
  <1> HIDE DEF new
  <1>6. track' = [u \in Track |-> track'[u]] /\ \A u \in Track : Timed(track'[u])
    BY <1>1, <1>2, <1>4, <1>5
  <1>7. /\ StorePayload(p) /\ lastTrack' = {t} /\ calls' = calls + 1 /\ faults' = faults + 1
        /\ UNCHANGED <<opts, headerWritten, trailerWritten, mdatSizeOffset, mdatStartOffset>>
    BY DEF OffsetRefused, Fault, t
  <1>8. calls' \in Nat /\ faults' \in Nat /\ lastTrack' \in SUBSET Track
    BY <1>1, <1>7, TypedParts
  <1> QED
    BY <1>6, <1>7, <1>8, StoreIs, TypedParts, InvNext

LEMMA MoovSized ==
    ASSUME NEW trs, trs = [t \in Track |-> trs[t]], \A t \in Track : Timed(trs[t])
    PROVE  Moov(trs).size \in Nat /\ MoovSize(trs) \in Nat
  BY MoovSizeNat DEF Moov, Piece

LEMMA PlanTimed ==
    ASSUME ProgInv
    PROVE  /\ FaststartPlan.tracks = [t \in Track |-> FaststartPlan.tracks[t]]
           /\ \A t \in Track : Timed(FaststartPlan.tracks[t])
  <1> DEFINE base == Base(Sizes[LastRound - 1])
             trs == Shifted(Closed, base)
  <1>1. LastRound - 1 \in 0..Rounds
    BY LastRoundIs, ProgSizesAssumption DEF Rounds
  <1>2. Sizes[LastRound - 1] \in Nat
    BY <1>1, SizesAre, TypedParts
  <1>3. base \in Nat
    BY <1>2, BaseNat
  <1>4. FaststartPlan.tracks = trs
    BY PlanIs
  <1> HIDE DEF base
  <1>5. \A t \in Track : Timed(trs[t])
    BY <1>3, ClosedTimed, ShiftedTimed, TypedParts
  <1>6. trs = [t \in Track |-> trs[t]]
    BY DEF Shifted
  <1> HIDE DEF trs
  <1> QED
    BY <1>4, <1>5, <1>6

LEMMA PlanSized ==
    ASSUME ProgInv
    PROVE  Sized(FaststartPlan.pieces)
  <1> DEFINE payload == ValueOf(mdatBuffer, <<>>)
             moov == Moov(FaststartPlan.tracks)
             mdat == MdatHeader(Wide, HeaderBytes(Wide) + Bytes(payload))
             front == <<moov, mdat>>
  <1>1. moov.size \in Nat
    BY PlanTimed, MoovSized
  <1>2. mdat.size \in Nat
    BY DEF MdatHeader, Piece, HeaderBytes
  <1>3. Sized(payload)
    <2>1. CASE mdatBuffer = {}
      BY <2>1, SizedEmpty DEF ValueOf
    <2>2. CASE mdatBuffer # {}
      <3>1. payload \in mdatBuffer
        BY <2>2 DEF ValueOf
      <3> QED
        BY <3>1, TypedParts
    <2> QED
      BY <2>1, <2>2
  <1>4. FaststartPlan.pieces = front \o payload
    BY PlanIs
  <1> HIDE DEF payload, moov, mdat
  <1>5. front = Append(<<moov>>, mdat)
    OBVIOUS
  <1>6. Sized(front)
    BY <1>1, <1>2, <1>5, SizedOne, SizedAppend
  <1> HIDE DEF front
  <1> QED
    BY <1>3, <1>4, <1>6, SizedConcat

LEMMA TrailerTyped ==
    ASSUME ProgInv, WriteTrailer
    PROVE  ProgInv'
  <1> DEFINE Calm == UNCHANGED <<opts, headerWritten, lastTrack, mdatSizeOffset,
                                 mdatStartOffset, mdatBytes, calls>>
  <1>1. Calm
    BY DEF WriteTrailer, TrailerDirect, TrailerRefused, PatchFails, MoovFails,
           TrailerFaststart, FaststartFails, TrailerCall
  <1>2. trailerWritten' \in BOOLEAN /\ faults' \in Nat /\ \A q \in mdatBuffer' : Sized(q)
    <2>1. /\ trailerWritten' = TRUE \/ trailerWritten' = trailerWritten
          /\ faults' = faults \/ faults' = faults + 1
          /\ mdatBuffer' = mdatBuffer \/ mdatBuffer' = {}
      BY DEF WriteTrailer, TrailerDirect, TrailerRefused, PatchFails, MoovFails,
             TrailerFaststart, FaststartFails, Fault
    <2>2. trailerWritten' \in BOOLEAN
      BY <2>1, TypedParts
    <2>3. faults' \in Nat
      BY <2>1, TypedParts
    <2>4. \A q \in mdatBuffer' : Sized(q)
      BY <2>1, TypedParts
    <2> QED
      BY <2>2, <2>3, <2>4
  <1>3. track' = [t \in Track |-> track'[t]] /\ \A t \in Track : Timed(track'[t])
    <2>1. track' = Closed \/ track' = FaststartPlan.tracks
      BY DEF WriteTrailer, TrailerDirect, TrailerRefused, PatchFails, MoovFails,
             TrailerFaststart, FaststartFails
    <2> QED
      BY <2>1, ClosedTimed, PlanTimed, TypedParts
  <1>4. position' \in Nat
    <2> DEFINE moov == Moov(Closed)
    <2>1. MoovSize(Closed) \in Nat /\ moov.size \in Nat
      BY ClosedTimed, TypedParts, MoovSized
    <2> HIDE DEF moov
    <2>2. Sized(<<moov>>)
      BY <2>1, SizedOne
    <2>3. CASE TrailerDirect
      BY <2>1, <2>3, TypedParts DEF TrailerDirect
    <2>4. CASE TrailerRefused
      BY <2>4, TypedParts DEF TrailerRefused, output
    <2>5. CASE PatchFails
      <3>1. PatchAt \in Nat
        BY TypedParts DEF PatchAt
      <3> QED
        BY <2>5, <3>1 DEF PatchFails
    <2>6. CASE MoovFails
      <3> DEFINE one == <<moov>>
      <3>1. PICK part \in {Cut(one, c) : c \in Cuts(one)} \cup {one} :
              position' = position + Bytes(part)
        BY <2>6 DEF MoovFails, moov
      <3> HIDE DEF one
      <3>2. Sized(part)
        BY <2>2, <3>1, SizedCut DEF one
      <3> QED
        BY <3>1, <3>2, PieceSeq, TypedParts
    <2>7. CASE TrailerFaststart
      <3>1. WriteAt(FtypSize, FaststartPlan.pieces) \/ UNCHANGED output
        BY <2>7 DEF TrailerFaststart
      <3> QED
        BY <3>1, PlanSized, WritesAt, TypedParts, ProgSizesAssumption DEF output
    <2>8. CASE FaststartFails
      <3> DEFINE q == FaststartPlan.pieces
      <3>1. Sized(q)
        BY PlanSized
      <3>2. PICK part \in {Cut(q, c) : c \in Cuts(q)} \cup {q} : WriteAt(FtypSize, part)
        BY <2>8 DEF FaststartFails
      <3> HIDE DEF q
      <3>3. Sized(part)
        BY <3>1, <3>2, SizedCut
      <3> QED
        BY <3>2, <3>3, WritesAt, ProgSizesAssumption
    <2> QED
      BY <2>3, <2>4, <2>5, <2>6, <2>7, <2>8 DEF WriteTrailer
  <1> QED
    BY <1>1, <1>2, <1>3, <1>4, TypedParts, InvNext

LEMMA ProgInit == Init => ProgInv
  <1> SUFFICES ASSUME Init PROVE ProgInv
    OBVIOUS
  <1>1. \A t \in Track : track[t] = NewTrack
    BY DEF Init
  <1>2. track \in [Track -> TrackState]
    BY NewTrackTimed DEF Init, Timed
  <1>3. ProgTypeOK
    BY <1>2 DEF Init, ProgTypeOK
  <1> QED
    BY <1>1, <1>3, NewTrackTimed DEF Init, ProgInv

LEMMA ProgStep == ProgInv /\ [Next]_vars => ProgInv'
  <1> SUFFICES ASSUME ProgInv, [Next]_vars PROVE ProgInv'
    OBVIOUS
  <1>1. CASE WriteHeader \/ HeaderFails
    BY <1>1, HeaderTyped
  <1>2. ASSUME NEW p \in Packets, WritePacket(p) \/ PayloadFails(p) \/ OffsetRefused(p)
        PROVE  ProgInv'
    BY <1>2, WritePacketTyped, PayloadFailsTyped, OffsetRefusedTyped
  <1>3. CASE WriteTrailer
    BY <1>3, TrailerTyped
  <1>4. CASE UNCHANGED vars
    BY <1>4, TypedParts, InvNext DEF vars, output, history
  <1> QED
    BY <1>1, <1>2, <1>3, <1>4 DEF Next

LEMMA ProgInvAlways == Spec => []ProgInv
  BY ProgInit, ProgStep, PTL DEF Spec

(* Every call, failing or not, leaves the state of the muxer in its types: *)
(* in particular no run of a table is empty and no track ever lasts a      *)
(* negative time (Mp4Muxer, TrackState).                                   *)
THEOREM ProgMuxerTyped == Spec => []ProgTypeOK
  <1>1. ProgInv => ProgTypeOK
    BY DEF ProgInv
  <1> QED
    BY <1>1, ProgInvAlways, PTL

(***************************************************************************)
(* The faststart loop settles.  A larger moov moves the payload further,   *)
(* so sizes and Promoted only grow; a round that promotes no further track *)
(* repeats the size of the round before.                                   *)
(***************************************************************************)
Exceeds(t, base) ==
    \E k \in DOMAIN Closed[t].chunkOffsets : Closed[t].chunkOffsets[k] + base > U32Max
Promoted(n) == {t \in Track : Exceeds(t, Base(n))}

LEMMA ShiftedOffsets ==
    ASSUME NEW t \in Track, Timed(Closed[t]), NEW base
    PROVE  LET s == Closed[t].chunkOffsets
               r == Shifted(Closed, base)[t].chunkOffsets
           IN  DOMAIN r = DOMAIN s /\ \A k \in DOMAIN s : r[k] = s[k] + base
  <1> DEFINE s == Closed[t].chunkOffsets
             m == [k \in DOMAIN s |-> s[k] + base]
  <1>1. Shifted(Closed, base)[t] = [Closed[t] EXCEPT !.chunkOffsets = m]
    BY DEF Shifted, Timed, TrackState
  <1>2. Shifted(Closed, base)[t].chunkOffsets = m
    BY <1>1 DEF Timed, TrackState
  <1> QED
    BY <1>2

(* The bytes of a track's offsets depend on whether it is promoted. *)
LEMMA RoundBytes ==
    ASSUME ProgInv, NEW n \in Nat, NEW t \in Track
    PROVE  LET len == Len(Closed[t].chunkOffsets)
           IN  /\ len \in Nat
               /\ OffsetBytes(Shifted(Closed, Base(n)))[t]
                    = 16 + len * (IF t \in Promoted(n) THEN 8 ELSE 4)
  <1> DEFINE base == Base(n)
             s == Closed[t].chunkOffsets
             r == Shifted(Closed, base)[t].chunkOffsets
  <1>1. Timed(Closed[t])
    BY ClosedTimed, TypedParts
  <1>2. DOMAIN r = DOMAIN s /\ \A k \in DOMAIN s : r[k] = s[k] + base
    BY <1>1, ShiftedOffsets
  <1>3. s \in Seq(Nat)
    BY <1>1 DEF Timed, TrackState
  <1>4. base \in Nat
    BY BaseNat
  <1>5. Shifted(Closed, base)[t].chunkOffsets \in Seq(Nat)
    BY <1>4, ClosedTimed, ShiftedTimed, TypedParts DEF Timed, TrackState
  <1>6. Len(r) = Len(s) /\ Len(s) \in Nat
    BY <1>2, <1>3, <1>5
  <1>7. (\E k \in DOMAIN r : r[k] > U32Max) <=> t \in Promoted(n)
    BY <1>2 DEF Promoted, Exceeds
  <1>8. OffsetBytes(Shifted(Closed, base))[t] = ChunkOffsetBytes(r, U32Max)
    BY DEF OffsetBytes
  <1> HIDE DEF r, base
  <1>9. ChunkOffsetBytes(r, U32Max) = 16 + Len(r) * (IF t \in Promoted(n) THEN 8 ELSE 4)
    BY <1>7 DEF ChunkOffsetBytes
  <1> QED
    BY <1>6, <1>8, <1>9 DEF base

LEMMA GrownIs ==
    ASSUME ProgInv, NEW n \in Nat
    PROVE  /\ Grown(n) = MoovFixed + Total(OffsetBytes(Shifted(Closed, Base(n))))
           /\ OffsetBytes(Shifted(Closed, Base(n))) \in Seq(Nat)
           /\ Len(OffsetBytes(Shifted(Closed, Base(n)))) = NumTracks
  <1> DEFINE base == Base(n)
             trs == Shifted(Closed, base)
  <1>1. base \in Nat
    BY BaseNat
  <1> HIDE DEF base
  <1>2. \A t \in Track : Timed(trs[t])
    BY <1>1, ClosedTimed, ShiftedTimed, TypedParts
  <1>3. trs = [t \in Track |-> trs[t]]
    BY DEF Shifted
  <1>4. Grown(n) = MoovSize(trs)
    BY DEF Grown, base
  <1> HIDE DEF trs
  <1>5. OffsetBytes(trs) \in Seq(Nat) /\ Len(OffsetBytes(trs)) = NumTracks
    BY <1>2, OffsetBytesNat
  <1>6. MoovSize(trs) = MoovFixed + Total(OffsetBytes(trs))
    BY <1>3, MoovSizeIs
  <1> QED
    BY <1>4, <1>5, <1>6 DEF trs, base

LEMMA PromotedGrows ==
    ASSUME ProgInv, NEW n \in Nat, NEW m \in Nat, n <= m
    PROVE  Promoted(n) \subseteq Promoted(m) /\ Grown(n) <= Grown(m)
  <1>1. Base(n) \in Nat /\ Base(m) \in Nat /\ Base(n) <= Base(m)
    BY BaseNat
  <1>2. ASSUME NEW t \in Track, Exceeds(t, Base(n)) PROVE Exceeds(t, Base(m))
    <2> DEFINE s == Closed[t].chunkOffsets
    <2>1. s \in Seq(Nat)
      BY ClosedTimed, TypedParts DEF Timed, TrackState
    <2>2. PICK k \in DOMAIN s : s[k] + Base(n) > U32Max
      BY <1>2 DEF Exceeds
    <2>3. s[k] \in Nat
      BY <2>1, <2>2
    <2> HIDE DEF s
    <2>4. s[k] + Base(m) > U32Max
      BY <1>1, <2>2, <2>3, ProgSizesAssumption
    <2> QED
      BY <2>2, <2>4 DEF s, Exceeds
  <1>3. Promoted(n) \subseteq Promoted(m)
    BY <1>2 DEF Promoted
  <1> DEFINE g == OffsetBytes(Shifted(Closed, Base(n)))
             h == OffsetBytes(Shifted(Closed, Base(m)))
  <1>4. /\ Grown(n) = MoovFixed + Total(g) /\ g \in Seq(Nat) /\ Len(g) = NumTracks
        /\ Grown(m) = MoovFixed + Total(h) /\ h \in Seq(Nat) /\ Len(h) = NumTracks
    BY GrownIs
  <1>5. ASSUME NEW t \in Track PROVE g[t] <= h[t]
    <2> DEFINE len == Len(Closed[t].chunkOffsets)
    <2>1. /\ len \in Nat
          /\ g[t] = 16 + len * (IF t \in Promoted(n) THEN 8 ELSE 4)
          /\ h[t] = 16 + len * (IF t \in Promoted(m) THEN 8 ELSE 4)
      BY RoundBytes
    <2>2. t \in Promoted(n) => t \in Promoted(m)
      BY <1>3
    <2> HIDE DEF len, g, h
    <2>3. len * 4 <= len * 8 /\ len * 4 \in Nat /\ len * 8 \in Nat
      BY <2>1
    <2> QED
      BY <2>1, <2>2, <2>3
  <1> HIDE DEF g, h
  <1>6. Total(g) <= Total(h) /\ Total(g) \in Nat /\ Total(h) \in Nat
    BY <1>4, <1>5, TotalMonotone, TotalNat DEF Track
  <1> QED
    BY <1>3, <1>4, <1>6, ProgSizesAssumption

LEMMA PromotedSettles ==
    ASSUME ProgInv, NEW n \in Nat, NEW m \in Nat, Promoted(n) = Promoted(m)
    PROVE  Grown(n) = Grown(m)
  <1> DEFINE g == OffsetBytes(Shifted(Closed, Base(n)))
             h == OffsetBytes(Shifted(Closed, Base(m)))
  <1>1. \A t \in Track : g[t] = h[t]
    BY RoundBytes
  <1>2. g = [t \in Track |-> g[t]] /\ h = [t \in Track |-> h[t]]
    BY DEF OffsetBytes
  <1>3. Grown(n) = MoovFixed + Total(g) /\ Grown(m) = MoovFixed + Total(h)
    BY GrownIs
  <1> HIDE DEF g, h
  <1>4. g = h
    BY <1>1, <1>2
  <1> QED
    BY <1>3, <1>4

(* As long as nothing settles, every round promotes one more track.        *)
LEMMA RoundsPromote ==
    ASSUME ProgInv, Settled = {}
    PROVE  \A k \in Nat : k + 1 \in 1..Rounds =>
              /\ Sizes[k] < Sizes[k + 1]
              /\ Cardinality(Promoted(Sizes[k])) >= k
  <1>1. /\ Sizes[0] = 0
        /\ \A k \in 1..Rounds : Sizes[k] = Grown(Sizes[k - 1])
        /\ \A k \in 0..Rounds : Sizes[k] \in Nat
    BY SizesAre, TypedParts
  <1>2. Rounds \in Nat /\ Rounds >= 1
    BY ProgSizesAssumption DEF Rounds
  <1>3. \A k \in 1..Rounds : Sizes[k] # Sizes[k - 1]
    BY DEF Settled
  <1>4. ASSUME NEW n
        PROVE  IsFiniteSet(Promoted(n)) /\ Cardinality(Promoted(n)) \in Nat
    <2>1. IsFiniteSet(Track)
      BY ProgTracksAssumption, FS_Interval DEF Track
    <2>2. Promoted(n) \subseteq Track
      BY DEF Promoted
    <2>3. IsFiniteSet(Promoted(n))
      BY <2>1, <2>2, FS_Subset
    <2> QED
      BY <2>3, FS_CardinalityType
  <1> DEFINE T == {k \in Nat : k + 1 \in 1..Rounds =>
                     /\ Sizes[k] < Sizes[k + 1]
                     /\ Cardinality(Promoted(Sizes[k])) >= k}
  <1>5. 0 \in T
    <2>1. 1 \in 1..Rounds /\ 0 \in 0..Rounds /\ 1 \in 0..Rounds
      BY <1>2
    <2>2. Sizes[1] \in Nat /\ Sizes[1] # 0
      BY <1>1, <1>3, <2>1
    <2> QED
      BY <1>1, <1>4, <2>2
  <1>6. ASSUME NEW k \in Nat, k \in T PROVE k + 1 \in T
    <2> SUFFICES ASSUME k + 2 \in 1..Rounds
                 PROVE  /\ Sizes[k + 1] < Sizes[k + 2]
                        /\ Cardinality(Promoted(Sizes[k + 1])) >= k + 1
      OBVIOUS
    <2> DEFINE a == Sizes[k]
               b == Sizes[k + 1]
               c == Sizes[k + 2]
               A == Promoted(a)
               B == Promoted(b)
    <2>1. k + 1 \in 1..Rounds /\ k \in 0..Rounds /\ k + 1 \in 0..Rounds /\ k + 2 \in 0..Rounds
          /\ (k + 1) - 1 = k /\ (k + 2) - 1 = k + 1
      BY <1>2
    <2>2. a \in Nat /\ b \in Nat /\ c \in Nat /\ b = Grown(a) /\ c = Grown(b) /\ b # c
      BY <1>1, <1>3, <2>1
    <2>3. a < b /\ Cardinality(A) >= k
      BY <1>6, <2>1
    <2> HIDE DEF a, b, c
    <2>4. A \subseteq B /\ b <= c
      BY <2>2, <2>3, PromotedGrows
    <2>5. A # B
      BY <2>2, PromotedSettles
    <2>6. IsFiniteSet(A) /\ IsFiniteSet(B) /\ Cardinality(A) \in Nat /\ Cardinality(B) \in Nat
      BY <1>4
    <2> HIDE DEF A, B
    <2>7. Cardinality(A) < Cardinality(B)
      BY <2>4, <2>5, <2>6, FS_Subset
    <2>8. Cardinality(B) >= k + 1 /\ b < c
      BY <2>2, <2>3, <2>4, <2>6, <2>7
    <2> QED
      BY <2>8 DEF A, B, a, b, c
  <1> HIDE DEF T
  <1>7. Nat \subseteq T
    BY <1>5, <1>6, NumberInduction
  <1> QED
    BY <1>7 DEF T

LEMMA PlanConverges ==
    ASSUME ProgInv, NumTracks + 2 <= Attempts
    PROVE  Settled # {}
  <1> SUFFICES ASSUME Settled = {} PROVE FALSE
    OBVIOUS
  <1>1. NumTracks \in Nat /\ Rounds \in Nat /\ NumTracks + 2 <= Rounds
    BY ProgTracksAssumption, ProgSizesAssumption DEF Rounds
  <1> DEFINE k == NumTracks + 1
             P == Promoted(Sizes[k])
  <1>2. k \in Nat /\ k + 1 \in 1..Rounds
    BY <1>1
  <1>3. Cardinality(P) >= k
    BY <1>2, RoundsPromote
  <1>4. IsFiniteSet(Track) /\ Cardinality(Track) = NumTracks
    BY <1>1, FS_Interval DEF Track
  <1>5. P \subseteq Track
    BY DEF Promoted
  <1>6. Cardinality(P) <= NumTracks /\ Cardinality(P) \in Nat
    <2> HIDE DEF P
    <2>1. IsFiniteSet(P) /\ Cardinality(P) <= Cardinality(Track)
      BY <1>4, <1>5, FS_Subset
    <2> QED
      BY <1>4, <2>1, FS_CardinalityType
  <1> HIDE DEF P
  <1> QED
    BY <1>1, <1>3, <1>6

(* Where the loop has two rounds more than there are tracks, as four rounds*)
(* are for one track or two, the faststart rewrite never gives up: every   *)
(* round that does not settle moves one more track to 64-bit offsets       *)
(* (write_trailer_faststart, src/muxer.rs).                                *)
THEOREM FaststartSettles ==
    ASSUME NumTracks + 2 <= Attempts
    PROVE  Spec => []FaststartConverges
  <1>1. Init => FaststartConverges
    BY DEF Init, FaststartConverges
  <1>2. ASSUME ProgInv, FaststartConverges, [Next]_vars
        PROVE  FaststartConverges'
    <2>1. FaststartPlan.converged
      BY <1>2, PlanConverges, PlanIs
    <2>2. mishaps' \subseteq mishaps \cup {"trailer", "patch", "late", "torn", "refused", "rebuilt"}
      <3>1. ASSUME NEW p \in Packets, WritePacket(p) \/ PayloadFails(p) \/ OffsetRefused(p)
            PROVE  mishaps' \subseteq mishaps \cup {"late", "torn", "refused"}
        BY <3>1 DEF WritePacket, PayloadFails, OffsetRefused, Late, Fault
      <3>2. CASE WriteHeader \/ HeaderFails
        BY <3>2 DEF WriteHeader, HeaderFails, Fault, history
      <3>3. CASE WriteTrailer
        BY <2>1, <3>3 DEF WriteTrailer, TrailerDirect, TrailerRefused, PatchFails,
           MoovFails, TrailerFaststart, FaststartFails, Fault
      <3>4. CASE UNCHANGED vars
        BY <3>4 DEF vars, history
      <3> QED
        BY <1>2, <3>1, <3>2, <3>3, <3>4 DEF Next
    <2> QED
      BY <1>2, <2>2 DEF FaststartConverges
  <1> QED
    BY <1>1, <1>2, ProgInvAlways, PTL DEF Spec

(***************************************************************************)
(* The chunks that stsc describes.  A place is the number of a chunk and   *)
(* the position in it; the places of all the chunks, one after the other,  *)
(* are what the demuxer expands the runs to.                               *)
(***************************************************************************)
Place == [chunk : Nat, nth : Nat]
ChunkPlaces(c, per) == [j \in 1..per |-> [chunk |-> c, nth |-> j - 1]]
RunOf(first, per, n) ==
    FlattenSeq([c \in 1..n |-> ChunkPlaces(first + c - 1, per)])
RunEnd(stsc, chunks, k) == IF k < Len(stsc) THEN stsc[k + 1].first ELSE chunks + 1
RunLength(stsc, chunks, k) == RunEnd(stsc, chunks, k) - stsc[k].first
RunPlaces(stsc, chunks, k) ==
    RunOf(stsc[k].first, stsc[k].perChunk, RunLength(stsc, chunks, k))
Places(stsc, chunks) == FlattenSeq([k \in DOMAIN stsc |-> RunPlaces(stsc, chunks, k)])

LEMMA ChunkPlacesTyped ==
    ASSUME NEW c \in Nat, NEW per \in Nat
    PROVE  /\ ChunkPlaces(c, per) \in Seq(Place) /\ Len(ChunkPlaces(c, per)) = per
           /\ \A j \in 1..per : ChunkPlaces(c, per)[j] = [chunk |-> c, nth |-> j - 1]
  <1> DEFINE s == ChunkPlaces(c, per)
  <1>1. \A j \in 1..per : s[j] = [chunk |-> c, nth |-> j - 1] /\ s[j] \in Place
    BY DEF ChunkPlaces, Place
  <1>2. s = [j \in 1..per |-> s[j]]
    BY DEF ChunkPlaces
  <1> HIDE DEF s
  <1>3. s \in Seq(Place) /\ Len(s) = per
    BY <1>1, <1>2
  <1> QED
    BY <1>1, <1>3 DEF s

LEMMA RunOfIs ==
    ASSUME NEW first \in Nat \ {0}, NEW per \in Nat, NEW n \in Nat
    PROVE  /\ RunOf(first, per, n) \in Seq(Place)
           /\ RunOf(first, per, 0) = <<>>
           /\ RunOf(first, per, n + 1)
                = RunOf(first, per, n) \o ChunkPlaces(first + n, per)
  <1> DEFINE list(m) == [c \in 1..m |-> ChunkPlaces(first + c - 1, per)]
  <1>1. ASSUME NEW m \in Nat
        PROVE  list(m) \in Seq(Seq(Place)) /\ Len(list(m)) = m
    <2>1. \A c \in 1..m : ChunkPlaces(first + c - 1, per) \in Seq(Place)
      <3> SUFFICES ASSUME NEW c \in 1..m PROVE ChunkPlaces(first + c - 1, per) \in Seq(Place)
        OBVIOUS
      <3>1. first + c - 1 \in Nat
        OBVIOUS
      <3> QED
        BY <3>1, ChunkPlacesTyped
    <2> QED
      BY <2>1
  <1>2. list(n + 1) = Append(list(n), ChunkPlaces(first + n, per))
    <2> DEFINE p == list(n + 1)
               q == list(n)
               x == ChunkPlaces(first + n, per)
               r == Append(q, x)
    <2>1. Len(p) = n + 1 /\ Len(q) = n /\ p \in Seq(Seq(Place)) /\ q \in Seq(Seq(Place))
      <3>1. n + 1 \in Nat
        OBVIOUS
      <3> HIDE DEF list
      <3> QED
        BY <3>1, <1>1
    <2>2. /\ \A c \in 1..n : p[c] = q[c]
          /\ p[n + 1] = x
      <3>1. \A c \in 1..n : p[c] = q[c]
        OBVIOUS
      <3>2. first + (n + 1) - 1 = first + n /\ n + 1 \in 1..(n + 1)
        OBVIOUS
      <3>3. p[n + 1] = ChunkPlaces(first + (n + 1) - 1, per)
        BY <3>2
      <3> QED
        BY <3>1, <3>2, <3>3
    <2>3. x \in Seq(Place)
      BY ChunkPlacesTyped
    <2> HIDE DEF p, q, x
    <2>4. Len(r) = n + 1 /\ r \in Seq(Seq(Place)) /\ (\A c \in 1..n : r[c] = q[c]) /\ r[n + 1] = x
      BY <2>1, <2>3
    <2> HIDE DEF r
    <2>5. p = r
      BY <2>1, <2>2, <2>4
    <2> QED
      BY <2>5 DEF p, q, x, r
  <1>3. FlattenSeq(list(n)) \in Seq(Place)
    BY <1>1, FlattenTyped
  <1>4. FlattenSeq(list(0)) = <<>>
    <2>1. list(0) = <<>>
      OBVIOUS
    <2> QED
      BY <2>1, FlattenEmpty
  <1>5. FlattenSeq(list(n + 1)) = FlattenSeq(list(n)) \o ChunkPlaces(first + n, per)
    <2>1. ChunkPlaces(first + n, per) \in Seq(Place)
      BY ChunkPlacesTyped
    <2> HIDE DEF list
    <2> QED
      BY <1>1, <1>2, <2>1, FlattenAppend
  <1> QED
    BY <1>3, <1>4, <1>5 DEF RunOf

(* The runs of C closed chunks, the last of which had `last` samples.      *)
ChunksKept(stsc, last, C) ==
    /\ stsc \in Seq(ChunkRun) /\ C \in Nat
    /\ stsc = <<>> => C = 0 /\ last = 0
    /\ stsc # <<>> => last = stsc[Len(stsc)].perChunk
    /\ \A k \in 1..Len(stsc) : RunLength(stsc, C, k) \in Nat

LEMMA KeptIs ==
    ASSUME NEW stsc, NEW last, NEW C, ChunksKept(stsc, last, C)
    PROVE  /\ stsc \in Seq(ChunkRun) /\ C \in Nat /\ Len(stsc) \in Nat
           /\ DOMAIN stsc = 1..Len(stsc)
           /\ \A k \in 1..Len(stsc) : /\ stsc[k].first \in Nat \ {0}
                                      /\ stsc[k].perChunk \in Nat \ {0}
           /\ \A k \in 1..Len(stsc) : RunLength(stsc, C, k) \in Nat
  <1>1. stsc \in Seq(ChunkRun) /\ C \in Nat
        /\ \A k \in 1..Len(stsc) : RunLength(stsc, C, k) \in Nat
    BY DEF ChunksKept
  <1>2. \A k \in 1..Len(stsc) : stsc[k] \in ChunkRun
    BY <1>1
  <1>3. \A x \in ChunkRun : x.first \in Nat \ {0} /\ x.perChunk \in Nat \ {0}
    BY DEF ChunkRun
  <1> QED
    BY <1>1, <1>2, <1>3

LEMMA PlacesTyped ==
    ASSUME NEW stsc, NEW last, NEW C, ChunksKept(stsc, last, C)
    PROVE  /\ \A k \in 1..Len(stsc) : RunPlaces(stsc, C, k) \in Seq(Place)
           /\ [k \in DOMAIN stsc |-> RunPlaces(stsc, C, k)] \in Seq(Seq(Place))
           /\ Len([k \in DOMAIN stsc |-> RunPlaces(stsc, C, k)]) = Len(stsc)
           /\ Places(stsc, C) \in Seq(Place)
  <1>1. \A k \in 1..Len(stsc) : RunPlaces(stsc, C, k) \in Seq(Place)
    <2> SUFFICES ASSUME NEW k \in 1..Len(stsc) PROVE RunPlaces(stsc, C, k) \in Seq(Place)
      OBVIOUS
    <2>1. stsc[k].first \in Nat \ {0} /\ stsc[k].perChunk \in Nat /\ RunLength(stsc, C, k) \in Nat
      BY KeptIs
    <2> QED
      BY <2>1, RunOfIs DEF RunPlaces
  <1> DEFINE ss == [k \in DOMAIN stsc |-> RunPlaces(stsc, C, k)]
  <1>2. ss \in Seq(Seq(Place)) /\ Len(ss) = Len(stsc)
    <2>1. DOMAIN stsc = 1..Len(stsc) /\ Len(stsc) \in Nat
      BY KeptIs
    <2> QED
      BY <1>1, <2>1
  <1>3. FlattenSeq(ss) \in Seq(Place)
    BY <1>2, FlattenTyped
  <1> QED
    BY <1>1, <1>2, <1>3 DEF Places

(* The last list of a list of n lists grows. *)
LastGrows(ss, rr, x, n) ==
    /\ n \in Nat /\ n >= 1 /\ Len(ss) = n /\ Len(rr) = n
    /\ \A k \in 1..(n - 1) : rr[k] = ss[k]
    /\ rr[n] = ss[n] \o x
LEMMA FlattenLonger ==
    ASSUME NEW S, NEW ss \in Seq(Seq(S)), NEW rr \in Seq(Seq(S)), NEW x \in Seq(S),
           NEW n, LastGrows(ss, rr, x, n)
    PROVE  FlattenSeq(rr) = FlattenSeq(ss) \o x
  <1> DEFINE q == SubSeq(ss, 1, n - 1)
             a == ss[n]
             y == a \o x
             f == FlattenSeq(q)
  <1>0. /\ n \in Nat /\ n >= 1 /\ Len(ss) = n /\ Len(rr) = n
        /\ \A k \in 1..(n - 1) : rr[k] = ss[k]
        /\ rr[n] = y
    BY DEF LastGrows
  <1>1. n - 1 \in 0..Len(ss) /\ n \in 0..Len(ss) /\ n > 0 /\ n \in 1..n
    BY <1>0
  <1>2. q \in Seq(Seq(S)) /\ Len(q) = n - 1 /\ \A k \in 1..(n - 1) : q[k] = ss[k]
    BY <1>0, <1>1, PrefixIs
  <1>3. a \in Seq(S) /\ y \in Seq(S)
    <2>1. a \in Seq(S)
      BY <1>0, <1>1
    <2> HIDE DEF a
    <2> QED
      BY <2>1
  <1>4. ss = Append(q, a)
    <2>1. SubSeq(ss, 1, n) = Append(q, a)
      BY <1>1, PrefixIs
    <2>2. SubSeq(ss, 1, Len(ss)) = ss
      BY <1>1, PrefixIs
    <2> QED
      BY <1>0, <2>1, <2>2
  <1> HIDE DEF q, a, y
  <1>5. rr = Append(q, y)
    <2>1. /\ Append(q, y) \in Seq(Seq(S)) /\ Len(Append(q, y)) = n /\ Append(q, y)[n] = y
          /\ \A k \in 1..(n - 1) : Append(q, y)[k] = q[k]
      BY <1>0, <1>2, <1>3
    <2>2. \A k \in 1..n : k = n \/ k \in 1..(n - 1)
      BY <1>0
    <2>3. \A k \in 1..n : rr[k] = Append(q, y)[k]
      BY <1>0, <1>2, <2>1, <2>2
    <2> QED
      BY <1>0, <2>1, <2>3
  <1>6. f \in Seq(S) /\ FlattenSeq(ss) = f \o a /\ FlattenSeq(rr) = f \o y
    <2>1. f \in Seq(S)
      BY <1>2, FlattenTyped
    <2>2. FlattenSeq(Append(q, a)) = f \o a
      BY <1>2, <1>3, FlattenAppend
    <2>3. FlattenSeq(Append(q, y)) = f \o y
      BY <1>2, <1>3, FlattenAppend
    <2> QED
      BY <1>4, <1>5, <2>1, <2>2, <2>3
  <1> HIDE DEF f
  <1>7. (f \o a) \o x = f \o (a \o x)
    <2>1. f \in Seq(S) /\ a \in Seq(S) /\ x \in Seq(S)
      BY <1>3, <1>6
    <2> QED
      BY <2>1, ConcatAssociative, SMTT(30), ZenonT(60)
  <1> QED
    BY <1>6, <1>7 DEF y

(* Closing a chunk of m samples appends its places.                        *)
ClosedRuns(stsc, last, C, m) ==
    IF m = last THEN stsc ELSE Append(stsc, [first |-> C + 1, perChunk |-> m])

LEMMA CloseRun ==
    ASSUME NEW stsc, NEW last, NEW C, ChunksKept(stsc, last, C), NEW m \in Nat \ {0}
    PROVE  LET r == ClosedRuns(stsc, last, C, m)
           IN  /\ ChunksKept(r, m, C + 1)
               /\ Places(r, C + 1) = Places(stsc, C) \o ChunkPlaces(C + 1, m)
  <1> DEFINE n == Len(stsc)
             r == ClosedRuns(stsc, last, C, m)
             ss == [k \in DOMAIN stsc |-> RunPlaces(stsc, C, k)]
             rr == [k \in DOMAIN r |-> RunPlaces(r, C + 1, k)]
             x == ChunkPlaces(C + 1, m)
             init == SubSeq(ss, 1, n - 1)
  <1>0. /\ stsc \in Seq(ChunkRun) /\ C \in Nat /\ n \in Nat /\ DOMAIN stsc = 1..n
        /\ \A k \in 1..n : stsc[k].first \in Nat \ {0} /\ stsc[k].perChunk \in Nat \ {0}
        /\ \A k \in 1..n : RunLength(stsc, C, k) \in Nat
    BY KeptIs
  <1>1. ss \in Seq(Seq(Place)) /\ Len(ss) = n
    BY PlacesTyped
  <1>2. x \in Seq(Place)
    <2>1. C + 1 \in Nat /\ m \in Nat
      BY <1>0
    <2> QED
      BY <2>1, ChunkPlacesTyped
  <1> HIDE DEF ss, rr, x
  <1>a. n = Len(stsc)
    OBVIOUS
  <1>b. r = IF m = last THEN stsc ELSE Append(stsc, [first |-> C + 1, perChunk |-> m])
    BY DEF ClosedRuns
  <1> HIDE DEF n, r
  <1>3. CASE m = last
    <2>1. r = stsc /\ n >= 1 /\ stsc[n].perChunk = m /\ n \in 1..n
      <3>1. stsc # <<>>
        BY <1>3 DEF ChunksKept
      <3>2. n >= 1
        BY <3>1, <1>0, <1>a
      <3> QED
        BY <1>0, <1>3, <1>a, <1>b, <3>1, <3>2 DEF ChunksKept
    <2>2. \A k \in 1..(n - 1) : RunLength(stsc, C + 1, k) = RunLength(stsc, C, k)
      <3> SUFFICES ASSUME NEW k \in 1..(n - 1)
                   PROVE  RunLength(stsc, C + 1, k) = RunLength(stsc, C, k)
        OBVIOUS
      <3>1. k < Len(stsc)
        BY <1>0, <1>a
      <3> QED
        BY <3>1 DEF RunLength, RunEnd
    <2>3. RunLength(stsc, C + 1, n) = RunLength(stsc, C, n) + 1
      <3>1. RunEnd(stsc, C + 1, n) = C + 2 /\ RunEnd(stsc, C, n) = C + 1
        BY <1>0, <1>a DEF RunEnd
      <3>2. stsc[n].first \in Nat
        BY <1>0, <2>1
      <3> QED
        BY <1>0, <3>1, <3>2 DEF RunLength
    <2>4. ChunksKept(r, m, C + 1)
      <3>1. \A k \in 1..n : RunLength(stsc, C + 1, k) \in Nat
        <4> SUFFICES ASSUME NEW k \in 1..n PROVE RunLength(stsc, C + 1, k) \in Nat
          OBVIOUS
        <4>1. RunLength(stsc, C, k) \in Nat
          BY <1>0
        <4>2. k = n \/ k \in 1..(n - 1)
          BY <1>0
        <4> QED
          BY <2>2, <2>3, <4>1, <4>2
      <3>2. stsc # <<>>
        BY <1>a, <2>1
      <3> QED
        BY <1>0, <1>a, <2>1, <3>1, <3>2 DEF ChunksKept
    <2>5. \A k \in 1..(n - 1) : rr[k] = ss[k]
      <3> SUFFICES ASSUME NEW k \in 1..(n - 1) PROVE rr[k] = ss[k]
        OBVIOUS
      <3>1. k \in DOMAIN stsc /\ DOMAIN r = DOMAIN stsc
        BY <1>0, <2>1
      <3>2. rr[k] = RunPlaces(r, C + 1, k) /\ ss[k] = RunPlaces(stsc, C, k)
        BY <3>1 DEF rr, ss
      <3> QED
        BY <2>1, <2>2, <3>2 DEF RunPlaces
    <2>6. rr[n] = ss[n] \o x
      <3>1. /\ rr[n] = RunOf(stsc[n].first, m, RunLength(stsc, C, n) + 1)
            /\ ss[n] = RunOf(stsc[n].first, m, RunLength(stsc, C, n))
        <4>1. n \in DOMAIN stsc /\ DOMAIN r = DOMAIN stsc
          BY <1>0, <2>1
        <4>2. rr[n] = RunPlaces(r, C + 1, n) /\ ss[n] = RunPlaces(stsc, C, n)
          BY <4>1 DEF rr, ss
        <4> QED
          BY <2>1, <2>3, <4>2 DEF RunPlaces
      <3>2. /\ stsc[n].first \in Nat \ {0} /\ RunLength(stsc, C, n) \in Nat
            /\ stsc[n].first + RunLength(stsc, C, n) = C + 1
        <4>1. stsc[n].first \in Nat \ {0} /\ RunLength(stsc, C, n) \in Nat
          BY <1>0, <2>1
        <4>2. RunEnd(stsc, C, n) = C + 1
          BY <1>0, <1>a DEF RunEnd
        <4> QED
          BY <1>0, <4>1, <4>2 DEF RunLength
      <3> DEFINE f == stsc[n].first
                 l == RunLength(stsc, C, n)
      <3> HIDE DEF f, l
      <3>3. f \in Nat \ {0} /\ l \in Nat /\ m \in Nat /\ f + l = C + 1
        BY <3>2 DEF f, l
      <3>4. RunOf(f, m, l + 1) = RunOf(f, m, l) \o ChunkPlaces(f + l, m)
        BY <3>3, RunOfIs
      <3> QED
        BY <3>1, <3>3, <3>4 DEF f, l, x
    <2>7. rr \in Seq(Seq(Place)) /\ Len(rr) = n
      BY <1>a, <2>1, <2>4, PlacesTyped DEF rr
    <2>8. FlattenSeq(rr) = FlattenSeq(ss) \o x
      <3>1. LastGrows(ss, rr, x, n)
        BY <1>0, <1>1, <2>1, <2>5, <2>6, <2>7 DEF LastGrows
      <3> QED
        BY <1>1, <1>2, <2>7, <3>1, FlattenLonger
    <2> QED
      <3>1. /\ ChunksKept(r, m, C + 1)
            /\ Places(r, C + 1) = Places(stsc, C) \o ChunkPlaces(C + 1, m)
        BY <2>1, <2>4, <2>8 DEF Places, ss, rr, x
      <3> QED
        BY <3>1 DEF r
  <1>4. CASE m # last
    <2> DEFINE run == [first |-> C + 1, perChunk |-> m]
    <2>1. r = Append(stsc, run) /\ run \in ChunkRun
      BY <1>0, <1>4, <1>b DEF ChunkRun
    <2>2. /\ r \in Seq(ChunkRun) /\ Len(r) = n + 1 /\ DOMAIN r = 1..(n + 1)
          /\ \A k \in 1..n : r[k] = stsc[k]
          /\ r[n + 1].first = C + 1 /\ r[n + 1].perChunk = m
      <3>1. run.first = C + 1 /\ run.perChunk = m
        OBVIOUS
      <3> HIDE DEF run
      <3>2. /\ r \in Seq(ChunkRun) /\ Len(r) = n + 1 /\ DOMAIN r = 1..(n + 1)
            /\ \A k \in 1..n : r[k] = stsc[k]
            /\ r[n + 1] = run
        BY <1>0, <1>a, <2>1
      <3> QED
        BY <3>1, <3>2
    <2> HIDE DEF run
    <2>3. ASSUME NEW k \in 1..n PROVE RunLength(r, C + 1, k) = RunLength(stsc, C, k)
      <3>1. CASE k < n
        <4>1. k + 1 \in 1..n /\ k \in 1..n /\ k < n + 1
          BY <1>0, <3>1
        <4> QED
          BY <1>0, <1>a, <2>2, <3>1, <4>1 DEF RunLength, RunEnd
      <3>2. CASE k = n
        <4>1. RunEnd(r, C + 1, k) = C + 1 /\ RunEnd(stsc, C, k) = C + 1
          <5>1. k < Len(r) /\ ~(k < Len(stsc)) /\ r[k + 1].first = C + 1
            BY <1>0, <1>a, <2>2, <3>2
          <5> QED
            BY <5>1 DEF RunEnd
        <4>2. r[k] = stsc[k]
          BY <2>2
        <4> QED
          BY <4>1, <4>2 DEF RunLength
      <3> QED
        BY <1>0, <3>1, <3>2
    <2>4. RunLength(r, C + 1, n + 1) = 1
      <3>1. RunEnd(r, C + 1, n + 1) = C + 2
        BY <1>0, <2>2 DEF RunEnd
      <3> QED
        BY <1>0, <2>2, <3>1 DEF RunLength
    <2>5. ChunksKept(r, m, C + 1)
      <3>1. \A k \in 1..(n + 1) : RunLength(r, C + 1, k) \in Nat
        <4> SUFFICES ASSUME NEW k \in 1..(n + 1) PROVE RunLength(r, C + 1, k) \in Nat
          OBVIOUS
        <4>1. k = n + 1 \/ k \in 1..n
          BY <1>0
        <4>2. CASE k \in 1..n
          <5>1. RunLength(r, C + 1, k) = RunLength(stsc, C, k)
            BY <2>3, <4>2
          <5> QED
            BY <1>0, <4>2, <5>1
        <4>3. CASE k = n + 1
          BY <2>4, <4>3
        <4> QED
          BY <4>1, <4>2, <4>3
      <3>2. r # <<>>
        <4>1. Len(r) # 0
          BY <1>0, <2>2
        <4> QED
          BY <4>1
      <3> QED
        BY <1>0, <2>2, <3>1, <3>2 DEF ChunksKept
    <2>6. \A k \in 1..n : rr[k] = ss[k]
      <3> SUFFICES ASSUME NEW k \in 1..n PROVE rr[k] = ss[k]
        OBVIOUS
      <3>1. k \in DOMAIN r /\ k \in DOMAIN stsc /\ r[k] = stsc[k]
        <4>1. k \in 1..(n + 1)
          BY <1>0
        <4>2. k \in DOMAIN r
          BY <2>2, <4>1
        <4>3. k \in DOMAIN stsc
          BY <1>0
        <4> QED
          BY <2>2, <4>2, <4>3
      <3>2. rr[k] = RunPlaces(r, C + 1, k) /\ ss[k] = RunPlaces(stsc, C, k)
        BY <3>1 DEF rr, ss
      <3> QED
        BY <2>3, <3>1, <3>2 DEF RunPlaces
    <2>7. rr[n + 1] = x
      <3>1. n + 1 \in DOMAIN r
        BY <1>0, <2>2
      <3>2. rr[n + 1] = RunOf(C + 1, m, 1)
        BY <2>2, <2>4, <3>1 DEF RunPlaces, rr
      <3>3. C + 1 \in Nat \ {0} /\ m \in Nat /\ C + 1 + 0 = C + 1
        BY <1>0
      <3> DEFINE f == C + 1
      <3>4. RunOf(f, m, 0 + 1) = RunOf(f, m, 0) \o ChunkPlaces(f + 0, m) /\ RunOf(f, m, 0) = <<>>
        <4> HIDE DEF f
        <4> QED
          BY <3>3, RunOfIs DEF f
      <3>5. <<>> \o x = x
        BY <1>2
      <3>6. f + 0 = C + 1 /\ 0 + 1 = 1
        BY <3>3
      <3> QED
        BY <3>2, <3>4, <3>5, <3>6 DEF x
    <2>8. rr \in Seq(Seq(Place)) /\ Len(rr) = n + 1
      <3>1. /\ [k \in DOMAIN r |-> RunPlaces(r, C + 1, k)] \in Seq(Seq(Place))
            /\ Len([k \in DOMAIN r |-> RunPlaces(r, C + 1, k)]) = Len(r)
        BY <2>5, PlacesTyped
      <3> QED
        BY <2>2, <3>1 DEF rr
    <2>9. rr = Append(ss, x)
      <3>1. /\ Append(ss, x) \in Seq(Seq(Place)) /\ Len(Append(ss, x)) = n + 1
            /\ Append(ss, x)[n + 1] = x /\ \A k \in 1..n : Append(ss, x)[k] = ss[k]
        BY <1>0, <1>1, <1>2
      <3>2. \A k \in 1..(n + 1) : rr[k] = Append(ss, x)[k]
        <4>1. \A k \in 1..(n + 1) : k = n + 1 \/ k \in 1..n
          BY <1>0
        <4> QED
          BY <2>6, <2>7, <3>1, <4>1
      <3> QED
        BY <2>8, <3>1, <3>2
    <2>10. FlattenSeq(rr) = FlattenSeq(ss) \o x
      BY <1>1, <1>2, <2>9, FlattenAppend
    <2> QED
      <3>1. /\ ChunksKept(r, m, C + 1)
            /\ Places(r, C + 1) = Places(stsc, C) \o ChunkPlaces(C + 1, m)
        BY <2>5, <2>10 DEF Places, ss, rr, x
      <3> QED
        BY <3>1 DEF r
  <1> QED
    BY <1>3, <1>4

(***************************************************************************)
(* The chunks of a track, closed and open: where its samples are placed.   *)
(***************************************************************************)
Full(tr) ==
    Places(tr.stsc, tr.chunkCount)
        \o ChunkPlaces(tr.chunkCount + 1, tr.currentChunkSamples)
Shaped(tr) ==
    /\ ChunksKept(tr.stsc, tr.lastSamplesPerChunk, tr.chunkCount)
    /\ \A k \in 1..Len(tr.stsc) : tr.stsc[k].perChunk <= Len(Full(tr))

LEMMA FullIs ==
    ASSUME NEW tr, Timed(tr), Shaped(tr)
    PROVE  /\ Full(tr) \in Seq(Place) /\ Len(Full(tr)) \in Nat
           /\ Len(Full(tr)) = Len(Places(tr.stsc, tr.chunkCount)) + tr.currentChunkSamples
           /\ \A j \in 1..tr.currentChunkSamples :
                Full(tr)[Len(Places(tr.stsc, tr.chunkCount)) + j]
                  = [chunk |-> tr.chunkCount + 1, nth |-> j - 1]
  <1> DEFINE a == Places(tr.stsc, tr.chunkCount)
             c == tr.chunkCount + 1
             m == tr.currentChunkSamples
             b == ChunkPlaces(c, m)
  <1>1. a \in Seq(Place)
    BY PlacesTyped DEF Shaped
  <1>2. c \in Nat /\ m \in Nat
    BY DEF Timed, TrackState
  <1> HIDE DEF c, m
  <1>3. b \in Seq(Place) /\ Len(b) = m /\ \A j \in 1..m : b[j] = [chunk |-> c, nth |-> j - 1]
    BY <1>2, ChunkPlacesTyped
  <1>4. Full(tr) = a \o b
    BY DEF Full, a, b, c, m
  <1> HIDE DEF a, b
  <1>5. /\ a \o b \in Seq(Place) /\ Len(a \o b) = Len(a) + m /\ Len(a \o b) \in Nat
        /\ \A j \in 1..m : (a \o b)[Len(a) + j] = b[j]
    BY <1>1, <1>2, <1>3
  <1>6. \A j \in 1..m : (a \o b)[Len(a) + j] = [chunk |-> c, nth |-> j - 1]
    BY <1>3, <1>5
  <1> QED
    BY <1>4, <1>5, <1>6 DEF a, c, m

(* What no record of a sample but its place touches. *)
LEMMA SameShape ==
    ASSUME NEW tr, Shaped(tr), NEW r,
           r.stsc = tr.stsc, r.lastSamplesPerChunk = tr.lastSamplesPerChunk,
           r.chunkCount = tr.chunkCount, r.currentChunkSamples = tr.currentChunkSamples
    PROVE  Shaped(r) /\ Full(r) = Full(tr)
  <1>1. Full(r) = Full(tr)
    BY DEF Full
  <1> QED
    BY <1>1 DEF Shaped

(* Closing a chunk moves no sample. *)
LEMMA CloseShape ==
    ASSUME NEW tr, Timed(tr), Shaped(tr)
    PROVE  /\ Shaped(CloseChunk(tr)) /\ Full(CloseChunk(tr)) = Full(tr)
           /\ CloseChunk(tr).currentChunkSamples = 0
  <1>1. CASE tr.currentChunkSamples = 0
    BY <1>1 DEF CloseChunk
  <1>2. CASE tr.currentChunkSamples # 0
    <2> DEFINE r == CloseChunk(tr)
               m == tr.currentChunkSamples
               C == tr.chunkCount
               last == tr.lastSamplesPerChunk
               old == tr.stsc
               new == ClosedRuns(old, last, C, m)
               P == Full(tr)
    <2>1. /\ r.stsc = new /\ r.chunkCount = C + 1 /\ r.lastSamplesPerChunk = m
          /\ r.currentChunkSamples = 0
      BY <1>2 DEF CloseChunk, ClosedRuns, Timed, TrackState
    <2>2. m \in Nat \ {0} /\ C \in Nat /\ ChunksKept(old, last, C)
      BY <1>2 DEF Timed, TrackState, Shaped
    <2>3. P = Places(old, C) \o ChunkPlaces(C + 1, m)
      BY DEF Full
    <2>4. /\ P \in Seq(Place) /\ Len(P) = Len(Places(old, C)) + m
          /\ \A k \in 1..Len(old) : old[k].perChunk <= Len(P)
          /\ Places(old, C) \in Seq(Place)
      BY <2>2, FullIs, PlacesTyped DEF Shaped
    <2> HIDE DEF r, m, C, last, old, P
    <2>5. ChunksKept(new, m, C + 1) /\ Places(new, C + 1) = P
      <3>1. /\ ChunksKept(new, m, C + 1)
            /\ Places(new, C + 1) = Places(old, C) \o ChunkPlaces(C + 1, m)
        BY <2>2, CloseRun
      <3> QED
        BY <2>3, <3>1
    <2>6. Full(r) = P
      <3>1. ChunkPlaces(C + 1 + 1, 0) = <<>>
        BY DEF ChunkPlaces
      <3>2. Full(r) = Places(new, C + 1) \o ChunkPlaces(C + 1 + 1, 0)
        BY <2>1 DEF Full
      <3>3. P \o <<>> = P
        BY <2>4, ConcatEmptySeq
      <3> QED
        BY <2>5, <3>1, <3>2, <3>3
    <2>7. \A k \in 1..Len(new) : new[k].perChunk <= Len(P)
      <3>1. m <= Len(P)
        BY <2>2, <2>4
      <3>2. CASE m = last
        BY <2>4, <3>2 DEF ClosedRuns
      <3>3. CASE m # last
        <4> DEFINE x == [first |-> C + 1, perChunk |-> m]
        <4>1. x \in ChunkRun /\ x.perChunk = m
          BY <2>2 DEF ChunkRun
        <4> HIDE DEF x
        <4>2. new = Append(old, x)
          BY <3>3 DEF x, ClosedRuns
        <4>3. old \in Seq(ChunkRun)
          BY <2>2 DEF ChunksKept
        <4> HIDE DEF new
        <4>4. /\ Len(new) = Len(old) + 1 /\ new[Len(old) + 1] = x /\ Len(old) \in Nat
              /\ \A k \in 1..Len(old) : new[k] = old[k]
          BY <4>1, <4>2, <4>3
        <4>5. \A k \in 1..(Len(old) + 1) : k = Len(old) + 1 \/ k \in 1..Len(old)
          BY <4>4
        <4> QED
          BY <2>4, <3>1, <4>1, <4>4, <4>5
      <3> QED
        BY <3>2, <3>3
    <2> HIDE DEF new
    <2>8. Shaped(r)
      BY <2>1, <2>5, <2>6, <2>7 DEF Shaped
    <2> QED
      BY <2>1, <2>6, <2>8 DEF r, P
  <1> QED
    BY <1>1, <1>2

(* A sample that joins the open chunk, or opens one, is placed last.       *)
LEMMA JoinShape ==
    ASSUME NEW tr, Timed(tr), Shaped(tr), NEW offset
    PROVE  LET r == JoinChunk(tr, offset)
           IN  /\ Shaped(r) /\ r.currentChunkSamples = tr.currentChunkSamples + 1
               /\ Full(r) = Append(Full(tr), [chunk |-> tr.chunkCount + 1,
                                              nth |-> tr.currentChunkSamples])
  <1> DEFINE r == JoinChunk(tr, offset)
             m == tr.currentChunkSamples
             c == tr.chunkCount + 1
             a == Places(tr.stsc, tr.chunkCount)
             x == [chunk |-> c, nth |-> m]
             b == ChunkPlaces(c, m)
             d == ChunkPlaces(c, m + 1)
  <1>1. /\ r.stsc = tr.stsc /\ r.chunkCount = tr.chunkCount
        /\ r.lastSamplesPerChunk = tr.lastSamplesPerChunk /\ r.currentChunkSamples = m + 1
    BY DEF JoinChunk, Timed, TrackState
  <1>2. m \in Nat /\ c \in Nat /\ a \in Seq(Place)
    <2>1. m \in Nat /\ c \in Nat
      BY DEF Timed, TrackState
    <2>2. a \in Seq(Place)
      BY PlacesTyped DEF Shaped
    <2> QED
      BY <2>1, <2>2
  <1>3. Full(r) = a \o d /\ Full(tr) = a \o b
    BY <1>1 DEF Full
  <1> HIDE DEF r, m, c, a
  <1>4. /\ b \in Seq(Place) /\ Len(b) = m /\ \A j \in 1..m : b[j] = [chunk |-> c, nth |-> j - 1]
        /\ d \in Seq(Place) /\ Len(d) = m + 1
        /\ \A j \in 1..(m + 1) : d[j] = [chunk |-> c, nth |-> j - 1]
    <2>1. m + 1 \in Nat
      BY <1>2
    <2> QED
      BY <1>2, <2>1, ChunkPlacesTyped
  <1>5. x \in Place
    BY <1>2 DEF Place
  <1>6. d[m + 1] = x
    <2>1. m + 1 \in 1..(m + 1) /\ m + 1 - 1 = m
      BY <1>2
    <2> QED
      BY <1>4, <2>1
  <1> HIDE DEF b, d, x
  <1>7. d = Append(b, x)
    <2>1. /\ Len(Append(b, x)) = m + 1 /\ Append(b, x)[m + 1] = x
          /\ Append(b, x) \in Seq(Place) /\ \A j \in 1..m : Append(b, x)[j] = b[j]
      BY <1>2, <1>4, <1>5
    <2>2. \A j \in 1..(m + 1) : d[j] = Append(b, x)[j]
      <3>1. \A j \in 1..(m + 1) : j = m + 1 \/ j \in 1..m
        BY <1>2
      <3> QED
        BY <1>4, <1>6, <2>1, <3>1
    <2> QED
      BY <1>4, <2>1, <2>2
  <1>8. a \o Append(b, x) = Append(a \o b, x)
    BY <1>2, <1>4, <1>5
  <1>9. Full(r) = Append(Full(tr), x)
    BY <1>3, <1>7, <1>8
  <1>10. Shaped(r)
    <2>1. Full(tr) \in Seq(Place)
      BY FullIs
    <2>2. Len(Full(r)) = Len(Full(tr)) + 1 /\ Len(Full(tr)) \in Nat
      BY <1>5, <1>9, <2>1
    <2>3. \A k \in 1..Len(tr.stsc) : tr.stsc[k].perChunk \in Nat /\ tr.stsc[k].perChunk <= Len(Full(tr))
      BY KeptIs DEF Shaped
    <2> QED
      BY <1>1, <2>2, <2>3 DEF Shaped
  <1> QED
    BY <1>1, <1>9, <1>10 DEF r, x, m, c

(* All that a packet records of its sample, for the track it is of.        *)
Recorded(tr, p, offset) ==
    RecordPresentation(RecordPlace(RecordDecoding(tr, p), p, offset), p,
                       ComputeDelta(tr, p))
Ends(o, t, m, p) ==
    IF o.chunking = "sampleCount" THEN m >= o.perChunk[t] ELSE p.boundary

LEMMA RecordedShape ==
    ASSUME NEW p \in Packets, opts \in Options, NEW tr, Timed(tr), Shaped(tr),
           NEW offset \in Nat
    PROVE  LET r == Recorded(tr, p, offset)
               m == tr.currentChunkSamples
           IN  /\ Shaped(r)
               /\ Full(r) = Append(Full(tr), [chunk |-> tr.chunkCount + 1, nth |-> m])
               /\ r.currentChunkSamples = IF Ends(opts, p.track, m + 1, p) THEN 0 ELSE m + 1
  <1> DEFINE m == tr.currentChunkSamples
             place == [chunk |-> tr.chunkCount + 1, nth |-> m]
             decoded == RecordDecoding(tr, p)
             noted ==
               [decoded EXCEPT
                  !.ctts = PushRun(@, CompositionOffset(p)),
                  !.keyframes = IF p.key THEN Append(@, decoded.nextSampleIndex + 1) ELSE @]
             joined == JoinChunk(noted, offset)
             placed == RecordPlace(decoded, p, offset)
             delta == ComputeDelta(tr, p)
             r == RecordPresentation(placed, p, delta)
  <1>1. /\ Timed(decoded) /\ decoded.stsc = tr.stsc /\ decoded.chunkCount = tr.chunkCount
        /\ decoded.lastSamplesPerChunk = tr.lastSamplesPerChunk
        /\ decoded.currentChunkSamples = m
    <2>1. Timed(decoded)
      BY RecordDecodingTimed
    <2>2. /\ decoded.stsc = tr.stsc /\ decoded.chunkCount = tr.chunkCount
          /\ decoded.lastSamplesPerChunk = tr.lastSamplesPerChunk
          /\ decoded.currentChunkSamples = m
      BY DEF RecordDecoding, Timed, TrackState
    <2> QED
      BY <2>1, <2>2
  <1>2. placed = IF ChunkEnds(joined, p) THEN CloseChunk(joined) ELSE joined
    BY Zenon DEF RecordPlace
  <1> HIDE DEF decoded, placed
  <1>3. Timed(noted)
    <2> DEFINE ctts == PushRun(decoded.ctts, CompositionOffset(p))
               keys == IF p.key THEN Append(decoded.keyframes, decoded.nextSampleIndex + 1)
                                ELSE decoded.keyframes
               one == [decoded EXCEPT !.ctts = ctts]
    <2>1. decoded.ctts \in Seq(Run) /\ decoded.keyframes \in Seq(Nat \ {0})
          /\ decoded.nextSampleIndex \in Nat
      BY <1>1 DEF Timed, TrackState
    <2>2. CompositionOffset(p) \in Int
      <3>1. PtsOf(p) \in SUBSET Int /\ DtsOf(p) \in SUBSET Int
        BY PacketIs
      <3>2. ValueOf(PtsOf(p), 0) \in Int /\ ValueOf(DtsOf(p), 0) \in Int
        BY <3>1, ValueInt
      <3> QED
        BY <3>2 DEF CompositionOffset
    <2>3. ctts \in Seq(Run)
      BY <2>1, <2>2, PushRunTyped
    <2>4. keys \in Seq(Nat \ {0})
      <3>1. decoded.nextSampleIndex + 1 \in Nat \ {0}
        BY <2>1
      <3> QED
        BY <2>1, <3>1
    <2>5. noted = [one EXCEPT !.keyframes = keys]
      BY <1>1 DEF Timed, TrackState
    <2> HIDE DEF ctts, keys, noted
    <2>6. /\ one \in TrackState /\ one.prevPts = decoded.prevPts /\ one.prevDts = decoded.prevDts
      BY <1>1, <2>3 DEF Timed, TrackState
    <2> HIDE DEF one
    <2>7. noted \in TrackState /\ noted.prevPts = one.prevPts /\ noted.prevDts = one.prevDts
      BY <2>4, <2>5, <2>6 DEF TrackState
    <2> QED
      BY <1>1, <2>6, <2>7 DEF Timed
  <1>4. /\ noted.stsc = tr.stsc /\ noted.chunkCount = tr.chunkCount
        /\ noted.lastSamplesPerChunk = tr.lastSamplesPerChunk /\ noted.currentChunkSamples = m
    BY <1>1 DEF Timed, TrackState
  <1> HIDE DEF noted
  <1>5. Shaped(noted) /\ Full(noted) = Full(tr)
    BY <1>4, SameShape
  <1>6. /\ Shaped(joined) /\ joined.currentChunkSamples = m + 1
        /\ Full(joined) = Append(Full(tr), place) /\ Timed(joined)
    BY <1>3, <1>4, <1>5, JoinShape, JoinChunkTimed
  <1>7. ChunkEnds(joined, p) <=> Ends(opts, p.track, m + 1, p)
    BY <1>6 DEF ChunkEnds, Ends
  <1> HIDE DEF joined, m, place
  <1>8. /\ Shaped(placed) /\ Full(placed) = Append(Full(tr), place)
        /\ placed.currentChunkSamples = IF Ends(opts, p.track, m + 1, p) THEN 0 ELSE m + 1
        /\ Timed(placed)
    BY <1>2, <1>6, <1>7, CloseShape, CloseChunkTimed
  <1>9. /\ r.stsc = placed.stsc /\ r.chunkCount = placed.chunkCount
        /\ r.lastSamplesPerChunk = placed.lastSamplesPerChunk
        /\ r.currentChunkSamples = placed.currentChunkSamples
    BY <1>8 DEF RecordPresentation, Timed, TrackState
  <1> HIDE DEF r
  <1>10. Shaped(r) /\ Full(r) = Full(placed)
    BY <1>8, <1>9, SameShape
  <1> QED
    BY <1>8, <1>9, <1>10 DEF r, Recorded, m, place, placed, decoded, delta

(***************************************************************************)
(* Why the chunks of a track end.  c is the number of calls so far; a      *)
(* track whose chunk is closed has a reason for it, unless a trailer was   *)
(* tried, after which no packet comes that a file survives.                *)
(***************************************************************************)
Counted(o) == o.chunking = "sampleCount"
Target(o, t) == Max({o.perChunk[t], 1})
EndsAfter(o, t, x, place) == Ends(o, t, place.nth + 1, x.packet)
Reasoned(o, t, P, L, c) ==
    /\ IsSeq(L) /\ Len(P) = Len(L)
    /\ \A k \in 2..Len(L) :
          P[k].nth = 0 => \/ L[k].call # L[k - 1].call + 1
                          \/ EndsAfter(o, t, L[k - 1], P[k - 1])
    /\ \A k \in 1..Len(L) : Counted(o) => P[k].nth < Target(o, t)
    /\ \A k \in 1..Len(L) : L[k].call \in Nat /\ L[k].call <= c
Poised(o, t, m, P, L, c) ==
    /\ m = 0 /\ Len(L) >= 1 => \/ c > L[Len(L)].call
                               \/ EndsAfter(o, t, L[Len(L)], P[Len(L)])
    /\ m > 0 /\ Counted(o) => m < o.perChunk[t]

LEMMA TargetIs ==
    ASSUME NEW o \in Options, NEW t \in Track
    PROVE  o.perChunk[t] \in Nat /\ Target(o, t) \in Nat
           /\ Target(o, t) >= 1 /\ Target(o, t) >= o.perChunk[t]
  <1>1. o.perChunk[t] \in Nat
    BY ProgOptionsAssumption
  <1>2. Target(o, t) = IF o.perChunk[t] >= 1 THEN o.perChunk[t] ELSE 1
    <2> DEFINE n == o.perChunk[t]
               S == {n, 1}
               m == IF n >= 1 THEN n ELSE 1
    <2>1. m \in S /\ \A x \in S : m >= x
      BY <1>1
    <2>2. \A x \in S : (\A y \in S : x >= y) => x = m
      BY <1>1
    <2>3. (CHOOSE x \in S : \A y \in S : x >= y) = m
      BY <2>1, <2>2
    <2> QED
      BY <2>3 DEF Target, Max
  <1> QED
    BY <1>1, <1>2

(* Another call came. *)
LEMMA LaterCall ==
    ASSUME NEW o, NEW t, NEW P, NEW L, NEW c \in Nat, Reasoned(o, t, P, L, c)
    PROVE  /\ Reasoned(o, t, P, L, c + 1)
           /\ Len(L) >= 1 => c + 1 > L[Len(L)].call
  <1>1. Len(L) \in Nat
    BY DEF Reasoned, IsSeq
  <1>2. \A k \in 1..Len(L) : L[k].call \in Nat /\ L[k].call <= c
    BY DEF Reasoned
  <1> QED
    BY <1>1, <1>2 DEF Reasoned

(* A sample of the track was written. *)
LEMMA OneMoreSample ==
    ASSUME NEW o \in Options, NEW t \in Track, NEW P \in Seq(Place), NEW L, NEW c \in Nat,
           Reasoned(o, t, P, L, c), NEW m \in Nat, Poised(o, t, m, P, L, c),
           NEW C \in Nat, NEW x, x.call = c + 1,
           NEW n, n = IF Ends(o, t, m + 1, x.packet) THEN 0 ELSE m + 1
    PROVE  /\ Reasoned(o, t, Append(P, [chunk |-> C, nth |-> m]), Append(L, x), c + 1)
           /\ Poised(o, t, n, Append(P, [chunk |-> C, nth |-> m]), Append(L, x), c + 1)
  <1> DEFINE place == [chunk |-> C, nth |-> m]
             Q == Append(P, place)
             M == Append(L, x)
             N == Len(L)
  <1>1. place \in Place /\ place.nth = m
    BY DEF Place
  <1> HIDE DEF place
  <1>2. N \in Nat /\ IsSeq(L) /\ IsSeq(M) /\ Len(M) = N + 1 /\ Len(P) = N
    <2>1. IsSeq(L) /\ Len(P) = N
      BY DEF Reasoned
    <2>2. N \in Nat
      BY <2>1
    <2>3. IsSeq(M) /\ Len(M) = N + 1
      BY <2>1, AppendIsSeq
    <2> QED
      BY <2>1, <2>2, <2>3
  <1>3. M[N + 1] = x /\ \A k \in 1..N : M[k] = L[k]
    <2>1. PICK S : L \in Seq(S)
      BY <1>2 DEF IsSeq
    <2> QED
      BY <2>1
  <1>4. Q \in Seq(Place) /\ Len(Q) = N + 1 /\ Q[N + 1] = place /\ \A k \in 1..N : Q[k] = P[k]
    BY <1>1, <1>2
  <1> HIDE DEF Q, M, N
  <1>5. \A k \in 1..(N + 1) : k = N + 1 \/ k \in 1..N
    BY <1>2
  <1>6. \A k \in 1..N : L[k].call \in Nat /\ L[k].call <= c
    BY DEF Reasoned, N
  <1>7. \A k \in 1..(N + 1) : M[k].call \in Nat /\ M[k].call <= c + 1
    <2> SUFFICES ASSUME NEW k \in 1..(N + 1) PROVE M[k].call \in Nat /\ M[k].call <= c + 1
      OBVIOUS
    <2>1. CASE k = N + 1
      BY <1>3, <2>1
    <2>2. CASE k \in 1..N
      BY <1>3, <1>6, <2>2
    <2> QED
      BY <1>5, <2>1, <2>2
  <1>8. Counted(o) => m < Target(o, t)
    BY TargetIs DEF Poised
  <1>9. \A k \in 1..(N + 1) : Counted(o) => Q[k].nth < Target(o, t)
    <2> SUFFICES ASSUME NEW k \in 1..(N + 1), Counted(o) PROVE Q[k].nth < Target(o, t)
      OBVIOUS
    <2>1. CASE k = N + 1
      BY <1>1, <1>4, <1>8, <2>1
    <2>2. CASE k \in 1..N
      BY <1>4, <2>2 DEF Reasoned, N
    <2> QED
      BY <1>5, <2>1, <2>2
  <1>10. ASSUME NEW k \in 2..(N + 1), Q[k].nth = 0
         PROVE  M[k].call # M[k - 1].call + 1 \/ EndsAfter(o, t, M[k - 1], Q[k - 1])
    <2>1. CASE k = N + 1
      <3>1. k - 1 = N /\ N \in 1..N /\ N >= 1 /\ m = 0
        BY <1>1, <1>2, <1>4, <1>10, <2>1
      <3>2. M[k] = x /\ M[k - 1] = L[N] /\ Q[k - 1] = P[N]
        BY <1>3, <1>4, <2>1, <3>1
      <3>3. c > L[N].call \/ EndsAfter(o, t, L[N], P[N])
        BY <3>1 DEF Poised, N
      <3>4. L[N].call \in Nat
        BY <1>6, <3>1
      <3> QED
        BY <3>2, <3>3, <3>4
    <2>2. CASE k \in 1..N
      <3>1. k \in 2..N /\ k - 1 \in 1..N
        BY <1>2, <1>10, <2>2
      <3>2. M[k] = L[k] /\ M[k - 1] = L[k - 1] /\ Q[k] = P[k] /\ Q[k - 1] = P[k - 1]
        BY <1>3, <1>4, <2>2, <3>1
      <3> QED
        BY <1>10, <3>1, <3>2 DEF Reasoned, N
    <2>3. k = N + 1 \/ k \in 1..N
      BY <1>2, <1>10
    <2> QED
      BY <2>1, <2>2, <2>3
  <1>11. Reasoned(o, t, Q, M, c + 1)
    BY <1>2, <1>4, <1>7, <1>9, <1>10 DEF Reasoned
  <1>12. Poised(o, t, n, Q, M, c + 1)
    <2>1. ASSUME n = 0 PROVE EndsAfter(o, t, M[N + 1], Q[N + 1])
      <3>1. Ends(o, t, m + 1, x.packet)
        BY <2>1
      <3> QED
        BY <1>1, <1>3, <1>4, <3>1 DEF EndsAfter
    <2>2. ASSUME n > 0, Counted(o) PROVE n < o.perChunk[t]
      <3>1. ~Ends(o, t, m + 1, x.packet) /\ n = m + 1
        BY <2>2
      <3> QED
        BY <2>2, <3>1, TargetIs DEF Ends, Counted
    <2> QED
      BY <1>2, <2>1, <2>2 DEF Poised
  <1> QED
    BY <1>11, <1>12 DEF Q, M, place

(***************************************************************************)
(* The calls.                                                              *)
(***************************************************************************)
Chunked(o, t, tr, L, c, settled) ==
    /\ Shaped(tr) /\ Reasoned(o, t, Full(tr), L, c)
    /\ settled \/ Poised(o, t, tr.currentChunkSamples, Full(tr), L, c)
Settling == "trailer" \in mishaps
ChunkInv ==
    /\ log = [t \in Track |-> log[t]]
    /\ trailerWritten => Settling
    /\ Undamaged =>
         /\ \A t \in Track : Chunked(opts, t, track[t], log[t], calls, Settling)
         /\ Settling => \A t \in Track : track[t].currentChunkSamples = 0

(* Another call came, and its packet may have closed the chunk.            *)
LEMMA OtherChunked ==
    ASSUME NEW o, NEW t, NEW tr, NEW L, NEW c \in Nat, Chunked(o, t, tr, L, c, FALSE),
           Timed(tr), NEW r \in {tr, CloseChunk(tr)}
    PROVE  Chunked(o, t, r, L, c + 1, FALSE)
  <1>1. Shaped(tr) /\ Reasoned(o, t, Full(tr), L, c)
    BY DEF Chunked
  <1>2. Shaped(r) /\ Full(r) = Full(tr) /\ r.currentChunkSamples \in {0, tr.currentChunkSamples}
    BY <1>1, CloseShape
  <1>3. /\ Reasoned(o, t, Full(tr), L, c + 1)
        /\ Len(L) >= 1 => c + 1 > L[Len(L)].call
    BY <1>1, LaterCall
  <1>4. Poised(o, t, tr.currentChunkSamples, Full(tr), L, c)
    BY DEF Chunked
  <1>5. Poised(o, t, r.currentChunkSamples, Full(r), L, c + 1)
    BY <1>2, <1>3, <1>4 DEF Poised
  <1> QED
    BY <1>2, <1>3, <1>5 DEF Chunked

LEMMA SwitchIs ==
    ASSUME NEW t, NEW u \in Track
    PROVE  /\ SwitchTo(t)[u] \in {track[u], CloseChunk(track[u])}
           /\ u = t => SwitchTo(t)[u] = track[u]
  BY DEF SwitchTo

(* While no trailer was tried, ChunkInv says this of the tracks.            *)
LEMMA OpenChunked ==
    ASSUME ChunkInv, Undamaged, ~Settling
    PROVE  \A u \in Track : Chunked(opts, u, track[u], log[u], calls, FALSE)
  <1> SUFFICES ASSUME NEW u \in Track
               PROVE  Chunked(opts, u, track[u], log[u], calls, FALSE)
    OBVIOUS
  <1>1. Chunked(opts, u, track[u], log[u], calls, Settling)
    BY DEF ChunkInv
  <1> QED
    BY <1>1 DEF Chunked

LEMMA StillChunked ==
    ASSUME log' = [u \in Track |-> log'[u]], trailerWritten' => Settling',
           opts' = opts, calls' = calls + 1,
           Undamaged' =>
             /\ ~Settling'
             /\ \A u \in Track : Chunked(opts, u, track'[u], log'[u], calls + 1, FALSE)
    PROVE  ChunkInv'
  <1>1. ASSUME Undamaged', NEW u \in Track
        PROVE  Chunked(opts, u, track'[u], log'[u], calls + 1, Settling')
    <2>1. Chunked(opts, u, track'[u], log'[u], calls + 1, FALSE)
      BY <1>1
    <2> QED
      BY <2>1 DEF Chunked
  <1>2. ASSUME Undamaged', NEW u \in Track
        PROVE  Chunked(opts', u, track'[u], log'[u], calls', Settling')
    BY <1>1, <1>2
  <1> QED
    BY <1>2 DEF ChunkInv

LEMMA ChunksAfterPacket ==
    ASSUME ProgInv, ChunkInv, NEW p \in Packets, WritePacket(p)
    PROVE  ChunkInv'
  <1> DEFINE t == p.track
             old == SwitchTo(t)
             at == mdatStartOffset + mdatBytes
             new == Recorded(track[t], p, at)
             x == LogEntry(p)
  <1>1. t \in Track /\ opts \in Options /\ at \in Nat /\ calls \in Nat
    BY PacketIs, TypedParts
  <1>2. old = [u \in Track |-> old[u]] /\ old[t] = track[t]
    BY <1>1, SwitchToTimed, SwitchIs
  <1>3. track' = [old EXCEPT ![t] = new]
    BY <1>2 DEF WritePacket, Recorded
  <1>4. /\ log' = [log EXCEPT ![t] = Append(@, x)] /\ calls' = calls + 1
        /\ mishaps' = mishaps \cup Late /\ UNCHANGED <<opts, trailerWritten>>
    BY DEF WritePacket
  <1>5. x.call = calls + 1 /\ x.packet = p
    BY DEF LogEntry
  <1>6. /\ trailerWritten' => Settling'
        /\ log = [u \in Track |-> log[u]] /\ log' = [u \in Track |-> log'[u]]
    <2>1. log = [u \in Track |-> log[u]]
      BY DEF ChunkInv
    <2>2. log' = [u \in Track |-> log'[u]]
      BY <1>4, <2>1
    <2> QED
      BY <1>4, <2>1, <2>2 DEF ChunkInv, Settling
  <1>7. SUFFICES ASSUME Undamaged'
                 PROVE  /\ ~Settling'
                        /\ \A u \in Track : Chunked(opts, u, track'[u], log'[u], calls + 1, FALSE)
    BY <1>4, <1>6, StillChunked
  <1>8. Undamaged /\ ~Settling /\ ~Settling'
    BY <1>4, <1>7 DEF Undamaged, Late, Settling
  <1>9. \A u \in Track : Chunked(opts, u, track[u], log[u], calls, FALSE)
    BY <1>8, OpenChunked
  <1>10. ASSUME NEW u \in Track, u # t
         PROVE  Chunked(opts, u, track'[u], log'[u], calls + 1, FALSE)
    <2>1. track'[u] \in {track[u], CloseChunk(track[u])}
      <3>1. track'[u] = old[u]
        BY <1>2, <1>3, <1>10
      <3> QED
        BY <3>1, SwitchIs
    <2>2. log'[u] = log[u]
      BY <1>4, <1>6, <1>10
    <2> QED
      BY <1>1, <1>9, <2>1, <2>2, OtherChunked, TypedParts
  <1>11. Chunked(opts, t, track'[t], log'[t], calls + 1, FALSE)
    <2> DEFINE tr == track[t]
               m == tr.currentChunkSamples
               P == Full(tr)
               C == tr.chunkCount + 1
               n == new.currentChunkSamples
    <2>1. /\ Shaped(tr) /\ Reasoned(opts, t, P, log[t], calls)
          /\ Poised(opts, t, m, P, log[t], calls)
      BY <1>1, <1>9 DEF Chunked
    <2>2. Timed(tr) /\ m \in Nat /\ C \in Nat
      <3>1. Timed(tr)
        BY <1>1, TypedParts
      <3> HIDE DEF tr
      <3>2. Timed(tr) => tr.currentChunkSamples \in Nat /\ tr.chunkCount \in Nat
        BY DEF Timed, TrackState
      <3> QED
        BY <3>1, <3>2
    <2>3. P \in Seq(Place)
      BY <2>1, <2>2, FullIs
    <2>4. /\ Shaped(new) /\ Full(new) = Append(P, [chunk |-> C, nth |-> m])
          /\ n = IF Ends(opts, t, m + 1, x.packet) THEN 0 ELSE m + 1
      <3> HIDE DEF at
      <3> QED
        BY <1>1, <1>5, <2>1, <2>2, RecordedShape
    <2>5. /\ track'[t] = new
      BY <1>1, <1>2, <1>3
    <2>6. log'[t] = Append(log[t], x)
      BY <1>1, <1>4, <1>6
    <2> HIDE DEF t, new, x, P, C, m, n
    <2>7. /\ Reasoned(opts, t, Append(P, [chunk |-> C, nth |-> m]), Append(log[t], x), calls + 1)
          /\ Poised(opts, t, n, Append(P, [chunk |-> C, nth |-> m]), Append(log[t], x), calls + 1)
      BY <1>1, <1>5, <2>1, <2>2, <2>3, <2>4, OneMoreSample
    <2> QED
      BY <2>4, <2>5, <2>6, <2>7 DEF Chunked, n
  <1> QED
    BY <1>8, <1>10, <1>11

LEMMA ChunksAfterRefusal ==
    ASSUME ProgInv, ChunkInv, NEW p \in Packets, PayloadFails(p)
    PROVE  ChunkInv'
  <1>1. /\ track' = SwitchTo(p.track) /\ calls' = calls + 1
        /\ UNCHANGED <<opts, trailerWritten, log>>
    BY DEF PayloadFails
  <1>2. PICK kinds : mishaps' = mishaps \cup (Late \cup kinds)
    BY DEF PayloadFails, Fault
  <1>3. trailerWritten' => Settling'
    BY <1>1, <1>2 DEF ChunkInv, Settling
  <1>4. SUFFICES ASSUME Undamaged'
                 PROVE  /\ ~Settling'
                        /\ \A u \in Track : Chunked(opts, u, track'[u], log[u], calls + 1, FALSE)
    <2>1. log' = [u \in Track |-> log'[u]]
      BY <1>1 DEF ChunkInv
    <2>2. ASSUME NEW u \in Track, Chunked(opts, u, track'[u], log[u], calls + 1, FALSE)
          PROVE  Chunked(opts, u, track'[u], log'[u], calls + 1, FALSE)
      BY <1>1, <2>2
    <2> QED
      BY <1>1, <1>3, <2>1, <2>2, StillChunked
  <1>5. Undamaged /\ ~Settling
    BY <1>2, <1>4 DEF Undamaged, Late, Settling
  <1>6. ~Settling'
    <2>1. "torn" \notin mishaps'
      BY <1>4 DEF Undamaged
    <2>2. "trailer" \notin mishaps' \ mishaps
      BY <2>1, <1>5 DEF PayloadFails, Fault, Late, Settling
    <2> QED
      BY <1>5, <2>2 DEF Settling
  <1>7. ASSUME NEW u \in Track
        PROVE  Chunked(opts, u, track'[u], log[u], calls + 1, FALSE)
    <2>1. Chunked(opts, u, track[u], log[u], calls, FALSE)
      BY <1>5, OpenChunked
    <2>2. track'[u] \in {track[u], CloseChunk(track[u])}
      BY <1>1, SwitchIs
    <2> QED
      BY <2>1, <2>2, OtherChunked, TypedParts
  <1> QED
    BY <1>6, <1>7

LEMMA ChunksAfterOffset ==
    ASSUME ProgInv, ChunkInv, NEW p \in Packets, OffsetRefused(p)
    PROVE  ChunkInv'
  <1>1. "refused" \in mishaps' /\ mishaps \subseteq mishaps' /\ UNCHANGED <<trailerWritten, log>>
    BY DEF OffsetRefused, Fault
  <1>2. ~Undamaged'
    BY <1>1 DEF Undamaged
  <1> QED
    BY <1>1, <1>2 DEF ChunkInv, Settling

(* A trailer closes every chunk; faststart moves the offsets besides.      *)
Moved(tr, base) == [tr EXCEPT !.chunkOffsets = [k \in DOMAIN @ |-> @[k] + base]]

LEMMA SettledChunked ==
    ASSUME NEW o, NEW t, NEW tr, NEW L, NEW c, NEW settled, Chunked(o, t, tr, L, c, settled),
           Timed(tr), NEW base, NEW r \in {CloseChunk(tr), Moved(CloseChunk(tr), base)}
    PROVE  Chunked(o, t, r, L, c, TRUE) /\ r.currentChunkSamples = 0
  <1> DEFINE d == CloseChunk(tr)
             s == Moved(d, base)
  <1>1. Shaped(tr) /\ Reasoned(o, t, Full(tr), L, c)
    BY DEF Chunked
  <1>2. Shaped(d) /\ Full(d) = Full(tr) /\ d.currentChunkSamples = 0 /\ Timed(d)
    BY <1>1, CloseShape, CloseChunkTimed
  <1>3. r \in {d, s}
    OBVIOUS
  <1> HIDE DEF d
  <1>4. /\ r.stsc = d.stsc /\ r.chunkCount = d.chunkCount
        /\ r.lastSamplesPerChunk = d.lastSamplesPerChunk
        /\ r.currentChunkSamples = d.currentChunkSamples
    BY <1>2, <1>3 DEF Timed, TrackState, Moved
  <1> HIDE DEF s
  <1>5. Shaped(r) /\ Full(r) = Full(tr) /\ r.currentChunkSamples = 0
    BY <1>2, <1>4, SameShape
  <1> QED
    BY <1>1, <1>5 DEF Chunked

LEMMA ChunksAfterTrailer ==
    ASSUME ProgInv, ChunkInv, WriteTrailer
    PROVE  ChunkInv'
  <1>1. UNCHANGED <<opts, log, calls>>
    BY DEF WriteTrailer, TrailerDirect, TrailerRefused, PatchFails, MoovFails,
           TrailerFaststart, FaststartFails, TrailerCall
  <1>2. mishaps \subseteq mishaps' /\ Settling'
    BY DEF WriteTrailer, TrailerDirect, TrailerRefused, PatchFails, MoovFails,
           TrailerFaststart, FaststartFails, Fault, Settling
  <1>3. PICK base : track' = Closed \/ track' = Shifted(Closed, base)
    <2>1. PICK base : FaststartPlan.tracks = Shifted(Closed, base)
      BY PlanShifts
    <2>2. track' = Closed \/ track' = FaststartPlan.tracks
      BY DEF WriteTrailer, TrailerDirect, TrailerRefused, PatchFails, MoovFails,
             TrailerFaststart, FaststartFails
    <2> QED
      BY <2>1, <2>2
  <1>4. ASSUME Undamaged', NEW t \in Track
        PROVE  /\ Chunked(opts, t, track'[t], log[t], calls, TRUE)
               /\ track'[t].currentChunkSamples = 0
    <2>1. Chunked(opts, t, track[t], log[t], calls, Settling)
      BY <1>2, <1>4 DEF ChunkInv, Undamaged
    <2>2. track'[t] \in {CloseChunk(track[t]), Moved(CloseChunk(track[t]), base)}
      BY <1>3 DEF Closed, Shifted, Moved
    <2>3. Timed(track[t])
      BY TypedParts
    <2> DEFINE L == log[t]
               tr == track[t]
               r == track'[t]
    <2> HIDE DEF L, tr, r
    <2>4. /\ Chunked(opts, t, tr, L, calls, Settling) /\ Timed(tr)
          /\ r \in {CloseChunk(tr), Moved(CloseChunk(tr), base)}
      BY <2>1, <2>2, <2>3 DEF L, tr, r
    <2>5. Chunked(opts, t, r, L, calls, TRUE) /\ r.currentChunkSamples = 0
      BY <2>4, SettledChunked
    <2> QED
      BY <2>5 DEF L, r
  <1>5. Settling' = TRUE
    BY <1>2 DEF Settling
  <1>6. log' = [t \in Track |-> log'[t]]
    BY <1>1 DEF ChunkInv
  <1>7. Undamaged' => \A t \in Track : Chunked(opts, t, track[t], log[t], calls, Settling)'
    BY <1>1, <1>4, <1>5
  <1> QED
    BY <1>2, <1>4, <1>6, <1>7 DEF ChunkInv

LEMMA ChunksUnchanged ==
    ASSUME ChunkInv, mishaps \subseteq mishaps', Settling' = Settling,
           UNCHANGED <<opts, track, log, calls, trailerWritten>>
    PROVE  ChunkInv'
  <1>1. Undamaged' => Undamaged
    BY DEF Undamaged
  <1> QED
    BY <1>1 DEF ChunkInv

LEMMA ChunksInit == Init => ChunkInv
  <1> SUFFICES ASSUME Init PROVE ChunkInv
    OBVIOUS
  <1>1. /\ log = [t \in Track |-> <<>>] /\ ~trailerWritten /\ calls = 0
        /\ \A t \in Track : track[t] = NewTrack /\ log[t] = <<>>
    BY DEF Init
  <1> DEFINE tr == NewTrack
  <1>2. /\ tr.stsc = <<>> /\ tr.chunkCount = 0 /\ tr.lastSamplesPerChunk = 0
        /\ tr.currentChunkSamples = 0
    BY DEF NewTrack
  <1>3. Places(<<>>, 0) = <<>>
    <2>1. [k \in DOMAIN <<>> |-> RunPlaces(<<>>, 0, k)] = <<>>
      OBVIOUS
    <2> QED
      BY <2>1, FlattenEmpty DEF Places
  <1>4. Full(tr) = <<>>
    <2>1. ChunkPlaces(0 + 1, 0) = <<>>
      BY DEF ChunkPlaces
    <2>2. <<>> \o <<>> = <<>>
      OBVIOUS
    <2> QED
      BY <1>2, <1>3, <2>1, <2>2 DEF Full
  <1>5. Shaped(tr)
    <2>1. <<>> \in Seq(ChunkRun) /\ Len(<<>>) = 0
      OBVIOUS
    <2> QED
      BY <1>2, <2>1 DEF Shaped, ChunksKept
  <1> HIDE DEF tr
  <1>6. ASSUME NEW t \in Track PROVE Chunked(opts, t, tr, <<>>, 0, Settling)
    <2>1. IsSeq(<<>>) /\ Len(<<>>) = 0
      BY DEF IsSeq
    <2>2. Reasoned(opts, t, <<>>, <<>>, 0)
      BY <2>1 DEF Reasoned
    <2>3. Poised(opts, t, 0, <<>>, <<>>, 0)
      BY <2>1 DEF Poised
    <2> QED
      BY <1>2, <1>4, <1>5, <2>2, <2>3 DEF Chunked, tr
  <1>7. log = [t \in Track |-> log[t]]
    BY <1>1
  <1>8. \A t \in Track : track[t].currentChunkSamples = 0
    BY <1>1, <1>2 DEF tr
  <1> QED
    BY <1>1, <1>6, <1>7, <1>8 DEF ChunkInv, tr

LEMMA ChunksStep == ProgInv /\ ChunkInv /\ [Next]_vars => ChunkInv'
  <1> SUFFICES ASSUME ProgInv, ChunkInv, [Next]_vars PROVE ChunkInv'
    OBVIOUS
  <1>1. CASE WriteHeader
    BY <1>1, ChunksUnchanged DEF WriteHeader, history, Settling
  <1>2. CASE HeaderFails
    <2>1. mishaps' = mishaps \/ mishaps' = mishaps \cup {"torn"}
      BY <1>2 DEF HeaderFails, Fault
    <2>2. mishaps \subseteq mishaps' /\ Settling' = Settling
      BY <2>1 DEF Settling
    <2> QED
      BY <1>2, <2>2, ChunksUnchanged DEF HeaderFails
  <1>3. ASSUME NEW p \in Packets, WritePacket(p) \/ PayloadFails(p) \/ OffsetRefused(p)
        PROVE  ChunkInv'
    BY <1>3, ChunksAfterPacket, ChunksAfterRefusal, ChunksAfterOffset
  <1>4. CASE WriteTrailer
    BY <1>4, ChunksAfterTrailer
  <1>5. CASE UNCHANGED vars
    BY <1>5, ChunksUnchanged DEF vars, history, Settling
  <1> QED
    BY <1>1, <1>2, <1>3, <1>4, <1>5 DEF Next

LEMMA ChunkInvAlways == Spec => []ChunkInv
  BY ProgInvAlways, ChunksInit, ChunksStep, PTL DEF Spec

(* The demuxer places the samples where the muxer did.                     *)
LEMMA PlacementIs ==
    ASSUME NEW stsc, NEW last, NEW C, ChunksKept(stsc, last, C), NEW n \in Nat,
           Len(Places(stsc, C)) = n, \A k \in 1..Len(stsc) : stsc[k].perChunk <= n
    PROVE  Placement(stsc, C, n) = Places(stsc, C)
  <1> DEFINE fits(c, per) == [j \in 1..Min({per, n}) |-> [chunk |-> c, nth |-> j - 1]]
             run(k) == FlattenSeq([c \in 1..(RunEnd(stsc, C, k) - stsc[k].first) |->
                                     fits(stsc[k].first + c - 1, stsc[k].perChunk)])
             placed == FlattenSeq([k \in DOMAIN stsc |-> run(k)])
             rest == [chunk |-> IF placed = <<>> THEN 1 ELSE Last(placed).chunk, nth |-> 0]
  <1>1. Placement(stsc, C, n) = [i \in 1..n |-> ValueAt(placed, i, rest)]
    BY Zenon DEF Placement, RunEnd
  <1>2. ASSUME NEW k \in DOMAIN stsc PROVE run(k) = RunPlaces(stsc, C, k)
    <2>1. /\ stsc[k].perChunk \in Nat /\ stsc[k].perChunk <= n
          /\ stsc \in Seq(ChunkRun)
      BY KeptIs
    <2>2. Min({stsc[k].perChunk, n}) = stsc[k].perChunk
      <3> DEFINE m == stsc[k].perChunk
                 S == {m, n}
      <3>1. m \in S /\ \A x \in S : m <= x
        BY <2>1
      <3>2. \A x \in S : (\A y \in S : x <= y) => x = m
        BY <2>1
      <3>3. (CHOOSE x \in S : \A y \in S : x <= y) = m
        BY <3>1, <3>2
      <3> QED
        BY <3>3 DEF Min
    <2>3. \A c : fits(c, stsc[k].perChunk) = ChunkPlaces(c, stsc[k].perChunk)
      BY <2>2 DEF ChunkPlaces
    <2> HIDE DEF fits
    <2>4. run(k) = FlattenSeq([c \in 1..RunLength(stsc, C, k) |->
                                 ChunkPlaces(stsc[k].first + c - 1, stsc[k].perChunk)])
      BY <2>3 DEF RunLength
    <2> QED
      BY <2>4 DEF RunPlaces, RunOf
  <1> HIDE DEF run
  <1>3. placed = Places(stsc, C)
    BY <1>2 DEF Places
  <1>4. Places(stsc, C) \in Seq(Place)
    BY PlacesTyped
  <1> HIDE DEF placed, rest
  <1>5. \A i \in 1..n : ValueAt(placed, i, rest) = placed[i]
    BY <1>3, <1>4 DEF ValueAt
  <1>6. placed = [i \in 1..n |-> placed[i]]
    BY <1>3, <1>4
  <1> QED
    BY <1>1, <1>3, <1>5, <1>6

(* Where the chunks of a finished file begin has a reason each: another    *)
(* call came between, or the policy; and no chunk grows past its target    *)
(* (Mp4Muxer::write_packet, close_current_chunk).                          *)
THEOREM ChunksEndJustified == Spec => []ChunksEndForAReason
  <1>1. ProgInv /\ BooksInv /\ ChunkInv => ChunksEndForAReason
    <2> SUFFICES ASSUME ProgInv, BooksInv, ChunkInv, Finished, NEW t \in Track
                 PROVE  LET n == Len(log[t])
                            stbl == StblOf(track[t])
                            place == Placement(stbl.stsc, Len(stbl.chunkOffsets), n)
                            counted == opts.chunking = "sampleCount"
                        IN  \A k \in 2..n :
                              /\ place[k].nth = 0 =>
                                   \/ log[t][k].call # log[t][k - 1].call + 1
                                   \/ counted /\ place[k - 1].nth + 1 >= opts.perChunk[t]
                                   \/ ~counted /\ log[t][k - 1].packet.boundary
                              /\ counted => place[k].nth < Max({opts.perChunk[t], 1})
      BY Zenon DEF ChunksEndForAReason
    <2> DEFINE tr == track[t]
               n == Len(log[t])
               C == tr.chunkCount
               P == Full(tr)
    <2>1. Chunked(opts, t, tr, log[t], calls, Settling) /\ tr.currentChunkSamples = 0
      BY DEF ChunkInv, Finished
    <2>2. Timed(tr) /\ C \in Nat
      <3>1. Timed(tr)
        BY TypedParts
      <3> QED
        BY <3>1 DEF Timed, TrackState
    <2>3. Len(tr.chunkOffsets) = C
      BY <2>1, <2>2 DEF BooksInv, Balanced
    <2>4. Shaped(tr) /\ Reasoned(opts, t, P, log[t], calls)
      BY <2>1 DEF Chunked
    <2>5. Places(tr.stsc, C) = P
      <3>1. ChunkPlaces(C + 1, 0) = <<>>
        BY DEF ChunkPlaces
      <3>2. Places(tr.stsc, C) \in Seq(Place)
        BY <2>4, PlacesTyped DEF Shaped
      <3>3. Places(tr.stsc, C) \o <<>> = Places(tr.stsc, C)
        BY <3>2, ConcatEmptySeq
      <3> QED
        BY <2>1, <3>1, <3>3 DEF Full
    <2>6. Placement(tr.stsc, C, n) = P
      <3>1. Len(P) = n /\ n \in Nat
        BY <2>4 DEF Reasoned, IsSeq
      <3> QED
        BY <2>4, <2>5, <3>1, PlacementIs DEF Shaped
    <2>7. StblOf(tr).stsc = tr.stsc /\ StblOf(tr).chunkOffsets = tr.chunkOffsets
      BY DEF StblOf
    <2>8. ASSUME NEW k \in 2..n
          PROVE  /\ P[k].nth = 0 =>
                      \/ log[t][k].call # log[t][k - 1].call + 1
                      \/ Counted(opts) /\ P[k - 1].nth + 1 >= opts.perChunk[t]
                      \/ ~Counted(opts) /\ log[t][k - 1].packet.boundary
                 /\ Counted(opts) => P[k].nth < Target(opts, t)
      <3>1. n \in Nat /\ k \in 1..n
        BY <2>4 DEF Reasoned, IsSeq
      <3> QED
        BY <2>4, <3>1 DEF Reasoned, EndsAfter, Ends, Counted
    <2> HIDE DEF P
    <2> QED
      BY <2>3, <2>6, <2>7, <2>8 DEF Counted, Target
  <1>2. Spec => []BooksInv
    BY BooksInit, BooksStep, PTL DEF Spec
  <1> QED
    BY <1>1, <1>2, ProgInvAlways, ChunkInvAlways, PTL

(***************************************************************************)
(* The run-length tables of a track, entry by entry.                       *)
(***************************************************************************)
RunValues(r) == [j \in 1..r.count |-> r.value]
AllRuns(runs) == [k \in DOMAIN runs |-> RunValues(runs[k])]

LEMMA RunValuesTyped ==
    ASSUME NEW r \in Run
    PROVE  /\ RunValues(r) \in Seq(Int) /\ Len(RunValues(r)) = r.count /\ r.count \in Nat
           /\ \A j \in 1..r.count : RunValues(r)[j] = r.value
           /\ r.value \in Int
  <1>1. r.count \in Nat /\ r.value \in Int
    BY DEF Run
  <1> DEFINE n == r.count
             v == r.value
  <1>2. RunValues(r) = [j \in 1..n |-> v]
    BY DEF RunValues
  <1> HIDE DEF n, v
  <1>3. n \in Nat /\ v \in Int
    BY <1>1 DEF n, v
  <1> QED
    BY <1>2, <1>3 DEF n, v

LEMMA AllRunsTyped ==
    ASSUME NEW runs \in Seq(Run)
    PROVE  /\ AllRuns(runs) \in Seq(Seq(Int)) /\ Len(AllRuns(runs)) = Len(runs)
           /\ \A k \in 1..Len(runs) : AllRuns(runs)[k] = RunValues(runs[k])
           /\ ExpandRuns(runs) = FlattenSeq(AllRuns(runs))
           /\ ExpandRuns(runs) \in Seq(Int)
  <1>1. \A k \in 1..Len(runs) : RunValues(runs[k]) \in Seq(Int)
    <2>1. \A k \in 1..Len(runs) : runs[k] \in Run
      OBVIOUS
    <2> QED
      BY <2>1, RunValuesTyped
  <1>2. AllRuns(runs) = [k \in 1..Len(runs) |-> RunValues(runs[k])] /\ Len(runs) \in Nat
    BY DEF AllRuns
  <1>3. AllRuns(runs) \in Seq(Seq(Int)) /\ Len(AllRuns(runs)) = Len(runs)
    BY <1>1, <1>2
  <1>4. \A k \in 1..Len(runs) : AllRuns(runs)[k] = RunValues(runs[k])
    BY <1>2
  <1>5. ExpandRuns(runs) = FlattenSeq(AllRuns(runs))
    BY DEF ExpandRuns, AllRuns, RunValues
  <1>6. FlattenSeq(AllRuns(runs)) \in Seq(Int)
    BY <1>3, FlattenTyped
  <1> QED
    BY <1>3, <1>4, <1>5, <1>6

(* A value pushed is one more entry. *)
LEMMA PushExpands ==
    ASSUME NEW runs \in Seq(Run), NEW v \in Int
    PROVE  /\ ExpandRuns(runs) \in Seq(Int)
           /\ ExpandRuns(PushRun(runs, v)) = Append(ExpandRuns(runs), v)
  <1> DEFINE n == Len(runs)
             new == PushRun(runs, v)
             ss == AllRuns(runs)
             rr == AllRuns(new)
             x == <<v>>
  <1>1. new \in Seq(Run)
    BY PushRunTyped
  <1>2. x \in Seq(Int) /\ n \in Nat
    OBVIOUS
  <1>3. /\ ss \in Seq(Seq(Int)) /\ Len(ss) = n /\ ExpandRuns(runs) = FlattenSeq(ss)
        /\ FlattenSeq(ss) \in Seq(Int) /\ \A k \in 1..n : ss[k] = RunValues(runs[k])
    BY AllRunsTyped
  <1>4. /\ rr \in Seq(Seq(Int)) /\ Len(rr) = Len(new) /\ ExpandRuns(new) = FlattenSeq(rr)
        /\ \A k \in 1..Len(new) : rr[k] = RunValues(new[k])
    BY <1>1, AllRunsTyped
  <1> HIDE DEF ss, rr, n, x
  <1>5. FlattenSeq(rr) = FlattenSeq(ss) \o x
    <2>1. CASE runs # <<>> /\ Last(runs).value = v
      <3> DEFINE r == runs[n]
                 c == r.count
                 grown == [r EXCEPT !.count = @ + 1]
      <3>1. n \in 1..n /\ r \in Run /\ r.value = v /\ c \in Nat
        <4>1. n >= 1
          BY <2>1 DEF n
        <4>2. r \in Run
          BY <4>1 DEF n
        <4>3. r.value = v
          BY <2>1 DEF Last, n
        <4> QED
          BY <1>2, <4>1, <4>2, <4>3 DEF Run
      <3>2. new = [runs EXCEPT ![n] = grown]
        BY <2>1 DEF PushRun, n
      <3>3. grown \in Run /\ grown.count = c + 1 /\ grown.value = v
        <4>1. c + 1 \in Nat \ {0}
          BY <3>1
        <4> HIDE DEF r
        <4>2. grown = [r EXCEPT !.count = c + 1]
          BY DEF grown, c
        <4> DEFINE d == c + 1
        <4> HIDE DEF grown, c, d
        <4>3. d \in Nat \ {0} /\ grown = [r EXCEPT !.count = d]
          BY <4>1, <4>2 DEF d
        <4>4. grown \in Run /\ grown.count = d /\ grown.value = r.value
          BY <3>1, <4>3 DEF Run
        <4> QED
          BY <3>1, <4>4 DEF d
      <3> HIDE DEF grown, new
      <3>4. Len(new) = n /\ new[n] = grown /\ \A k \in 1..(n - 1) : new[k] = runs[k]
        BY <1>2, <3>1, <3>2, <3>3 DEF n
      <3>5. rr[n] = ss[n] \o x
        <4> DEFINE a == RunValues(r)
                   b == RunValues(grown)
        <4>1. /\ a \in Seq(Int) /\ Len(a) = c /\ \A j \in 1..c : a[j] = v
          BY <3>1, RunValuesTyped
        <4>2. /\ b \in Seq(Int) /\ Len(b) = c + 1 /\ \A j \in 1..(c + 1) : b[j] = v
          BY <3>3, RunValuesTyped
        <4>3. rr[n] = b /\ ss[n] = a
          BY <1>3, <1>4, <3>1, <3>4
        <4> HIDE DEF a, b, c
        <4>4. c \in Nat
          BY <3>1 DEF c
        <4>5. x \in Seq(Int) /\ Len(x) = 1 /\ x[1] = v
          BY DEF x
        <4>6. \A k \in 1..Len(a) : b[k] = a[k]
          BY <4>1, <4>2, <4>4
        <4>7. \A k \in 1..Len(x) : b[Len(a) + k] = x[k]
          BY <4>1, <4>2, <4>4, <4>5
        <4>8. a \in Seq(Int) /\ b \in Seq(Int) /\ x \in Seq(Int) /\ Len(b) = Len(a) + Len(x)
          BY <4>1, <4>2, <4>4, <4>5
        <4>9. b = a \o x
          BY <4>6, <4>7, <4>8, ConcatEqual
        <4> QED
          BY <4>3, <4>9
      <3>6. \A k \in 1..(n - 1) : rr[k] = ss[k]
        <4> SUFFICES ASSUME NEW k \in 1..(n - 1) PROVE rr[k] = ss[k]
          OBVIOUS
        <4>1. k \in 1..n
          BY <1>2
        <4> QED
          BY <1>3, <1>4, <3>4, <4>1
      <3>7. LastGrows(ss, rr, x, n)
        BY <1>2, <1>3, <1>4, <3>1, <3>4, <3>5, <3>6 DEF LastGrows
      <3> QED
        BY <1>2, <1>3, <1>4, <3>7, FlattenLonger
    <2>2. CASE ~(runs # <<>> /\ Last(runs).value = v)
      <3> DEFINE r == [count |-> 1, value |-> v]
      <3>1. new = Append(runs, r)
        BY <2>2 DEF PushRun
      <3>2. r \in Run /\ r.count = 1 /\ r.value = v
        BY DEF Run
      <3> HIDE DEF r, new
      <3>3. Len(new) = n + 1 /\ new[n + 1] = r /\ \A k \in 1..n : new[k] = runs[k]
        BY <3>1, <3>2 DEF n
      <3>4. RunValues(r) = x
        <4>1. RunValues(r) = [j \in 1..1 |-> v]
          BY <3>2 DEF RunValues
        <4> QED
          BY <4>1 DEF x
      <3>5. rr = Append(ss, x)
        <4>1. /\ Append(ss, x) \in Seq(Seq(Int)) /\ Len(Append(ss, x)) = n + 1
              /\ Append(ss, x)[n + 1] = x /\ \A k \in 1..n : Append(ss, x)[k] = ss[k]
          BY <1>2, <1>3
        <4>2. \A k \in 1..n : k \in 1..(n + 1)
          BY <1>2
        <4>3. rr[n + 1] = x /\ \A k \in 1..n : rr[k] = ss[k]
          BY <1>2, <1>3, <1>4, <3>3, <3>4, <4>2
        <4>4. \A k \in 1..(n + 1) : k = n + 1 \/ k \in 1..n
          BY <1>2
        <4>5. \A k \in 1..(n + 1) : rr[k] = Append(ss, x)[k]
          BY <4>1, <4>3, <4>4
        <4>6. Len(rr) = n + 1
          BY <1>4, <3>3
        <4> QED
          BY <1>4, <4>1, <4>5, <4>6
      <3> QED
        BY <1>2, <1>3, <3>5, FlattenAppend
    <2> QED
      BY <2>1, <2>2
  <1>6. FlattenSeq(ss) \o x = Append(FlattenSeq(ss), v)
    <2> DEFINE a == FlattenSeq(ss)
    <2>1. a \in Seq(Int)
      BY <1>3
    <2> HIDE DEF a
    <2>2. a \o <<v>> = Append(a, v)
      BY <2>1
    <2> QED
      BY <2>2 DEF a, x
  <1> QED
    BY <1>3, <1>4, <1>5, <1>6

(***************************************************************************)
(* What the records of a packet's sample are.                              *)
(***************************************************************************)
Noted(tr, p) ==
    [tr EXCEPT
       !.ctts = PushRun(@, CompositionOffset(p)),
       !.keyframes = IF p.key THEN Append(@, tr.nextSampleIndex + 1) ELSE @]

LEMMA NotedIs ==
    ASSUME NEW p \in Packets, opts \in Options, NEW tr, Timed(tr)
    PROVE  LET r == Noted(tr, p)
           IN  /\ Timed(r) /\ CompositionOffset(p) \in Int
               /\ r.ctts = PushRun(tr.ctts, CompositionOffset(p))
               /\ r.keyframes = IF p.key THEN Append(tr.keyframes, tr.nextSampleIndex + 1)
                                         ELSE tr.keyframes
               /\ r.sampleSizes = tr.sampleSizes /\ r.stts = tr.stts
               /\ r.chunkOffsets = tr.chunkOffsets /\ r.nextSampleIndex = tr.nextSampleIndex
               /\ r.chunkCount = tr.chunkCount
               /\ r.currentChunkSamples = tr.currentChunkSamples
  <1> DEFINE ctts == PushRun(tr.ctts, CompositionOffset(p))
             keys == IF p.key THEN Append(tr.keyframes, tr.nextSampleIndex + 1)
                              ELSE tr.keyframes
             one == [tr EXCEPT !.ctts = ctts]
             r == Noted(tr, p)
  <1>1. tr.ctts \in Seq(Run) /\ tr.keyframes \in Seq(Nat \ {0}) /\ tr.nextSampleIndex \in Nat
    BY DEF Timed, TrackState
  <1>2. CompositionOffset(p) \in Int
    <2>1. PtsOf(p) \in SUBSET Int /\ DtsOf(p) \in SUBSET Int
      BY PacketIs
    <2>2. ValueOf(PtsOf(p), 0) \in Int /\ ValueOf(DtsOf(p), 0) \in Int
      BY <2>1, ValueInt
    <2> QED
      BY <2>2 DEF CompositionOffset
  <1>3. ctts \in Seq(Run)
    BY <1>1, <1>2, PushRunTyped
  <1>4. keys \in Seq(Nat \ {0})
    <2>1. tr.nextSampleIndex + 1 \in Nat \ {0}
      BY <1>1
    <2> QED
      BY <1>1, <2>1
  <1>5. r = [one EXCEPT !.keyframes = keys]
    BY DEF Noted, Timed, TrackState
  <1> HIDE DEF ctts, keys, r
  <1>6. /\ one \in TrackState /\ one.prevPts = tr.prevPts /\ one.prevDts = tr.prevDts
        /\ one.ctts = ctts /\ one.sampleSizes = tr.sampleSizes /\ one.stts = tr.stts
        /\ one.chunkOffsets = tr.chunkOffsets /\ one.nextSampleIndex = tr.nextSampleIndex
        /\ one.chunkCount = tr.chunkCount
        /\ one.currentChunkSamples = tr.currentChunkSamples
    BY <1>3 DEF Timed, TrackState
  <1> HIDE DEF one
  <1>7. /\ r \in TrackState /\ r.prevPts = one.prevPts /\ r.prevDts = one.prevDts
        /\ r.keyframes = keys
        /\ r.ctts = one.ctts /\ r.sampleSizes = one.sampleSizes /\ r.stts = one.stts
        /\ r.chunkOffsets = one.chunkOffsets /\ r.nextSampleIndex = one.nextSampleIndex
        /\ r.chunkCount = one.chunkCount
        /\ r.currentChunkSamples = one.currentChunkSamples
    BY <1>4, <1>5, <1>6 DEF TrackState
  <1>8. Timed(r)
    BY <1>6, <1>7 DEF Timed
  <1> QED
    BY <1>2, <1>6, <1>7, <1>8 DEF ctts, keys, r

LEMMA CloseFields ==
    ASSUME NEW tr, Timed(tr)
    PROVE  LET r == CloseChunk(tr)
           IN  /\ r.sampleSizes = tr.sampleSizes /\ r.stts = tr.stts /\ r.ctts = tr.ctts
               /\ r.keyframes = tr.keyframes /\ r.chunkOffsets = tr.chunkOffsets
               /\ r.nextSampleIndex = tr.nextSampleIndex
               /\ r.currentChunkSamples = 0
               /\ r.chunkCount = IF tr.currentChunkSamples = 0 THEN tr.chunkCount
                                                               ELSE tr.chunkCount + 1
  BY DEF CloseChunk, Timed, TrackState

LEMMA JoinFields ==
    ASSUME NEW tr, Timed(tr), NEW offset
    PROVE  LET r == JoinChunk(tr, offset)
           IN  /\ r.sampleSizes = tr.sampleSizes /\ r.stts = tr.stts /\ r.ctts = tr.ctts
               /\ r.keyframes = tr.keyframes /\ r.nextSampleIndex = tr.nextSampleIndex
               /\ r.chunkOffsets = IF tr.currentChunkSamples = 0
                                   THEN Append(tr.chunkOffsets, offset) ELSE tr.chunkOffsets
               /\ r.currentChunkSamples = tr.currentChunkSamples + 1
               /\ r.chunkCount = tr.chunkCount
  BY DEF JoinChunk, Timed, TrackState

LEMMA DecodingFields ==
    ASSUME NEW tr, Timed(tr), NEW p
    PROVE  LET r == RecordDecoding(tr, p)
           IN  /\ r.sampleSizes = Append(tr.sampleSizes, p.size)
               /\ r.stts = PushRun(tr.stts, ComputeDelta(tr, p))
               /\ r.ctts = tr.ctts /\ r.keyframes = tr.keyframes
               /\ r.chunkOffsets = tr.chunkOffsets /\ r.nextSampleIndex = tr.nextSampleIndex
               /\ r.currentChunkSamples = tr.currentChunkSamples
               /\ r.chunkCount = tr.chunkCount
  BY DEF RecordDecoding, Timed, TrackState

LEMMA PresentationFields ==
    ASSUME NEW tr, Timed(tr), NEW p, NEW delta
    PROVE  LET r == RecordPresentation(tr, p, delta)
           IN  /\ r.sampleSizes = tr.sampleSizes /\ r.stts = tr.stts /\ r.ctts = tr.ctts
               /\ r.keyframes = tr.keyframes /\ r.chunkOffsets = tr.chunkOffsets
               /\ r.nextSampleIndex = tr.nextSampleIndex + 1
               /\ r.currentChunkSamples = tr.currentChunkSamples
               /\ r.chunkCount = tr.chunkCount
  BY DEF RecordPresentation, Timed, TrackState

LEMMA RecordedFields ==
    ASSUME NEW p \in Packets, opts \in Options, NEW tr, Timed(tr), NEW offset \in Nat
    PROVE  LET r == Recorded(tr, p, offset)
               m == tr.currentChunkSamples
           IN  /\ r.sampleSizes = Append(tr.sampleSizes, p.size)
               /\ r.stts = PushRun(tr.stts, ComputeDelta(tr, p))
               /\ r.ctts = PushRun(tr.ctts, CompositionOffset(p))
               /\ r.keyframes = IF p.key THEN Append(tr.keyframes, tr.nextSampleIndex + 1)
                                         ELSE tr.keyframes
               /\ r.nextSampleIndex = tr.nextSampleIndex + 1
               /\ r.chunkOffsets = IF m = 0 THEN Append(tr.chunkOffsets, offset)
                                            ELSE tr.chunkOffsets
               /\ r.chunkCount = tr.chunkCount
                    + (IF Ends(opts, p.track, m + 1, p) THEN 1 ELSE 0)
               /\ CompositionOffset(p) \in Int
  <1> DEFINE m == tr.currentChunkSamples
             d == RecordDecoding(tr, p)
             n == Noted(d, p)
             j == JoinChunk(n, offset)
             c == RecordPlace(d, p, offset)
             r == RecordPresentation(c, p, ComputeDelta(tr, p))
  <1>1. Timed(d) /\ Timed(n) /\ Timed(j) /\ Timed(c) /\ m \in Nat /\ tr.chunkCount \in Nat
    <2>1. Timed(d)
      BY RecordDecodingTimed
    <2>2. Timed(c)
      BY <2>1, RecordPlaceTimed
    <2> HIDE DEF d
    <2>3. Timed(n)
      BY <2>1, NotedIs
    <2>4. Timed(j)
      <3> HIDE DEF n
      <3> QED
        BY <2>3, JoinChunkTimed
    <2>5. m \in Nat /\ tr.chunkCount \in Nat
      BY DEF Timed, TrackState
    <2> QED
      BY <2>1, <2>2, <2>3, <2>4, <2>5
  <1>2. c = IF ChunkEnds(j, p) THEN CloseChunk(j) ELSE j
    BY Zenon DEF RecordPlace, Noted
  <1>3. /\ d.sampleSizes = Append(tr.sampleSizes, p.size)
        /\ d.stts = PushRun(tr.stts, ComputeDelta(tr, p))
        /\ d.ctts = tr.ctts /\ d.keyframes = tr.keyframes
        /\ d.chunkOffsets = tr.chunkOffsets /\ d.nextSampleIndex = tr.nextSampleIndex
        /\ d.currentChunkSamples = m /\ d.chunkCount = tr.chunkCount
    BY DecodingFields
  <1> HIDE DEF d, c
  <1>4. /\ n.sampleSizes = d.sampleSizes /\ n.stts = d.stts
        /\ n.ctts = PushRun(d.ctts, CompositionOffset(p))
        /\ n.keyframes = IF p.key THEN Append(d.keyframes, d.nextSampleIndex + 1)
                                  ELSE d.keyframes
        /\ n.chunkOffsets = d.chunkOffsets /\ n.nextSampleIndex = d.nextSampleIndex
        /\ n.currentChunkSamples = d.currentChunkSamples /\ n.chunkCount = d.chunkCount
        /\ CompositionOffset(p) \in Int
    BY <1>1, NotedIs
  <1> HIDE DEF n
  <1>5. /\ j.sampleSizes = n.sampleSizes /\ j.stts = n.stts /\ j.ctts = n.ctts
        /\ j.keyframes = n.keyframes /\ j.nextSampleIndex = n.nextSampleIndex
        /\ j.chunkOffsets = IF n.currentChunkSamples = 0
                            THEN Append(n.chunkOffsets, offset) ELSE n.chunkOffsets
        /\ j.currentChunkSamples = n.currentChunkSamples + 1 /\ j.chunkCount = n.chunkCount
    BY <1>1, JoinFields
  <1> HIDE DEF j
  <1>6. /\ CloseChunk(j).sampleSizes = j.sampleSizes /\ CloseChunk(j).stts = j.stts
        /\ CloseChunk(j).ctts = j.ctts /\ CloseChunk(j).keyframes = j.keyframes
        /\ CloseChunk(j).chunkOffsets = j.chunkOffsets
        /\ CloseChunk(j).nextSampleIndex = j.nextSampleIndex
        /\ j.currentChunkSamples # 0 => CloseChunk(j).chunkCount = j.chunkCount + 1
    BY <1>1, CloseFields
  <1>7. ChunkEnds(j, p) <=> Ends(opts, p.track, m + 1, p)
    BY <1>3, <1>4, <1>5 DEF ChunkEnds, Ends
  <1>8. j.currentChunkSamples # 0
    BY <1>1, <1>3, <1>4, <1>5
  <1>9. /\ c.sampleSizes = j.sampleSizes /\ c.stts = j.stts /\ c.ctts = j.ctts
        /\ c.keyframes = j.keyframes /\ c.nextSampleIndex = j.nextSampleIndex
        /\ c.chunkOffsets = j.chunkOffsets
        /\ c.chunkCount = j.chunkCount + (IF ChunkEnds(j, p) THEN 1 ELSE 0)
    <2>1. j.chunkCount \in Nat
      BY <1>1, <1>3, <1>4, <1>5
    <2>2. CASE ChunkEnds(j, p)
      BY <1>2, <1>6, <1>8, <2>2
    <2>3. CASE ~ChunkEnds(j, p)
      BY <1>2, <2>1, <2>3
    <2> QED
      BY <2>2, <2>3
  <1>10. /\ r.sampleSizes = c.sampleSizes /\ r.stts = c.stts /\ r.ctts = c.ctts
         /\ r.keyframes = c.keyframes /\ r.chunkOffsets = c.chunkOffsets
         /\ r.nextSampleIndex = c.nextSampleIndex + 1 /\ r.chunkCount = c.chunkCount
    BY <1>1, PresentationFields
  <1>11. r = Recorded(tr, p, offset)
    BY DEF Recorded, c, d
  <1> HIDE DEF r
  <1> QED
    BY <1>3, <1>4, <1>5, <1>7, <1>9, <1>10, <1>11

(***************************************************************************)
(* The tables of a track hold its packets.                                 *)
(***************************************************************************)
Composed(o, p) ==
    LET media(v) == Rescale(v, p.num, p.den, o.scale[p.track])
    IN  IF Some(p.pts) /\ Some(p.dts)
        THEN ValueOf({media(v) : v \in p.pts}, 0) - ValueOf({media(v) : v \in p.dts}, 0)
        ELSE 0
Listed(keys, k) == \E j \in DOMAIN keys : keys[j] = k
Tabled(o, tr, L) ==
    /\ tr.nextSampleIndex = Len(L) /\ Len(tr.sampleSizes) = Len(L)
    /\ Len(ExpandRuns(tr.stts)) = Len(L) /\ Len(ExpandRuns(tr.ctts)) = Len(L)
    /\ \A k \in 1..Len(L) :
          /\ L[k].packet \in Packets
          /\ tr.sampleSizes[k] = L[k].packet.size
          /\ ExpandRuns(tr.stts)[k] = L[k].delta
          /\ ExpandRuns(tr.ctts)[k] = Composed(o, L[k].packet)
          /\ Listed(tr.keyframes, k) <=> L[k].packet.key
    /\ \A j \in DOMAIN tr.keyframes : tr.keyframes[j] <= Len(L)

(***************************************************************************)
(* The chunk offsets lead to the samples: the extents of all of them are   *)
(* in H, and an open chunk ends at e.                                      *)
(***************************************************************************)
Extent(at, size, holds) == [at |-> at, size |-> size, holds |-> holds]
Stored(t, k, at, size) == Extent(at, size, [kind |-> "sample", track |-> t, id |-> k])
AddressOf(offsets, sizes, place, k) ==
    offsets[place.chunk] + Total(SubSeq(sizes, k - place.nth, k - 1))
Laid(tr, t, H, e) ==
    LET P == Full(tr)
        sizes == tr.sampleSizes
        offsets == tr.chunkOffsets
        m == tr.currentChunkSamples
    IN  /\ Len(sizes) = Len(P)
        /\ Len(offsets) = tr.chunkCount + (IF m > 0 THEN 1 ELSE 0)
        /\ \A k \in 1..Len(P) :
              /\ P[k].chunk \in 1..Len(offsets) /\ P[k].nth <= k - 1
              /\ Stored(t, k, AddressOf(offsets, sizes, P[k], k), sizes[k]) \in H
        /\ m > 0 => AddressOf(offsets, sizes, [chunk |-> tr.chunkCount + 1, nth |-> m],
                              Len(P) + 1) = e

(***************************************************************************)
(* The direct layout: n ftyp boxes from the start to S -- those of failed  *)
(* calls first -- and behind them, in the order written, the mdat headers, *)
(* all at S, and what fills the mdat, from D to e.                         *)
(***************************************************************************)
IsExtent(x) == x.at \in Nat /\ x.size \in Nat
Extents(w) == IsSeq(w) /\ \A k \in 1..Len(w) : IsExtent(w[k])
Ftyps(w, n, S) ==
    /\ n \in 0..Len(w)
    /\ S = IF n = 0 THEN 0 ELSE w[n].at + w[n].size
    /\ \A k \in 1..n :
          /\ w[k].holds.kind = "ftyp" /\ w[k].size = FtypSize
          /\ w[k].at = IF k = 1 THEN 0 ELSE w[k - 1].at + w[k - 1].size
          /\ w[k].at + w[k].size <= S
          /\ \A j \in 1..(k - 1) : w[j].at + w[j].size <= w[k].at
Heads(x, S, D) == x.holds.kind = "mdat" /\ x.at = S /\ x.at + x.size = D
Fills(x, D, e) ==
    /\ x.holds.kind \notin {"mdat", "ftyp"} /\ x.at >= D /\ x.at + x.size <= e
    /\ x.holds.kind = "moov" => x.size > 0
Streams(w, n, S, D, e) ==
    /\ Extents(w) /\ Ftyps(w, n, S)
    /\ n >= 1 /\ S < D /\ D <= e
    /\ \A k \in (n + 1)..Len(w) : Heads(w[k], S, D) \/ Fills(w[k], D, e)
    /\ \A k \in (n + 1)..Len(w) : \A j \in (n + 1)..(k - 1) :
          Fills(w[j], D, e) /\ Fills(w[k], D, e) => w[j].at + w[j].size <= w[k].at

(***************************************************************************)
(* What the demuxer finds in a file.                                       *)
(***************************************************************************)
IntactOf(w) ==
    {w[k] : k \in {k \in DOMAIN w : \A j \in DOMAIN w : j > k => Apart(w[k], w[j])}}
BoxesOf(w, at) ==
    {x \in IntactOf(w) : x.at = at /\ x.holds.kind \in {"ftyp", "mdat", "moov"}}
NextOf(S) == {x.at + BoxLength(x) : x \in {y \in S : BoxLength(y) > 0}}
Reached(w) ==
    CHOOSE at : at = [k \in 0..Len(w) |->
                        IF k = 0 THEN BoxesOf(w, 0)
                        ELSE UNION {BoxesOf(w, a) : a \in NextOf(at[k - 1])}]
BoxesWalked(w) == UNION {Reached(w)[k] : k \in DOMAIN Reached(w)}
MoovsOf(w) ==
    LET moovs == {x \in BoxesWalked(w) : x.holds.kind = "moov"}
    IN  {x \in moovs : \A y \in moovs : y.at <= x.at}

Tables(trs) == [t \in Track |-> StblOf(trs[t])]
EditsOf(o, tr, t) ==
    IF Some(o.edits[t]) THEN ValueOf(o.edits[t], <<>>)
    ELSE IF o.writeEditList THEN BuildEdts(tr, o.scale[t])
    ELSE <<>>
TrackEdits(o, trs) == [t \in Track |-> EditsOf(o, trs[t], t)]

(***************************************************************************)
(* The file at each stage.                                                 *)
(***************************************************************************)
Untouched ==
    /\ \A t \in Track : track[t] = NewTrack /\ log[t] = <<>>
    /\ mdatBytes = 0 /\ mdatBuffer = {} /\ ~Settling /\ ~trailerWritten
Opening ==
    /\ Extents(writes) /\ Ftyps(writes, Len(writes), position)
    /\ opts.faststart => writes = <<>>
Buffered ==
    /\ ~Settling
    /\ mdatStartOffset = 0
    /\ writes = <<Extent(0, FtypSize, [kind |-> "ftyp"])>>
    /\ \E q \in mdatBuffer :
          /\ mdatBuffer = {q} /\ Bytes(q) = mdatBytes
          /\ \A k \in 1..Len(q) : q[k].holds.kind = "sample"
          /\ \A t \in Track : Laid(track[t], t, ToSet(Placed(q, 0)), mdatBytes)
Streamed ==
    LET e == mdatStartOffset + mdatBytes
    IN  /\ mdatBuffer = {}
        /\ mdatStartOffset = mdatSizeOffset + HeaderBytes(opts.large)
        /\ \E n \in 1..Len(writes) :
              Streams(writes, n, mdatSizeOffset, mdatStartOffset, position)
        /\ ~Settling => position = e
        /\ \A t \in Track : Laid(track[t], t, ToSet(writes), e)
Closing ==
    /\ \E x \in IntactOf(writes) :
          /\ MoovsOf(writes) = {x}
          /\ x.holds.stbl = Tables(track) /\ x.holds.elst = TrackEdits(opts, track)
    /\ \A t \in Track : Laid(track[t], t, IntactOf(writes), 0)

FileInv ==
    /\ ~headerWritten => Untouched
    /\ Undamaged =>
         /\ \A t \in Track : Tabled(opts, track[t], log[t])
         /\ ~headerWritten => Opening
         /\ headerWritten /\ trailerWritten => Closing
         /\ headerWritten /\ ~trailerWritten /\ opts.faststart => Buffered
         /\ headerWritten /\ ~trailerWritten /\ ~opts.faststart => Streamed

LEMMA ComposedIs == \A p : CompositionOffset(p) = Composed(opts, p)
  BY DEF CompositionOffset, Composed, PtsOf, DtsOf, MediaTs

LEMMA TabledNew ==
    ASSUME NEW o
    PROVE  Tabled(o, NewTrack, <<>>)
  <1>1. /\ NewTrack.stts = <<>> /\ NewTrack.ctts = <<>> /\ NewTrack.sampleSizes = <<>>
        /\ NewTrack.keyframes = <<>> /\ NewTrack.nextSampleIndex = 0
    BY DEF NewTrack
  <1>2. ExpandRuns(<<>>) = <<>>
    <2>1. <<>> \in Seq(Run)
      OBVIOUS
    <2>2. ExpandRuns(<<>>) = FlattenSeq(AllRuns(<<>>)) /\ Len(AllRuns(<<>>)) = 0
          /\ AllRuns(<<>>) \in Seq(Seq(Int))
      BY <2>1, AllRunsTyped
    <2>3. AllRuns(<<>>) = <<>>
      BY <2>2
    <2> QED
      BY <2>2, <2>3, FlattenEmpty
  <1>3. DOMAIN <<>> = {} /\ Len(<<>>) = 0 /\ 1..0 = {}
    OBVIOUS
  <1> QED
    BY <1>1, <1>2, <1>3 DEF Tabled

LEMMA SameTables ==
    ASSUME NEW o, NEW tr, NEW L, Tabled(o, tr, L), NEW r,
           r.sampleSizes = tr.sampleSizes, r.stts = tr.stts, r.ctts = tr.ctts,
           r.keyframes = tr.keyframes, r.nextSampleIndex = tr.nextSampleIndex
    PROVE  Tabled(o, r, L)
  BY DEF Tabled

LEMMA TabledRecord ==
    ASSUME NEW p \in Packets, opts \in Options, NEW tr, Timed(tr), NEW offset \in Nat,
           NEW L, IsSeq(L), Tabled(opts, tr, L),
           NEW x, x.packet = p, x.delta = ComputeDelta(tr, p)
    PROVE  Tabled(opts, Recorded(tr, p, offset), Append(L, x))
  <1> DEFINE r == Recorded(tr, p, offset)
             n == Len(L)
             M == Append(L, x)
             d == ComputeDelta(tr, p)
             c == CompositionOffset(p)
             sizes == tr.sampleSizes
             ticks == ExpandRuns(tr.stts)
             offsets == ExpandRuns(tr.ctts)
             keys == tr.keyframes
  <1>1. /\ r.sampleSizes = Append(sizes, p.size)
        /\ r.stts = PushRun(tr.stts, d) /\ r.ctts = PushRun(tr.ctts, c)
        /\ r.keyframes = IF p.key THEN Append(keys, tr.nextSampleIndex + 1) ELSE keys
        /\ r.nextSampleIndex = tr.nextSampleIndex + 1
        /\ c \in Int
    BY RecordedFields
  <1>2. /\ sizes \in Seq(Nat) /\ tr.stts \in Seq(Run) /\ tr.ctts \in Seq(Run)
        /\ keys \in Seq(Nat \ {0})
    BY DEF Timed, TrackState
  <1>3. d \in Int
    BY DeltaPositive
  <1>4. /\ ticks \in Seq(Int) /\ ExpandRuns(r.stts) = Append(ticks, d)
        /\ offsets \in Seq(Int) /\ ExpandRuns(r.ctts) = Append(offsets, c)
    BY <1>1, <1>2, <1>3, PushExpands
  <1>5. /\ n \in Nat /\ Len(M) = n + 1 /\ M[n + 1] = x /\ \A k \in 1..n : M[k] = L[k]
    BY DEF IsSeq
  <1>6. /\ tr.nextSampleIndex = n /\ Len(sizes) = n /\ Len(ticks) = n /\ Len(offsets) = n
        /\ \A k \in 1..n :
              /\ L[k].packet \in Packets
              /\ sizes[k] = L[k].packet.size
              /\ ticks[k] = L[k].delta
              /\ offsets[k] = Composed(opts, L[k].packet)
              /\ Listed(keys, k) <=> L[k].packet.key
        /\ \A j \in DOMAIN keys : keys[j] <= n
    BY DEF Tabled
  <1>7. x.packet = p /\ x.delta = d /\ c = Composed(opts, p) /\ p.size \in Nat
    BY ComposedIs, PacketIs
  <1> HIDE DEF r, n, M, d, c, sizes, ticks, offsets, keys
  <1>8. /\ Len(r.sampleSizes) = n + 1 /\ r.sampleSizes[n + 1] = p.size
        /\ \A k \in 1..n : r.sampleSizes[k] = sizes[k]
    BY <1>1, <1>2, <1>5, <1>6, <1>7
  <1>9. /\ Len(ExpandRuns(r.stts)) = n + 1 /\ ExpandRuns(r.stts)[n + 1] = d
        /\ \A k \in 1..n : ExpandRuns(r.stts)[k] = ticks[k]
    BY <1>3, <1>4, <1>5, <1>6
  <1>10. /\ Len(ExpandRuns(r.ctts)) = n + 1 /\ ExpandRuns(r.ctts)[n + 1] = c
         /\ \A k \in 1..n : ExpandRuns(r.ctts)[k] = offsets[k]
    BY <1>1, <1>4, <1>5, <1>6
  <1>11. /\ \A k \in 1..n : Listed(r.keyframes, k) <=> Listed(keys, k)
         /\ Listed(r.keyframes, n + 1) <=> p.key
         /\ \A j \in DOMAIN r.keyframes : r.keyframes[j] <= n + 1
    <2> DEFINE l == Len(keys)
               new == Append(keys, n + 1)
    <2>1. l \in Nat /\ DOMAIN keys = 1..l /\ \A j \in 1..l : keys[j] \in Nat
      BY <1>2
    <2>2. n + 1 \in Nat \ {0}
      BY <1>5
    <2>3. /\ DOMAIN new = 1..(l + 1) /\ new[l + 1] = n + 1
          /\ \A j \in 1..l : new[j] = keys[j]
      BY <1>2, <2>2
    <2>4. \A j \in 1..l : keys[j] <= n
      BY <1>6, <2>1
    <2> HIDE DEF l, new
    <2>5. CASE p.key
      <3>1. r.keyframes = new
        BY <1>1, <1>6, <2>5 DEF new
      <3>2. \A j \in 1..(l + 1) : j = l + 1 \/ j \in 1..l
        BY <2>1
      <3>3. l + 1 \in 1..(l + 1) /\ \A j \in 1..l : j \in 1..(l + 1)
        BY <2>1
      <3>4. \A k \in 1..n : Listed(new, k) <=> Listed(keys, k)
        <4> SUFFICES ASSUME NEW k \in 1..n PROVE Listed(new, k) <=> Listed(keys, k)
          OBVIOUS
        <4>1. k # n + 1
          BY <1>5
        <4> QED
          BY <2>1, <2>3, <3>2, <3>3, <4>1 DEF Listed
      <3>5. Listed(new, n + 1)
        BY <2>3, <3>3 DEF Listed
      <3>6. \A j \in DOMAIN new : new[j] <= n + 1
        BY <1>5, <2>1, <2>3, <2>4, <3>2
      <3> QED
        BY <2>5, <3>1, <3>4, <3>5, <3>6
    <2>6. CASE ~p.key
      <3>1. r.keyframes = keys
        BY <1>1, <2>6
      <3>2. ~Listed(keys, n + 1)
        <4>1. \A j \in 1..l : keys[j] # n + 1
          BY <1>5, <2>1, <2>4
        <4> QED
          BY <2>1, <4>1 DEF Listed
      <3>3. \A j \in DOMAIN keys : keys[j] <= n + 1
        BY <1>5, <2>1, <2>4
      <3> QED
        BY <2>6, <3>1, <3>2, <3>3
    <2> QED
      BY <2>5, <2>6
  <1>12. ASSUME NEW k \in 1..(n + 1)
         PROVE  /\ M[k].packet \in Packets
                /\ r.sampleSizes[k] = M[k].packet.size
                /\ ExpandRuns(r.stts)[k] = M[k].delta
                /\ ExpandRuns(r.ctts)[k] = Composed(opts, M[k].packet)
                /\ Listed(r.keyframes, k) <=> M[k].packet.key
    <2>1. CASE k \in 1..n
      BY <1>5, <1>6, <1>8, <1>9, <1>10, <1>11, <2>1
    <2>2. CASE k = n + 1
      BY <1>5, <1>7, <1>8, <1>9, <1>10, <1>11, <2>2
    <2> QED
      BY <1>5, <2>1, <2>2
  <1>13. r.nextSampleIndex = n + 1
    BY <1>1, <1>6
  <1>14. Tabled(opts, r, M)
    BY <1>5, <1>8, <1>9, <1>10, <1>11, <1>12, <1>13 DEF Tabled
  <1> QED
    BY <1>14 DEF r, M

(***************************************************************************)
(* Where the samples of a track are, as its tables grow.                   *)
(***************************************************************************)
LEMMA SliceIs ==
    ASSUME NEW S, NEW s \in Seq(S), NEW a \in Nat \ {0}, NEW b \in 0..Len(s), a <= b + 1
    PROVE  /\ SubSeq(s, a, b) \in Seq(S) /\ Len(SubSeq(s, a, b)) = b + 1 - a
           /\ \A i \in 1..(b + 1 - a) : SubSeq(s, a, b)[i] = s[a + i - 1]
  <1>1. b \in Nat /\ Len(s) \in Nat /\ b <= Len(s)
    OBVIOUS
  <1>2. SubSeq(s, a, b) = [i \in 1..(b + 1 - a) |-> s[a + i - 1]]
    BY <1>1
  <1>3. \A i \in 1..(b + 1 - a) : s[a + i - 1] \in S
    <2> SUFFICES ASSUME NEW i \in 1..(b + 1 - a) PROVE s[a + i - 1] \in S
      OBVIOUS
    <2>1. a + i - 1 \in 1..Len(s)
      BY <1>1
    <2> QED
      BY <2>1
  <1>4. b + 1 - a \in Nat
    BY <1>1
  <1> DEFINE l == b + 1 - a
             r == [i \in 1..l |-> s[a + i - 1]]
  <1>5. r \in Seq(S) /\ Len(r) = l /\ \A i \in 1..l : r[i] = s[a + i - 1]
    BY <1>3, <1>4
  <1> QED
    BY <1>2, <1>5

LEMMA SliceKept ==
    ASSUME NEW S, NEW s \in Seq(S), NEW x \in S, NEW a \in Nat \ {0}, NEW b \in 0..Len(s),
           a <= b + 1
    PROVE  SubSeq(Append(s, x), a, b) = SubSeq(s, a, b)
  <1> DEFINE r == Append(s, x)
             u == SubSeq(r, a, b)
             v == SubSeq(s, a, b)
             l == b + 1 - a
  <1>1. /\ r \in Seq(S) /\ Len(r) = Len(s) + 1 /\ Len(s) \in Nat /\ b \in Nat /\ l \in Nat
        /\ \A k \in 1..Len(s) : r[k] = s[k]
    OBVIOUS
  <1>2. b \in 0..Len(r)
    BY <1>1
  <1>3. v \in Seq(S) /\ Len(v) = l /\ \A i \in 1..l : v[i] = s[a + i - 1]
    BY SliceIs
  <1> HIDE DEF r
  <1>4. u \in Seq(S) /\ Len(u) = l /\ \A i \in 1..l : u[i] = r[a + i - 1]
    BY <1>1, <1>2, SliceIs
  <1>5. \A i \in 1..l : a + i - 1 \in 1..Len(s)
    BY <1>1
  <1> HIDE DEF u, v, l
  <1>6. \A i \in 1..l : u[i] = v[i]
    BY <1>1, <1>3, <1>4, <1>5
  <1>7. u = v
    BY <1>1, <1>3, <1>4, <1>6
  <1> QED
    BY <1>7 DEF u, v, r

LEMMA SliceGrows ==
    ASSUME NEW S, NEW s \in Seq(S), NEW x \in S, NEW a \in 1..(Len(s) + 1)
    PROVE  SubSeq(Append(s, x), a, Len(s) + 1) = Append(SubSeq(s, a, Len(s)), x)
  <1> DEFINE n == Len(s)
             r == Append(s, x)
             u == SubSeq(r, a, n + 1)
             v == SubSeq(s, a, n)
             w == Append(v, x)
             l == n + 1 - a
  <1>1. /\ r \in Seq(S) /\ Len(r) = n + 1 /\ n \in Nat /\ l \in Nat
        /\ \A k \in 1..n : r[k] = s[k]
        /\ r[n + 1] = x
        /\ a \in Nat \ {0} /\ n \in 0..Len(s) /\ a <= n + 1
    OBVIOUS
  <1> HIDE DEF r
  <1>2. v \in Seq(S) /\ Len(v) = l /\ \A i \in 1..l : v[i] = s[a + i - 1]
    BY <1>1, SliceIs
  <1> HIDE DEF v
  <1>3. w \in Seq(S) /\ Len(w) = l + 1 /\ w[l + 1] = x /\ \A i \in 1..l : w[i] = v[i]
    <2>1. l \in Nat /\ v \in Seq(S) /\ Len(v) = l
      BY <1>1, <1>2
    <2> HIDE DEF l
    <2> QED
      BY <2>1
  <1> DEFINE m == n + 1
  <1>4. m \in 0..Len(r) /\ a <= m + 1 /\ m + 1 - a = l + 1
    BY <1>1
  <1> HIDE DEF m
  <1>5. /\ SubSeq(r, a, m) \in Seq(S) /\ Len(SubSeq(r, a, m)) = m + 1 - a
        /\ \A i \in 1..(m + 1 - a) : SubSeq(r, a, m)[i] = r[a + i - 1]
    <2>1. r \in Seq(S) /\ a \in Nat \ {0} /\ m \in 0..Len(r) /\ a <= m + 1
      BY <1>1, <1>4
    <2> HIDE DEF u, w, l, n
    <2> QED
      BY <2>1, SliceIs, SMTT(30), ZenonT(60)
  <1>6. u \in Seq(S) /\ Len(u) = l + 1 /\ \A i \in 1..(l + 1) : u[i] = r[a + i - 1]
    BY <1>4, <1>5 DEF m
  <1>7. \A i \in 1..(l + 1) : (i \in 1..l /\ a + i - 1 \in 1..n) \/ (i = l + 1 /\ a + i - 1 = n + 1)
    BY <1>1
  <1> HIDE DEF u, w, l, n
  <1>8. \A i \in 1..(l + 1) : u[i] = w[i]
    <2> SUFFICES ASSUME NEW i \in 1..(l + 1) PROVE u[i] = w[i]
      OBVIOUS
    <2>1. CASE i \in 1..l /\ a + i - 1 \in 1..n
      BY <1>1, <1>2, <1>3, <1>6, <2>1
    <2>2. CASE i = l + 1 /\ a + i - 1 = n + 1
      BY <1>1, <1>3, <1>6, <2>2
    <2> QED
      BY <1>7, <2>1, <2>2
  <1>9. u = w
    BY <1>1, <1>3, <1>6, <1>8
  <1> QED
    BY <1>9 DEF u, w, v, r, n

LEMMA LaidNew ==
    ASSUME NEW t, NEW H, NEW e
    PROVE  Laid(NewTrack, t, H, e)
  <1>1. /\ NewTrack.sampleSizes = <<>> /\ NewTrack.chunkOffsets = <<>>
        /\ NewTrack.chunkCount = 0 /\ NewTrack.currentChunkSamples = 0
        /\ NewTrack.stsc = <<>>
    BY DEF NewTrack
  <1>2. Places(<<>>, 0) = <<>>
    <2>1. [k \in DOMAIN <<>> |-> RunPlaces(<<>>, 0, k)] = <<>>
      OBVIOUS
    <2> QED
      BY <2>1, FlattenEmpty DEF Places
  <1>3. ChunkPlaces(1, 0) = <<>>
    <2>1. ChunkPlaces(1, 0) \in Seq(Place) /\ Len(ChunkPlaces(1, 0)) = 0
      BY ChunkPlacesTyped
    <2> QED
      BY <2>1
  <1>4. Full(NewTrack) = <<>>
    <2>1. <<>> \o <<>> = <<>>
      OBVIOUS
    <2> QED
      BY <1>1, <1>2, <1>3, <2>1 DEF Full
  <1>5. Len(<<>>) = 0 /\ 1..0 = {}
    OBVIOUS
  <1> QED
    BY <1>1, <1>4, <1>5 DEF Laid

(* Other extents come to the file; the samples stay. *)
LEMMA LaidKept ==
    ASSUME NEW tr, NEW t, NEW H, NEW e, Laid(tr, t, H, e), NEW J, H \subseteq J
    PROVE  Laid(tr, t, J, e)
  BY DEF Laid

LEMMA LaidClosed ==
    ASSUME NEW tr, Timed(tr), Shaped(tr), NEW t, NEW H, NEW e, Laid(tr, t, H, e),
           NEW J, H \subseteq J, NEW f
    PROVE  Laid(CloseChunk(tr), t, J, f)
  <1> DEFINE r == CloseChunk(tr)
  <1>1. Full(r) = Full(tr) /\ r.currentChunkSamples = 0
    BY CloseShape
  <1>2. /\ r.sampleSizes = tr.sampleSizes /\ r.chunkOffsets = tr.chunkOffsets
        /\ r.chunkCount = IF tr.currentChunkSamples = 0 THEN tr.chunkCount
                                                        ELSE tr.chunkCount + 1
    BY CloseFields
  <1>3. tr.currentChunkSamples \in Nat /\ tr.chunkCount \in Nat
    BY DEF Timed, TrackState
  <1> HIDE DEF r
  <1>4. Len(r.chunkOffsets) = r.chunkCount + (IF r.currentChunkSamples > 0 THEN 1 ELSE 0)
    BY <1>1, <1>2, <1>3 DEF Laid
  <1>5. Laid(r, t, J, f)
    BY <1>1, <1>2, <1>4 DEF Laid
  <1> QED
    BY <1>5 DEF r

LEMMA AddressIs ==
    ASSUME NEW offsets, NEW sizes, NEW place, NEW k, NEW c, NEW a, NEW b,
           place.chunk = c, k - place.nth = a, k - 1 = b
    PROVE  AddressOf(offsets, sizes, place, k) = offsets[c] + Total(SubSeq(sizes, a, b))
  BY Zenon DEF AddressOf

LEMMA LaidJoined ==
    ASSUME NEW p \in Packets, opts \in Options, NEW tr, Timed(tr), Shaped(tr),
           NEW t, NEW H, NEW e \in Nat, Laid(tr, t, H, e), NEW J, H \subseteq J,
           Stored(t, Len(Full(tr)) + 1, e, p.size) \in J
    PROVE  Laid(Recorded(tr, p, e), t, J, e + p.size)
  <1> DEFINE r == Recorded(tr, p, e)
             P == Full(tr)
             n == Len(P)
             m == tr.currentChunkSamples
             C == tr.chunkCount
             sizes == tr.sampleSizes
             offsets == tr.chunkOffsets
             z == p.size
             x == [chunk |-> C + 1, nth |-> m]
             Q == Append(P, x)
             s == Append(sizes, z)
             o == IF m = 0 THEN Append(offsets, e) ELSE offsets
             ends == Ends(opts, p.track, m + 1, p)
  <1>1. /\ Full(r) = Q
        /\ r.currentChunkSamples = IF ends THEN 0 ELSE m + 1
    BY RecordedShape
  <1>2. /\ r.sampleSizes = s /\ r.chunkOffsets = o
        /\ r.chunkCount = C + (IF ends THEN 1 ELSE 0)
    BY RecordedFields
  <1>3. /\ sizes \in Seq(Nat) /\ offsets \in Seq(Nat) /\ m \in Nat /\ C \in Nat /\ z \in Nat
    BY PacketIs DEF Timed, TrackState
  <1>4. P \in Seq(Place) /\ n \in Nat /\ m <= n
    <2>1. P \in Seq(Place) /\ n = Len(Places(tr.stsc, C)) + m /\ n \in Nat
      BY FullIs
    <2>2. Places(tr.stsc, C) \in Seq(Place)
      BY PlacesTyped DEF Shaped
    <2>3. Len(Places(tr.stsc, C)) \in Nat
      BY <2>2
    <2> QED
      BY <1>3, <2>1, <2>3
  <1>5. /\ Len(sizes) = n
        /\ Len(offsets) = C + (IF m > 0 THEN 1 ELSE 0)
        /\ \A k \in 1..n :
              /\ P[k].chunk \in 1..Len(offsets) /\ P[k].nth <= k - 1
              /\ Stored(t, k, AddressOf(offsets, sizes, P[k], k), sizes[k]) \in H
        /\ m > 0 => AddressOf(offsets, sizes, [chunk |-> C + 1, nth |-> m], n + 1) = e
    BY DEF Laid
  <1>6. Stored(t, n + 1, e, z) \in J
    OBVIOUS
  <1>7. x.chunk = C + 1 /\ x.nth = m /\ x \in Place
    BY <1>3 DEF Place
  <1> HIDE DEF r, P, n, m, C, sizes, offsets, z, x, Q, s, o, ends
  <1>8. /\ Len(Q) = n + 1 /\ Q[n + 1] = x /\ \A k \in 1..n : Q[k] = P[k]
        /\ Len(s) = n + 1 /\ s[n + 1] = z /\ \A k \in 1..n : s[k] = sizes[k]
        /\ s \in Seq(Nat)
    <2>1. Len(P) = n
      BY DEF n
    <2>2. Len(Q) = n + 1 /\ Q[n + 1] = x /\ \A k \in 1..n : Q[k] = P[k]
      BY <1>4, <1>7, <2>1 DEF Q
    <2>3. Len(sizes) = n
      BY <1>5
    <2>4. /\ Len(s) = n + 1 /\ s[n + 1] = z /\ \A k \in 1..n : s[k] = sizes[k]
          /\ s \in Seq(Nat)
      BY <1>3, <2>3 DEF s
    <2> QED
      BY <2>2, <2>4
  <1>9. Len(o) = C + 1 /\ \A k \in 1..Len(offsets) : o[k] = offsets[k]
    BY <1>3, <1>5 DEF o
  <1>10. \A k \in 1..Len(offsets) : k \in 1..(C + 1)
    BY <1>3, <1>5
  <1>11. ASSUME NEW k \in 1..n
         PROVE  AddressOf(o, s, Q[k], k) = AddressOf(offsets, sizes, P[k], k)
    <2> DEFINE a == k - P[k].nth
               b == k - 1
    <2>1. P[k] \in Place /\ Q[k] = P[k] /\ P[k].nth <= k - 1 /\ P[k].chunk \in 1..Len(offsets)
      <3>1. P[k] \in Place
        BY <1>4 DEF n
      <3> QED
        BY <1>5, <1>8, <3>1
    <2>2. P[k].nth \in Nat
      BY <2>1 DEF Place
    <2>3. a \in Nat \ {0} /\ b \in 0..Len(sizes) /\ a <= b + 1
      <3> DEFINE i == P[k].nth
      <3>1. Len(sizes) = n /\ i \in Nat /\ i <= k - 1 /\ n \in Nat
        BY <1>4, <1>5, <2>1, <2>2
      <3> HIDE DEF i
      <3>2. k - i \in Nat \ {0} /\ k - 1 \in 0..n /\ k - i <= (k - 1) + 1
        BY <3>1
      <3> QED
        BY <3>1, <3>2 DEF i
    <2> HIDE DEF a, b
    <2>4. SubSeq(s, a, b) = SubSeq(sizes, a, b)
      BY <1>3, <2>3, SliceKept DEF s
    <2> QED
      BY <1>9, <2>1, <2>4 DEF AddressOf, a, b
  <1>12. AddressOf(o, s, x, n + 1) = e
    <2> DEFINE a == n + 1 - m
    <2>1. /\ a \in Nat \ {0} /\ n \in 0..Len(sizes) /\ a <= n + 1 /\ (n + 1) - 1 = n
      <3>1. Len(sizes) = n
        BY <1>5
      <3> QED
        BY <1>3, <1>4, <3>1
    <2>a. (n + 1) - x.nth = a /\ (n + 1) - 1 = n
      BY <1>3, <1>4, <1>7
    <2>2. AddressOf(o, s, x, n + 1) = o[C + 1] + Total(SubSeq(s, a, n))
      <3> HIDE DEF a
      <3> QED
        BY <1>7, <2>a, AddressIs
    <2>3. AddressOf(offsets, sizes, [chunk |-> C + 1, nth |-> m], n + 1)
            = offsets[C + 1] + Total(SubSeq(sizes, a, n))
      <3>1. x = [chunk |-> C + 1, nth |-> m]
        BY DEF x
      <3>2. AddressOf(offsets, sizes, x, n + 1) = offsets[C + 1] + Total(SubSeq(sizes, a, n))
        <4> HIDE DEF a
        <4> QED
          BY <1>7, <2>a, AddressIs
      <3> QED
        BY <3>1, <3>2
    <2>4. SubSeq(s, a, n) = SubSeq(sizes, a, n)
      <3> HIDE DEF a
      <3> QED
        BY <1>3, <2>1, SliceKept DEF s
    <2>5. CASE m = 0
      <3>1. a = n + 1
        BY <1>4, <2>5
      <3>2. SubSeq(sizes, a, n) = <<>>
        <4> HIDE DEF a
        <4>1. SubSeq(sizes, a, n) \in Seq(Nat) /\ Len(SubSeq(sizes, a, n)) = n + 1 - a
          BY <1>3, <2>1, SliceIs
        <4>2. Len(SubSeq(sizes, a, n)) = 0
          BY <1>4, <3>1, <4>1
        <4> QED
          BY <4>1, <4>2
      <3>3. o[C + 1] = e
        BY <1>3, <1>5, <2>5 DEF o
      <3>4. Total(SubSeq(s, a, n)) = 0
        BY <2>4, <3>2, TotalEmpty
      <3> QED
        BY <2>2, <3>3, <3>4
    <2>6. CASE m > 0
      <3>1. o = offsets
        BY <1>3, <2>6 DEF o
      <3> QED
        BY <1>5, <2>2, <2>3, <2>4, <2>6, <3>1
    <2> QED
      BY <1>3, <2>5, <2>6
  <1>13. ~ends => AddressOf(o, s, [chunk |-> C + 1, nth |-> m + 1], n + 2) = e + z
    <2> DEFINE a == n + 1 - m
               y == [chunk |-> C + 1, nth |-> m + 1]
               u == SubSeq(sizes, a, n)
    <2>1. /\ a \in 1..(n + 1) /\ n + 2 - (m + 1) = a /\ (n + 2) - 1 = n + 1
          /\ y.chunk = C + 1 /\ y.nth = m + 1 /\ (n + 1) - m = a /\ (n + 1) - 1 = n
          /\ a \in Nat \ {0} /\ a <= n + 1 /\ n \in 0..Len(sizes)
      <3>1. Len(sizes) = n
        BY <1>5
      <3> QED
        BY <1>3, <1>4, <3>1
    <2> HIDE DEF a, y
    <2>2. AddressOf(o, s, y, n + 2) = o[C + 1] + Total(SubSeq(s, a, n + 1))
      <3>1. y.chunk = C + 1 /\ (n + 2) - y.nth = a /\ (n + 2) - 1 = n + 1
        BY <1>3, <1>4, <2>1
      <3> QED
        BY <3>1, AddressIs
    <2>3. AddressOf(o, s, x, n + 1) = o[C + 1] + Total(SubSeq(s, a, n))
      BY <1>7, <2>1, AddressIs
    <2>4. SubSeq(s, a, n) = u
      BY <1>3, <2>1, SliceKept DEF s
    <2>5. SubSeq(s, a, n + 1) = Append(u, z)
      <3>1. a \in 1..(Len(sizes) + 1)
        BY <1>5, <2>1
      <3>2. SubSeq(s, a, Len(sizes) + 1) = Append(SubSeq(sizes, a, Len(sizes)), z)
        BY <1>3, <3>1, SliceGrows DEF s
      <3> QED
        BY <1>5, <3>2
    <2>6. u \in Seq(Nat)
      BY <1>3, <2>1, SliceIs
    <2> HIDE DEF u
    <2>7. u \in Seq(Int) /\ z \in Int
      BY <1>3, <2>6
    <2>8. Total(Append(u, z)) = Total(u) + z /\ Total(u) \in Int
      BY <2>7, TotalAppend, TotalInt
    <2>9. o[C + 1] \in Int
      <3>1. o \in Seq(Nat)
        BY <1>3 DEF o
      <3>2. C + 1 \in 1..Len(o)
        BY <1>3, <1>9
      <3>3. o[C + 1] \in Nat
        BY <3>1, <3>2
      <3> QED
        BY <3>3
    <2>10. AddressOf(o, s, y, n + 2) = e + z
      <3>1. AddressOf(o, s, y, n + 2) = o[C + 1] + (Total(u) + z)
        BY <2>2, <2>5, <2>8
      <3>2. e = o[C + 1] + Total(u)
        BY <1>12, <2>3, <2>4
      <3> HIDE DEF a, y
      <3> QED
        BY <2>7, <2>8, <2>9, <3>1, <3>2
    <2> QED
      BY <2>10 DEF y
  <1>14. ASSUME NEW k \in 1..(n + 1)
         PROVE  /\ Q[k].chunk \in 1..(C + 1) /\ Q[k].nth <= k - 1
                /\ Stored(t, k, AddressOf(o, s, Q[k], k), s[k]) \in J
    <2>1. CASE k \in 1..n
      BY <1>5, <1>8, <1>10, <1>11, <2>1
    <2>2. CASE k = n + 1
      BY <1>3, <1>4, <1>6, <1>7, <1>8, <1>12, <2>2
    <2> QED
      BY <1>4, <2>1, <2>2
  <1>15. Laid(r, t, J, e + z)
    <2>1. Len(o) = r.chunkCount + (IF r.currentChunkSamples > 0 THEN 1 ELSE 0)
      BY <1>1, <1>2, <1>3, <1>9
    <2>2. r.currentChunkSamples > 0 =>
            AddressOf(o, s, [chunk |-> r.chunkCount + 1, nth |-> r.currentChunkSamples],
                      Len(Q) + 1) = e + z
      <3> SUFFICES ASSUME r.currentChunkSamples > 0
                   PROVE  AddressOf(o, s, [chunk |-> r.chunkCount + 1,
                                           nth |-> r.currentChunkSamples],
                                    Len(Q) + 1) = e + z
        OBVIOUS
      <3>1. ~ends
        BY <1>1
      <3>2. r.chunkCount = C /\ r.currentChunkSamples = m + 1 /\ Len(Q) + 1 = n + 2
        BY <1>1, <1>2, <1>3, <1>4, <1>8, <3>1
      <3> QED
        BY <1>13, <3>1, <3>2
    <2> QED
      BY <1>1, <1>2, <1>8, <1>9, <1>14, <2>1, <2>2 DEF Laid
  <1> QED
    BY <1>15 DEF r, z

(* The payload moves as a whole. *)
Slides(t, H, J, base) ==
    \A k, size : \A at \in Nat : Stored(t, k, at, size) \in H => Stored(t, k, at + base, size) \in J

LEMMA MovedFields ==
    ASSUME NEW tr, Timed(tr), NEW base \in Nat
    PROVE  LET r == Moved(tr, base)
           IN  /\ r.sampleSizes = tr.sampleSizes /\ r.stts = tr.stts /\ r.ctts = tr.ctts
               /\ r.keyframes = tr.keyframes /\ r.nextSampleIndex = tr.nextSampleIndex
               /\ r.stsc = tr.stsc /\ r.chunkCount = tr.chunkCount
               /\ r.lastSamplesPerChunk = tr.lastSamplesPerChunk
               /\ r.currentChunkSamples = tr.currentChunkSamples
               /\ Len(r.chunkOffsets) = Len(tr.chunkOffsets)
               /\ \A k \in 1..Len(tr.chunkOffsets) :
                    r.chunkOffsets[k] = tr.chunkOffsets[k] + base
  <1> DEFINE r == Moved(tr, base)
             s == tr.chunkOffsets
             new == [k \in DOMAIN s |-> s[k] + base]
  <1>1. r = [tr EXCEPT !.chunkOffsets = new]
    BY DEF Moved
  <1>2. s \in Seq(Nat)
    BY DEF Timed, TrackState
  <1>3. Len(new) = Len(s) /\ \A k \in 1..Len(s) : new[k] = s[k] + base
    BY <1>2
  <1> HIDE DEF r, new
  <1>4. /\ r.sampleSizes = tr.sampleSizes /\ r.stts = tr.stts /\ r.ctts = tr.ctts
        /\ r.keyframes = tr.keyframes /\ r.nextSampleIndex = tr.nextSampleIndex
        /\ r.stsc = tr.stsc /\ r.chunkCount = tr.chunkCount
        /\ r.lastSamplesPerChunk = tr.lastSamplesPerChunk
        /\ r.currentChunkSamples = tr.currentChunkSamples
        /\ r.chunkOffsets = new
    BY <1>1 DEF Timed, TrackState
  <1> QED
    BY <1>3, <1>4 DEF r

LEMMA LaidMoved ==
    ASSUME NEW tr, Timed(tr), Shaped(tr), tr.currentChunkSamples = 0, NEW base \in Nat,
           NEW t, NEW H, NEW e, Laid(tr, t, H, e), NEW J, Slides(t, H, J, base), NEW f
    PROVE  Laid(Moved(tr, base), t, J, f)
  <1> DEFINE r == Moved(tr, base)
             P == Full(tr)
             n == Len(P)
             sizes == tr.sampleSizes
             offsets == tr.chunkOffsets
             o == r.chunkOffsets
  <1>1. /\ r.sampleSizes = sizes
        /\ r.stsc = tr.stsc /\ r.chunkCount = tr.chunkCount
        /\ r.lastSamplesPerChunk = tr.lastSamplesPerChunk
        /\ r.currentChunkSamples = 0
        /\ Len(o) = Len(offsets)
        /\ \A k \in 1..Len(offsets) : o[k] = offsets[k] + base
    BY MovedFields
  <1>2. Full(r) = P
    <2> HIDE DEF r
    <2> QED
      BY <1>1, SameShape
  <1>3. sizes \in Seq(Nat) /\ offsets \in Seq(Nat)
    BY DEF Timed, TrackState
  <1>4. P \in Seq(Place) /\ n \in Nat
    BY FullIs
  <1>5. /\ Len(sizes) = n /\ Len(offsets) = tr.chunkCount + 0
        /\ \A k \in 1..n :
              /\ P[k].chunk \in 1..Len(offsets) /\ P[k].nth <= k - 1
              /\ Stored(t, k, AddressOf(offsets, sizes, P[k], k), sizes[k]) \in H
    BY DEF Laid
  <1> HIDE DEF r, P, n, sizes, offsets
  <1>6. ASSUME NEW k \in 1..n
        PROVE  Stored(t, k, AddressOf(o, sizes, P[k], k), sizes[k]) \in J
    <2> DEFINE i == P[k].nth
               c == P[k].chunk
               a == k - i
               b == k - 1
               q == SubSeq(sizes, a, b)
    <2>1. i \in Nat /\ i <= k - 1 /\ c \in 1..Len(offsets)
      <3>1. P[k] \in Place
        BY <1>4 DEF n
      <3>2. P[k].nth \in Nat
        BY <3>1 DEF Place
      <3> QED
        BY <1>5, <3>2
    <2> HIDE DEF i, c
    <2>2. a \in Nat \ {0} /\ b \in 0..n /\ a <= b + 1
      BY <1>4, <2>1
    <2>3. b \in 0..Len(sizes)
      BY <1>5, <2>2
    <2> HIDE DEF a, b
    <2>4. q \in Seq(Nat)
      BY <1>3, <2>2, <2>3, SliceIs
    <2>5. Total(q) \in Nat
      BY <2>4, TotalNat
    <2>6. /\ AddressOf(offsets, sizes, P[k], k) = offsets[c] + Total(q)
          /\ AddressOf(o, sizes, P[k], k) = o[c] + Total(q)
      <3>1. P[k].chunk = c /\ k - P[k].nth = a /\ k - 1 = b
        BY DEF a, b, c, i
      <3> QED
        BY <3>1, AddressIs
    <2>7. offsets[c] \in Nat /\ o[c] = offsets[c] + base
      BY <1>1, <1>3, <2>1
    <2> HIDE DEF q
    <2> DEFINE at == offsets[c] + Total(q)
    <2>8. at \in Nat /\ o[c] + Total(q) = at + base
      BY <2>5, <2>7
    <2>9. Stored(t, k, at, sizes[k]) \in H
      BY <1>5, <2>6
    <2> HIDE DEF at
    <2>10. Stored(t, k, at + base, sizes[k]) \in J
      BY <2>8, <2>9 DEF Slides
    <2> QED
      BY <2>6, <2>8, <2>10
  <1>7. Len(o) = r.chunkCount + (IF r.currentChunkSamples > 0 THEN 1 ELSE 0)
    BY <1>1, <1>5
  <1>8. Laid(r, t, J, f)
    BY <1>1, <1>2, <1>5, <1>6, <1>7 DEF Laid, n
  <1> QED
    BY <1>8 DEF r

(***************************************************************************)
(* What the tables of a closed track expand to.                            *)
(***************************************************************************)
LEMMA ZeroRuns ==
    ASSUME NEW runs \in Seq(Run), \A k \in 1..Len(runs) : runs[k].value = 0
    PROVE  \A i \in 1..Len(ExpandRuns(runs)) : ExpandRuns(runs)[i] = 0
  <1> DEFINE ss == AllRuns(runs)
  <1>1. /\ Len(ss) = Len(runs) /\ Len(runs) \in Nat /\ ExpandRuns(runs) = FlattenSeq(ss)
        /\ ss \in Seq(Seq(Int)) /\ \A k \in 1..Len(runs) : ss[k] = RunValues(runs[k])
    BY AllRunsTyped
  <1>2. \A k \in 1..Len(runs) : ss[k] \in Seq({0})
    <2> SUFFICES ASSUME NEW k \in 1..Len(runs) PROVE ss[k] \in Seq({0})
      OBVIOUS
    <2> DEFINE v == RunValues(runs[k])
    <2>1. runs[k] \in Run /\ runs[k].value = 0
      OBVIOUS
    <2>2. /\ v \in Seq(Int) /\ Len(v) = runs[k].count
          /\ \A j \in 1..runs[k].count : v[j] = 0
      BY <2>1, RunValuesTyped
    <2>3. ss[k] = v
      BY <1>1
    <2> HIDE DEF v
    <2>4. \A j \in 1..Len(v) : v[j] \in {0}
      BY <2>2
    <2>5. v = [j \in 1..Len(v) |-> v[j]] /\ Len(v) \in Nat
      BY <2>2
    <2>6. v \in Seq({0})
      BY <2>4, <2>5
    <2> QED
      BY <2>3, <2>6
  <1> HIDE DEF ss
  <1>3. ss = [k \in 1..Len(ss) |-> ss[k]]
    BY <1>1
  <1>4. ss \in Seq(Seq({0}))
    <2> DEFINE Z == Seq({0})
               l == Len(ss)
    <2>1. l \in Nat /\ \A k \in 1..l : ss[k] \in Z
      BY <1>1, <1>2
    <2>2. ss = [k \in 1..l |-> ss[k]]
      BY <1>3
    <2> HIDE DEF Z, l
    <2>3. ss \in Seq(Z)
      BY <2>1, <2>2
    <2> QED
      BY <2>3 DEF Z
  <1>5. ExpandRuns(runs) \in Seq({0})
    BY <1>1, <1>4, FlattenTyped
  <1> DEFINE x == ExpandRuns(runs)
  <1> HIDE DEF x
  <1>6. x \in Seq({0})
    BY <1>5 DEF x
  <1>7. \A i \in 1..Len(x) : x[i] \in {0}
    BY <1>6
  <1> QED
    BY <1>7 DEF x

LEMMA OffsetsRead ==
    ASSUME NEW tr, Timed(tr), NEW i \in 1..Len(ExpandRuns(tr.ctts))
    PROVE  ValueAt(ExpandRuns(StblOf(tr).ctts), i, 0) = ExpandRuns(tr.ctts)[i]
  <1> DEFINE x == ExpandRuns(tr.ctts)
  <1>1. tr.ctts \in Seq(Run)
    BY DEF Timed, TrackState
  <1>2. x \in Seq(Int)
    BY <1>1, PushExpands
  <1>3. StblOf(tr).ctts = IF Reordered(tr) THEN tr.ctts ELSE <<>>
    BY DEF StblOf
  <1>4. CASE Reordered(tr)
    <2>1. i \in DOMAIN x
      <3> HIDE DEF x
      <3>1. i \in 1..Len(x)
        BY DEF x
      <3> QED
        BY <1>2, <3>1
    <2> QED
      BY <1>3, <1>4, <2>1 DEF ValueAt
  <1>5. CASE ~Reordered(tr)
    <2>1. \A k \in 1..Len(tr.ctts) : tr.ctts[k].value = 0
      BY <1>1, <1>5 DEF Reordered
    <2>2. x[i] = 0
      BY <1>1, <2>1, ZeroRuns
    <2>3. ExpandRuns(<<>>) = <<>>
      <3>1. <<>> \in Seq(Run)
        OBVIOUS
      <3>2. ExpandRuns(<<>>) = FlattenSeq(AllRuns(<<>>)) /\ Len(AllRuns(<<>>)) = 0
            /\ AllRuns(<<>>) \in Seq(Seq(Int))
        BY <3>1, AllRunsTyped
      <3>3. AllRuns(<<>>) = <<>>
        BY <3>2
      <3> QED
        BY <3>2, <3>3, FlattenEmpty
    <2>4. StblOf(tr).ctts = <<>>
      BY <1>3, <1>5
    <2>5. i \notin DOMAIN <<>>
      OBVIOUS
    <2> QED
      BY <2>2, <2>3, <2>4, <2>5 DEF ValueAt
  <1> QED
    BY <1>4, <1>5

LEMMA TotalItself ==
    ASSUME NEW S, NEW q \in Seq(S)
    PROVE  LET bytes(b) == b IN SumOf(q, bytes) = Total(q)
  <1>1. [k \in DOMAIN q |-> q[k]] = q
    OBVIOUS
  <1> QED
    BY <1>1 DEF SumOf

(* One sample, in terms of its tables. *)
IsEntry(s, stbl, i, c, a) ==
    /\ s.offset = stbl.chunkOffsets[c] + Total(SubSeq(stbl.stsz, a, i - 1))
    /\ s.size = stbl.stsz[i]
    /\ s.duration = ValueAt(ExpandRuns(stbl.stts), i, 0)
    /\ s.cts = ValueAt(ExpandRuns(stbl.ctts), i, 0)
    /\ s.key = (stbl.stss = <<>> \/ Listed(stbl.stss, i))
LEMMA SampleIs ==
    ASSUME NEW stbl, NEW n, n = Len(stbl.stsz), NEW i \in 1..n,
           NEW S, NEW place, place = Placement(stbl.stsc, Len(stbl.chunkOffsets), n),
           NEW a, a = i - place[i].nth, SubSeq(stbl.stsz, a, i - 1) \in Seq(S)
    PROVE  /\ IsEntry(ExpandSamples(stbl)[i], stbl, i, place[i].chunk, a)
           /\ DOMAIN ExpandSamples(stbl) = 1..n
  <1> DEFINE delta == ExpandRuns(stbl.stts)
             ticks(d) == d
             bytes(b) == b
             dts(k) == SumOf(SubSeq(delta, 1, Min({k - 1, Len(delta)})), ticks)
             at(k) == stbl.chunkOffsets[place[k].chunk]
                        + SumOf(SubSeq(stbl.stsz, k - place[k].nth, k - 1), bytes)
             span(k) == ValueAt(delta, k, 0)
             cts(k) == ValueAt(ExpandRuns(stbl.ctts), k, 0)
             key(k) == stbl.stss = <<>> \/ \E j \in DOMAIN stbl.stss : stbl.stss[j] = k
  <1>1. ExpandSamples(stbl) =
          [k \in 1..n |-> [offset |-> at(k), size |-> stbl.stsz[k], dts |-> dts(k),
                           duration |-> span(k), cts |-> cts(k), key |-> key(k)]]
    BY DEF ExpandSamples
  <1> HIDE DEF dts, at, span, cts, key
  <1>2. ExpandSamples(stbl)[i] =
          [offset |-> at(i), size |-> stbl.stsz[i], dts |-> dts(i),
           duration |-> span(i), cts |-> cts(i), key |-> key(i)]
        /\ DOMAIN ExpandSamples(stbl) = 1..n
    BY <1>1
  <1>3. at(i) = stbl.chunkOffsets[place[i].chunk] + SumOf(SubSeq(stbl.stsz, a, i - 1), bytes)
    BY DEF at
  <1>4. SumOf(SubSeq(stbl.stsz, a, i - 1), bytes) = Total(SubSeq(stbl.stsz, a, i - 1))
    BY TotalItself
  <1>5. key(i) = (stbl.stss = <<>> \/ Listed(stbl.stss, i))
    BY DEF key, Listed
  <1> DEFINE s == ExpandSamples(stbl)[i]
  <1>6. /\ s.offset = at(i) /\ s.size = stbl.stsz[i] /\ s.duration = span(i)
        /\ s.cts = cts(i) /\ s.key = key(i)
    BY <1>2
  <1>7. IsEntry(s, stbl, i, place[i].chunk, a)
    BY <1>3, <1>4, <1>5, <1>6 DEF span, cts, IsEntry
  <1> QED
    BY <1>2, <1>7

(* The tables of a closed track, read back: every packet that it holds, at *)
(* the place in the file where its payload is.                             *)
Reads(o, t, stbl, L, I) ==
    LET s == ExpandSamples(stbl)
    IN  /\ Expandable(stbl) /\ DOMAIN s = 1..Len(L)
        /\ \A k \in 1..Len(L) :
              /\ s[k].size = L[k].packet.size
              /\ s[k].duration = L[k].delta
              /\ s[k].cts = Composed(o, L[k].packet)
              /\ (\E j \in 1..Len(L) : L[j].packet.key) => s[k].key = L[k].packet.key
              /\ Stored(t, k, s[k].offset, s[k].size) \in I

LEMMA TrackReads ==
    ASSUME NEW o, NEW t, NEW tr, Timed(tr), Shaped(tr), tr.currentChunkSamples = 0,
           NEW L, IsSeq(L), Tabled(o, tr, L), NEW I, NEW e, Laid(tr, t, I, e)
    PROVE  Reads(o, t, StblOf(tr), L, I)
  <1> DEFINE stbl == StblOf(tr)
             n == Len(L)
             C == tr.chunkCount
             P == Full(tr)
             s == ExpandSamples(stbl)
             sizes == tr.sampleSizes
             offsets == tr.chunkOffsets
             place == Placement(stbl.stsc, Len(stbl.chunkOffsets), n)
  <1>1. /\ stbl.stsz = sizes /\ stbl.stts = tr.stts /\ stbl.stss = tr.keyframes
        /\ stbl.stsc = tr.stsc /\ stbl.chunkOffsets = offsets
    BY DEF StblOf
  <1>2. /\ sizes \in Seq(Nat) /\ offsets \in Seq(Nat) /\ C \in Nat
        /\ tr.stts \in Seq(Run) /\ tr.ctts \in Seq(Run) /\ tr.keyframes \in Seq(Nat \ {0})
    BY DEF Timed, TrackState
  <1>3. n \in Nat
    BY DEF IsSeq
  <1>4. /\ Len(sizes) = n
        /\ Len(ExpandRuns(tr.stts)) = n /\ Len(ExpandRuns(tr.ctts)) = n
        /\ \A k \in 1..n :
              /\ L[k].packet \in Packets
              /\ sizes[k] = L[k].packet.size
              /\ ExpandRuns(tr.stts)[k] = L[k].delta
              /\ ExpandRuns(tr.ctts)[k] = Composed(o, L[k].packet)
              /\ Listed(tr.keyframes, k) <=> L[k].packet.key
    BY DEF Tabled
  <1>5. /\ Len(sizes) = Len(P) /\ Len(offsets) = C
        /\ \A k \in 1..Len(P) :
              /\ P[k].chunk \in 1..Len(offsets) /\ P[k].nth <= k - 1
              /\ Stored(t, k, AddressOf(offsets, sizes, P[k], k), sizes[k]) \in I
    BY <1>2 DEF Laid
  <1>6. P \in Seq(Place) /\ Len(P) = n
    BY <1>4, <1>5, FullIs
  <1>7. place = P
    <2>1. ChunkPlaces(C + 1, 0) = <<>>
      BY DEF ChunkPlaces
    <2>2. Places(tr.stsc, C) \in Seq(Place)
      BY PlacesTyped DEF Shaped
    <2>3. Places(tr.stsc, C) \o <<>> = Places(tr.stsc, C)
      BY <2>2, ConcatEmptySeq
    <2>4. Places(tr.stsc, C) = P
      BY <2>1, <2>3 DEF Full
    <2> HIDE DEF P, n
    <2>5. Placement(tr.stsc, C, n) = P
      BY <1>3, <1>6, <2>4, PlacementIs DEF Shaped, P
    <2> QED
      BY <1>1, <1>5, <2>5
  <1>8. Expandable(stbl)
    <2>1. \A k \in 1..n : place[k].chunk \in 1..Len(stbl.chunkOffsets)
      BY <1>1, <1>5, <1>6, <1>7
    <2>2. Len(stbl.stsz) = n
      BY <1>1, <1>4
    <2> QED
      BY <2>1, <2>2 DEF Expandable
  <1>9. ASSUME NEW k \in 1..n
        PROVE  /\ s[k].offset = AddressOf(offsets, sizes, P[k], k)
               /\ s[k].size = sizes[k]
               /\ s[k].duration = ExpandRuns(tr.stts)[k]
               /\ s[k].cts = ExpandRuns(tr.ctts)[k]
               /\ s[k].key = (tr.keyframes = <<>> \/ Listed(tr.keyframes, k))
               /\ DOMAIN s = 1..n
    <2> DEFINE a == k - P[k].nth
               b == k - 1
               q == SubSeq(sizes, a, b)
    <2>1. q \in Seq(Nat)
      <3> DEFINE i == P[k].nth
      <3>1. k \in 1..Len(P)
        BY <1>6
      <3>2. P[k] \in Place
        BY <1>6, <3>1
      <3>3. i \in Nat /\ i <= k - 1
        BY <1>5, <3>1, <3>2 DEF Place
      <3> HIDE DEF i
      <3>4. k - i \in Nat \ {0} /\ k - 1 \in 0..n /\ k - i <= (k - 1) + 1
        BY <1>3, <3>3
      <3>5. a \in Nat \ {0} /\ b \in 0..Len(sizes) /\ a <= b + 1
        BY <1>4, <3>4 DEF i
      <3> HIDE DEF a, b
      <3> QED
        BY <1>2, <3>5, SliceIs
    <2>2. AddressOf(offsets, sizes, P[k], k) = offsets[P[k].chunk] + Total(q)
      BY AddressIs
    <2>3. a = k - place[k].nth /\ n = Len(stbl.stsz) /\ SubSeq(stbl.stsz, a, k - 1) = q
      BY <1>1, <1>4, <1>7
    <2> HIDE DEF a, b, q, place, stbl, n
    <2>4. place = Placement(stbl.stsc, Len(stbl.chunkOffsets), n)
      BY DEF place
    <2>5. SubSeq(stbl.stsz, a, k - 1) \in Seq(Nat)
      BY <2>1, <2>3
    <2>6. /\ s[k].offset = stbl.chunkOffsets[place[k].chunk] + Total(SubSeq(stbl.stsz, a, k - 1))
          /\ s[k].size = stbl.stsz[k]
          /\ s[k].duration = ValueAt(ExpandRuns(stbl.stts), k, 0)
          /\ s[k].cts = ValueAt(ExpandRuns(stbl.ctts), k, 0)
          /\ s[k].key = (stbl.stss = <<>> \/ Listed(stbl.stss, k))
          /\ DOMAIN s = 1..n
      <3>1. IsEntry(ExpandSamples(stbl)[k], stbl, k, place[k].chunk, a)
            /\ DOMAIN ExpandSamples(stbl) = 1..n
        BY <2>3, <2>4, <2>5, SampleIs
      <3> QED
        BY <3>1 DEF IsEntry, s
    <2>7. ValueAt(ExpandRuns(stbl.stts), k, 0) = ExpandRuns(tr.stts)[k]
      <3> DEFINE x == ExpandRuns(tr.stts)
      <3>1. x \in Seq(Int) /\ Len(x) = n
        <4>1. ExpandRuns(tr.stts) \in Seq(Int)
          BY <1>2, AllRunsTyped
        <4> QED
          BY <1>4, <4>1
      <3> HIDE DEF x
      <3>2. k \in DOMAIN x
        BY <3>1
      <3> QED
        BY <1>1, <3>2 DEF ValueAt, x
    <2>8. ValueAt(ExpandRuns(stbl.ctts), k, 0) = ExpandRuns(tr.ctts)[k]
      BY <1>4, OffsetsRead DEF stbl
    <2> QED
      BY <1>1, <1>7, <2>2, <2>3, <2>6, <2>7, <2>8
  <1>10. DOMAIN s = 1..n
    <2>1. ExpandSamples(stbl)
            = [i \in 1..Len(stbl.stsz) |-> ExpandSamples(stbl)[i]]
      BY DEF ExpandSamples
    <2> HIDE DEF s
    <2>2. DOMAIN s = 1..Len(stbl.stsz)
      BY <2>1 DEF s
    <2> QED
      BY <1>1, <1>4, <2>2
  <1> HIDE DEF s, place, P
  <1>11. ASSUME NEW k \in 1..n
         PROVE  /\ s[k].size = L[k].packet.size
                /\ s[k].duration = L[k].delta
                /\ s[k].cts = Composed(o, L[k].packet)
                /\ (\E j \in 1..n : L[j].packet.key) => s[k].key = L[k].packet.key
                /\ Stored(t, k, s[k].offset, s[k].size) \in I
    <2>1. /\ s[k].size = L[k].packet.size
          /\ s[k].duration = L[k].delta
          /\ s[k].cts = Composed(o, L[k].packet)
      BY <1>4, <1>9
    <2>2. Stored(t, k, s[k].offset, s[k].size) \in I
      <3>1. k \in 1..Len(P)
        BY <1>6
      <3> QED
        BY <1>5, <1>9, <3>1
    <2>3. ASSUME \E j \in 1..n : L[j].packet.key PROVE s[k].key = L[k].packet.key
      <3>1. PICK j \in 1..n : Listed(tr.keyframes, j)
        BY <1>4, <2>3
      <3>2. tr.keyframes # <<>>
        <4>1. PICK i \in DOMAIN tr.keyframes : tr.keyframes[i] = j
          BY <3>1 DEF Listed
        <4>2. DOMAIN <<>> = {}
          OBVIOUS
        <4> QED
          BY <4>1, <4>2
      <3>3. s[k].key = Listed(tr.keyframes, k)
        <4> DEFINE listed == Listed(tr.keyframes, k)
                   none == tr.keyframes = <<>>
        <4>1. s[k].key = (none \/ listed)
          BY <1>9
        <4>2. ~none /\ listed \in BOOLEAN
          BY <3>2 DEF Listed
        <4> HIDE DEF none, listed
        <4>3. (none \/ listed) = listed
          BY <4>2, Zenon
        <4>4. s[k].key = listed
          BY <4>1, <4>3
        <4> QED
          BY <4>4 DEF listed
      <3>4. L[k].packet.key \in BOOLEAN
        BY <1>4, ProgPacketsAssumption
      <3>5. Listed(tr.keyframes, k) <=> L[k].packet.key
        BY <1>4
      <3>6. Listed(tr.keyframes, k) \in BOOLEAN
        BY DEF Listed
      <3>7. Listed(tr.keyframes, k) = L[k].packet.key
        BY <3>4, <3>5, <3>6, Zenon
      <3> QED
        BY <3>3, <3>7
    <2> QED
      BY <2>1, <2>2, <2>3
  <1>12. Reads(o, t, stbl, L, I)
    BY <1>8, <1>10, <1>11 DEF Reads, s
  <1> QED
    BY <1>12 DEF stbl

(***************************************************************************)
(* The walk over the boxes of a file.                                      *)
(***************************************************************************)
LEMMA WalkedIs ==
    /\ Intact = IntactOf(writes)
    /\ WalkedBoxes = BoxesWalked(writes)
    /\ MoovBox = MoovsOf(writes)
  <1>1. Intact = IntactOf(writes)
    BY DEF Intact, IntactOf
  <1>2. \A a : BoxesAt(a) = BoxesOf(writes, a)
    BY <1>1 DEF BoxesAt, BoxesOf
  <1>3. WalkedBoxes = BoxesWalked(writes)
    BY Zenon DEF WalkedBoxes, BoxesWalked, Reached, NextOf, BoxesAt, BoxesOf, Intact, IntactOf
  <1>4. MoovBox = MoovsOf(writes)
    BY <1>3, Zenon DEF MoovBox, MoovsOf
  <1> QED
    BY <1>1, <1>3, <1>4

IsReach(s, w, n) ==
    s = [k \in 0..n |-> IF k = 0 THEN BoxesOf(w, 0)
                        ELSE UNION {BoxesOf(w, a) : a \in NextOf(s[k - 1])}]

LEMMA ReachExists ==
    ASSUME NEW w
    PROVE  \A n \in Nat : \E s : IsReach(s, w, n)
  <1> DEFINE T == {n \in Nat : \E s : IsReach(s, w, n)}
             g(s, k) == IF k = 0 THEN BoxesOf(w, 0)
                        ELSE UNION {BoxesOf(w, a) : a \in NextOf(s[k - 1])}
  <1>1. 0 \in T
    <2> DEFINE s == [k \in 0..0 |-> BoxesOf(w, 0)]
    <2>1. s = [k \in 0..0 |-> g(s, k)]
      OBVIOUS
    <2> HIDE DEF s
    <2>2. IsReach(s, w, 0)
      BY <2>1 DEF IsReach
    <2> QED
      BY <2>2
  <1>2. ASSUME NEW n \in Nat, n \in T PROVE n + 1 \in T
    <2>1. PICK r : IsReach(r, w, n)
      BY <1>2
    <2> DEFINE s == [k \in 0..(n + 1) |-> g(r, k)]
    <2>2. r = [k \in 0..n |-> g(r, k)]
      BY <2>1 DEF IsReach
    <2>3. \A k \in 0..n : r[k] = g(r, k)
      <3> HIDE DEF g
      <3> QED
        BY <2>2
    <2>4. \A k \in 0..(n + 1) : k # 0 => k - 1 \in 0..n /\ k - 1 \in 0..(n + 1)
      OBVIOUS
    <2>5. \A k \in 0..(n + 1) : s[k] = g(r, k)
      <3> HIDE DEF g
      <3> QED
        OBVIOUS
    <2>6. \A k \in 0..(n + 1) : k # 0 => s[k - 1] = r[k - 1]
      <3> HIDE DEF g, s
      <3> QED
        BY <2>3, <2>4, <2>5
    <2>7. \A k \in 0..(n + 1) : g(r, k) = g(s, k)
      <3> HIDE DEF s
      <3> QED
        BY <2>6
    <2>8. s = [k \in 0..(n + 1) |-> g(s, k)]
      <3>1. s = [k \in 0..(n + 1) |-> g(r, k)]
        OBVIOUS
      <3> HIDE DEF g, s
      <3> QED
        BY <2>7, <3>1
    <2> HIDE DEF s
    <2>9. IsReach(s, w, n + 1)
      BY <2>8 DEF IsReach
    <2> QED
      BY <2>9
  <1> HIDE DEF T
  <1>3. Nat \subseteq T
    BY <1>1, <1>2, NumberInduction
  <1> QED
    BY <1>3 DEF T

LEMMA ReachedIs ==
    ASSUME NEW w, IsSeq(w)
    PROVE  /\ DOMAIN Reached(w) = 0..Len(w) /\ Len(w) \in Nat
           /\ Reached(w)[0] = BoxesOf(w, 0)
           /\ \A k \in 0..Len(w) : k + 1 \in 0..Len(w) =>
                Reached(w)[k + 1] = UNION {BoxesOf(w, a) : a \in NextOf(Reached(w)[k])}
  <1> DEFINE r == Reached(w)
             n == Len(w)
             g(k) == IF k = 0 THEN BoxesOf(w, 0)
                     ELSE UNION {BoxesOf(w, a) : a \in NextOf(r[k - 1])}
  <1>1. n \in Nat
    BY DEF IsSeq
  <1>2. \E s : IsReach(s, w, n)
    BY <1>1, ReachExists
  <1>3. IsReach(r, w, n)
    BY <1>2, Zenon DEF Reached, IsReach
  <1>4. r = [k \in 0..n |-> g(k)]
    BY <1>3 DEF IsReach
  <1> HIDE DEF g, r
  <1>5. DOMAIN r = 0..n /\ \A k \in 0..n : r[k] = g(k)
    BY <1>4
  <1>6. g(0) = BoxesOf(w, 0)
    BY DEF g
  <1>7. \A k \in 0..n : g(k + 1) = UNION {BoxesOf(w, a) : a \in NextOf(r[k])}
    <2> SUFFICES ASSUME NEW k \in 0..n
                 PROVE  g(k + 1) = UNION {BoxesOf(w, a) : a \in NextOf(r[k])}
      OBVIOUS
    <2>1. k + 1 # 0 /\ (k + 1) - 1 = k
      BY <1>1
    <2> QED
      BY <2>1 DEF g
  <1>8. 0 \in 0..n
    BY <1>1
  <1> QED
    BY <1>1, <1>5, <1>6, <1>7, <1>8 DEF r

(* The walk stays within a set of addresses closed under it. *)
StaysIn(w, A) ==
    /\ 0 \in A
    /\ \A a \in A : \A y \in BoxesOf(w, a) : BoxLength(y) > 0 => y.at + BoxLength(y) \in A

LEMMA WalkWithin ==
    ASSUME NEW w, IsSeq(w), NEW A, StaysIn(w, A)
    PROVE  BoxesWalked(w) \subseteq UNION {BoxesOf(w, a) : a \in A}
  <1> DEFINE Z == UNION {BoxesOf(w, a) : a \in A}
             r == Reached(w)
             n == Len(w)
             T == {k \in Nat : k \in 0..n => r[k] \subseteq Z}
  <1>1. /\ DOMAIN r = 0..n /\ n \in Nat
        /\ r[0] = BoxesOf(w, 0)
        /\ \A k \in 0..n : k + 1 \in 0..n =>
              r[k + 1] = UNION {BoxesOf(w, a) : a \in NextOf(r[k])}
    BY ReachedIs
  <1> HIDE DEF r, n
  <1>2. 0 \in T
    <2>1. BoxesOf(w, 0) \subseteq Z
      BY DEF StaysIn
    <2> QED
      BY <1>1, <2>1
  <1>3. ASSUME NEW k \in Nat, k \in T PROVE k + 1 \in T
    <2> SUFFICES ASSUME k + 1 \in 0..n, NEW x \in r[k + 1] PROVE x \in Z
      OBVIOUS
    <2>1. k \in 0..n
      BY <1>1
    <2>2. PICK a \in NextOf(r[k]) : x \in BoxesOf(w, a)
      BY <1>1, <2>1
    <2>3. PICK y \in r[k] : BoxLength(y) > 0 /\ a = y.at + BoxLength(y)
      BY <2>2 DEF NextOf
    <2>4. r[k] \subseteq Z
      BY <1>3, <2>1
    <2>5. PICK b \in A : y \in BoxesOf(w, b)
      BY <2>3, <2>4
    <2>6. a \in A
      BY <2>3, <2>5 DEF StaysIn
    <2> QED
      BY <2>2, <2>6
  <1> HIDE DEF T
  <1>4. Nat \subseteq T
    BY <1>2, <1>3, NumberInduction
  <1> HIDE DEF Z
  <1>5. \A k \in 0..n : r[k] \subseteq Z
    BY <1>1, <1>4 DEF T
  <1>6. UNION {r[k] : k \in DOMAIN r} \subseteq Z
    BY <1>1, <1>5
  <1> QED
    BY <1>6 DEF BoxesWalked, r, Z

(* The walk follows a chain of boxes. *)
Chained(w, c, m) ==
    /\ m \in 1..Len(w)
    /\ c[1] \in BoxesOf(w, 0)
    /\ \A k \in 1..(m - 1) : /\ BoxLength(c[k]) > 0
                             /\ c[k + 1] \in BoxesOf(w, c[k].at + BoxLength(c[k]))

LEMMA WalkFinds ==
    ASSUME NEW w, IsSeq(w), NEW c, NEW m, Chained(w, c, m)
    PROVE  c[m] \in BoxesWalked(w)
  <1> DEFINE r == Reached(w)
             n == Len(w)
             T == {k \in Nat : k + 1 \in 1..m => c[k + 1] \in r[k]}
  <1>1. /\ DOMAIN r = 0..n /\ n \in Nat
        /\ r[0] = BoxesOf(w, 0)
        /\ \A k \in 0..n : k + 1 \in 0..n =>
              r[k + 1] = UNION {BoxesOf(w, a) : a \in NextOf(r[k])}
    BY ReachedIs
  <1>2. /\ m \in 1..n
        /\ c[1] \in BoxesOf(w, 0)
        /\ \A k \in 1..(m - 1) : /\ BoxLength(c[k]) > 0
                                 /\ c[k + 1] \in BoxesOf(w, c[k].at + BoxLength(c[k]))
    BY DEF Chained
  <1> HIDE DEF r, n
  <1>3. 0 \in T
    BY <1>1, <1>2
  <1>4. ASSUME NEW k \in Nat, k \in T PROVE k + 1 \in T
    <2> SUFFICES ASSUME (k + 1) + 1 \in 1..m PROVE c[(k + 1) + 1] \in r[k + 1]
      OBVIOUS
    <2> DEFINE j == k + 1
    <2>1. j \in 1..(m - 1) /\ j \in 1..m /\ k \in 0..n /\ j \in 0..n
      BY <1>1, <1>2
    <2>2. c[j] \in r[k]
      BY <1>4, <2>1
    <2>3. BoxLength(c[j]) > 0 /\ c[j + 1] \in BoxesOf(w, c[j].at + BoxLength(c[j]))
      BY <1>2, <2>1
    <2>4. c[j].at + BoxLength(c[j]) \in NextOf(r[k])
      BY <2>2, <2>3 DEF NextOf
    <2>5. r[j] = UNION {BoxesOf(w, a) : a \in NextOf(r[k])}
      BY <1>1, <2>1
    <2> HIDE DEF j
    <2>6. c[j + 1] \in r[j]
      BY <2>3, <2>4, <2>5
    <2> QED
      BY <2>6 DEF j
  <1> HIDE DEF T
  <1>5. Nat \subseteq T
    BY <1>3, <1>4, NumberInduction
  <1>6. c[m] \in r[m - 1] /\ m - 1 \in DOMAIN r
    <2>1. m - 1 \in Nat /\ (m - 1) + 1 = m /\ m \in 1..m /\ m - 1 \in 0..n
      BY <1>1, <1>2
    <2>2. m - 1 \in T
      BY <1>5, <2>1
    <2>3. c[(m - 1) + 1] \in r[m - 1]
      BY <2>1, <2>2 DEF T
    <2> QED
      BY <1>1, <2>1, <2>3
  <1> QED
    BY <1>6 DEF BoxesWalked, r

LEMMA OnlyMoov ==
    ASSUME NEW w, NEW x \in BoxesWalked(w), x.holds.kind = "moov", x.at \in Nat,
           \A y \in BoxesWalked(w) : y.holds.kind = "moov" => y = x
    PROVE  MoovsOf(w) = {x}
  <1> DEFINE M == {y \in BoxesWalked(w) : y.holds.kind = "moov"}
  <1>1. M = {x}
    OBVIOUS
  <1>2. MoovsOf(w) = {z \in M : \A y \in M : y.at <= z.at}
    BY DEF MoovsOf
  <1> HIDE DEF M
  <1>3. x.at <= x.at
    OBVIOUS
  <1> QED
    BY <1>1, <1>2, <1>3

LEMMA IntactIf ==
    ASSUME NEW w, IsSeq(w), NEW k \in 1..Len(w),
           \A j \in 1..Len(w) : j > k => Apart(w[k], w[j])
    PROVE  w[k] \in IntactOf(w)
  <1>1. DOMAIN w = 1..Len(w)
    BY DEF IsSeq
  <1> QED
    BY <1>1 DEF IntactOf

(***************************************************************************)
(* The direct layout as it grows.                                          *)
(***************************************************************************)
LEMMA AppendExtent ==
    ASSUME NEW w, Extents(w), NEW x, IsExtent(x)
    PROVE  /\ Extents(Append(w, x)) /\ Len(w) \in Nat
           /\ Len(Append(w, x)) = Len(w) + 1
           /\ Append(w, x)[Len(w) + 1] = x
           /\ \A k \in 1..Len(w) : Append(w, x)[k] = w[k]
  <1> DEFINE v == Append(w, x)
             n == Len(w)
  <1>1. IsSeq(v) /\ Len(v) = n + 1 /\ n \in Nat
    <2>1. IsSeq(w)
      BY DEF Extents
    <2>2. n \in Nat
      BY <2>1 DEF IsSeq
    <2> QED
      BY <2>1, <2>2, AppendIsSeq
  <1>2. v[n + 1] = x /\ \A k \in 1..n : v[k] = w[k]
    <2>1. PICK X : w \in Seq(X)
      BY DEF Extents, IsSeq
    <2> QED
      BY <2>1
  <1> HIDE DEF v, n
  <1>3. \A k \in 1..(n + 1) : IsExtent(v[k])
    <2>1. \A k \in 1..(n + 1) : k = n + 1 \/ k \in 1..n
      BY <1>1
    <2>2. \A k \in 1..n : IsExtent(w[k])
      BY DEF Extents, n
    <2> QED
      BY <1>2, <2>1, <2>2
  <1>4. Extents(v)
    BY <1>1, <1>3 DEF Extents
  <1> QED
    BY <1>1, <1>2, <1>4 DEF v, n

LEMMA FtypsKept ==
    ASSUME NEW w, NEW v, NEW n, NEW S, Ftyps(w, n, S), Len(w) \in Nat, Len(v) \in Nat,
           Len(w) <= Len(v), \A k \in 1..Len(w) : v[k] = w[k]
    PROVE  Ftyps(v, n, S)
  <1>1. n \in 0..Len(w) /\ n \in 0..Len(v)
    BY DEF Ftyps
  <1>2. \A k \in 1..n : v[k] = w[k]
    BY <1>1
  <1>3. n # 0 => v[n] = w[n]
    BY <1>1, <1>2
  <1>4. ASSUME NEW k \in 1..n
        PROVE  /\ v[k].holds.kind = "ftyp" /\ v[k].size = FtypSize
               /\ v[k].at = IF k = 1 THEN 0 ELSE v[k - 1].at + v[k - 1].size
               /\ v[k].at + v[k].size <= S
               /\ \A j \in 1..(k - 1) : v[j].at + v[j].size <= v[k].at
    <2>1. /\ w[k].holds.kind = "ftyp" /\ w[k].size = FtypSize
          /\ w[k].at = IF k = 1 THEN 0 ELSE w[k - 1].at + w[k - 1].size
          /\ w[k].at + w[k].size <= S
          /\ \A j \in 1..(k - 1) : w[j].at + w[j].size <= w[k].at
      BY DEF Ftyps
    <2>2. k # 1 => v[k - 1] = w[k - 1]
      BY <1>1, <1>2
    <2>3. \A j \in 1..(k - 1) : v[j] = w[j]
      BY <1>1, <1>2
    <2> QED
      BY <1>2, <2>1, <2>2, <2>3
  <1> QED
    BY <1>1, <1>3, <1>4 DEF Ftyps

LEMMA FtypsLonger ==
    ASSUME NEW w, Extents(w), NEW S, Ftyps(w, Len(w), S), NEW x,
           x = Extent(S, FtypSize, [kind |-> "ftyp"])
    PROVE  /\ Extents(Append(w, x))
           /\ Ftyps(Append(w, x), Len(w) + 1, S + FtypSize)
           /\ S \in Nat
  <1> DEFINE v == Append(w, x)
             n == Len(w)
             F == FtypSize
  <1>1. F \in Nat
    BY ProgSizesAssumption
  <1>2. n \in Nat /\ S \in Nat
    <2>1. n \in Nat
      BY DEF Extents, IsSeq
    <2>2. S = IF n = 0 THEN 0 ELSE w[n].at + w[n].size
      BY DEF Ftyps
    <2>3. n # 0 => IsExtent(w[n])
      BY <2>1 DEF Extents
    <2> QED
      BY <2>1, <2>2, <2>3 DEF IsExtent
  <1>3. x.at = S /\ x.size = F /\ x.holds.kind = "ftyp" /\ IsExtent(x)
    BY <1>1, <1>2 DEF Extent, IsExtent
  <1>4. /\ Extents(v) /\ Len(v) = n + 1 /\ v[n + 1] = x /\ \A k \in 1..n : v[k] = w[k]
    BY <1>3, AppendExtent
  <1> HIDE DEF v, n, F
  <1>5. Ftyps(w, n, S)
    BY DEF n
  <1>6. Ftyps(v, n, S)
    <2>1. Len(w) = n
      BY DEF n
    <2> QED
      BY <1>2, <1>4, <1>5, <2>1, FtypsKept
  <1>7. /\ S = IF n = 0 THEN 0 ELSE v[n].at + v[n].size
        /\ \A k \in 1..n :
              /\ v[k].holds.kind = "ftyp" /\ v[k].size = F
              /\ v[k].at = IF k = 1 THEN 0 ELSE v[k - 1].at + v[k - 1].size
              /\ v[k].at + v[k].size <= S
              /\ \A j \in 1..(k - 1) : v[j].at + v[j].size <= v[k].at
    BY <1>6 DEF Ftyps, F
  <1>8. \A k \in 1..n : IsExtent(v[k])
    BY <1>2, <1>4 DEF Extents
  <1>9. ASSUME NEW k \in 1..(n + 1)
        PROVE  /\ v[k].holds.kind = "ftyp" /\ v[k].size = F
               /\ v[k].at = IF k = 1 THEN 0 ELSE v[k - 1].at + v[k - 1].size
               /\ v[k].at + v[k].size <= S + F
               /\ \A j \in 1..(k - 1) : v[j].at + v[j].size <= v[k].at
    <2>1. CASE k \in 1..n
      <3>1. v[k].at + v[k].size <= S + F
        BY <1>1, <1>2, <1>7, <1>8, <2>1, SMTT(30), ZenonT(60) DEF IsExtent
      <3> QED
        BY <1>7, <2>1, <3>1
    <2>2. CASE k = n + 1
      <3>1. v[k] = x
        BY <1>4, <2>2
      <3>2. v[k].at = IF k = 1 THEN 0 ELSE v[k - 1].at + v[k - 1].size
        <4>1. k - 1 = n /\ (k = 1 <=> n = 0)
          BY <1>2, <2>2
        <4> QED
          BY <1>3, <1>7, <3>1, <4>1
      <3>3. v[k].at + v[k].size <= S + F
        BY <1>1, <1>2, <1>3, <3>1
      <3>4. \A j \in 1..n : v[j].at + v[j].size <= S
        BY <1>7
      <3>5. k - 1 = n
        BY <1>2, <2>2
      <3> QED
        BY <1>3, <3>1, <3>2, <3>3, <3>4, <3>5
    <2> QED
      BY <1>2, <2>1, <2>2
  <1>10. S + F = IF n + 1 = 0 THEN 0 ELSE v[n + 1].at + v[n + 1].size
    BY <1>2, <1>3, <1>4
  <1>11. n + 1 \in 0..Len(v)
    BY <1>2, <1>4
  <1>12. Ftyps(v, n + 1, S + F)
    BY <1>9, <1>10, <1>11 DEF Ftyps, F
  <1> QED
    BY <1>2, <1>4, <1>12 DEF v, n, F

LEMMA StreamStarts ==
    ASSUME NEW w, Extents(w), NEW n \in Nat, NEW S \in Nat, Len(w) = n, n >= 1, Ftyps(w, n, S),
           NEW D \in Nat, S < D
    PROVE  Streams(w, n, S, D, D)
  <1>1. (n + 1)..Len(w) = {}
    OBVIOUS
  <1>2. D <= D
    OBVIOUS
  <1> QED
    BY <1>1, <1>2 DEF Streams

LEMMA StreamsHead ==
    ASSUME NEW w, NEW n, NEW S \in Nat, NEW D \in Nat, NEW e, Streams(w, n, S, D, e),
           NEW x, Heads(x, S, D), IsExtent(x)
    PROVE  Streams(Append(w, x), n, S, D, e)
  <1> DEFINE v == Append(w, x)
             l == Len(w)
  <1>1. /\ Extents(w) /\ Ftyps(w, n, S) /\ n >= 1 /\ S < D /\ D <= e
        /\ \A k \in (n + 1)..l : Heads(w[k], S, D) \/ Fills(w[k], D, e)
        /\ \A k \in (n + 1)..l : \A j \in (n + 1)..(k - 1) :
              Fills(w[j], D, e) /\ Fills(w[k], D, e) => w[j].at + w[j].size <= w[k].at
    BY DEF Streams
  <1>2. /\ Extents(v) /\ l \in Nat /\ Len(v) = l + 1 /\ v[l + 1] = x
        /\ \A k \in 1..l : v[k] = w[k]
    BY <1>1, AppendExtent
  <1>3. n \in 0..l
    BY <1>1 DEF Ftyps
  <1> HIDE DEF v
  <1>4. Ftyps(v, n, S)
    BY <1>1, <1>2, FtypsKept
  <1> HIDE DEF l
  <1>5. ~Fills(x, D, e)
    BY DEF Heads, Fills
  <1>6. \A k \in (n + 1)..(l + 1) : k = l + 1 \/ (k \in (n + 1)..l /\ k \in 1..l)
    BY <1>2, <1>3
  <1>7. \A k \in (n + 1)..(l + 1) : Heads(v[k], S, D) \/ Fills(v[k], D, e)
    BY <1>1, <1>2, <1>6
  <1>8. ASSUME NEW k \in (n + 1)..(l + 1), NEW j \in (n + 1)..(k - 1),
               Fills(v[j], D, e), Fills(v[k], D, e)
        PROVE  v[j].at + v[j].size <= v[k].at
    <2>1. k # l + 1
      BY <1>2, <1>5, <1>8
    <2>2. k \in (n + 1)..l /\ k \in 1..l /\ j \in 1..l
      BY <1>2, <1>3, <1>6, <2>1
    <2>3. v[k] = w[k] /\ v[j] = w[j]
      BY <1>2, <2>2
    <2> QED
      BY <1>1, <1>8, <2>2, <2>3
  <1>9. Streams(v, n, S, D, e)
    BY <1>1, <1>2, <1>4, <1>7, <1>8 DEF Streams
  <1> QED
    BY <1>9 DEF v

LEMMA StreamsFill ==
    ASSUME NEW w, NEW n, NEW S \in Nat, NEW D \in Nat, NEW e \in Nat, Streams(w, n, S, D, e),
           NEW x, IsExtent(x), x.at = e, x.holds.kind \notin {"mdat", "ftyp"},
           x.holds.kind = "moov" => x.size > 0
    PROVE  Streams(Append(w, x), n, S, D, e + x.size)
  <1> DEFINE v == Append(w, x)
             l == Len(w)
             f == e + x.size
  <1>1. /\ Extents(w) /\ Ftyps(w, n, S) /\ n >= 1 /\ S < D /\ D <= e
        /\ \A k \in (n + 1)..l : Heads(w[k], S, D) \/ Fills(w[k], D, e)
        /\ \A k \in (n + 1)..l : \A j \in (n + 1)..(k - 1) :
              Fills(w[j], D, e) /\ Fills(w[k], D, e) => w[j].at + w[j].size <= w[k].at
    BY DEF Streams
  <1>2. /\ Extents(v) /\ l \in Nat /\ Len(v) = l + 1 /\ v[l + 1] = x
        /\ \A k \in 1..l : v[k] = w[k]
    BY <1>1, AppendExtent
  <1>3. n \in 0..l
    BY <1>1 DEF Ftyps
  <1> HIDE DEF v
  <1>4. Ftyps(v, n, S)
    BY <1>1, <1>2, FtypsKept
  <1>5. x.size \in Nat /\ f \in Nat /\ e <= f
    BY DEF IsExtent
  <1>6. \A k \in 1..l : IsExtent(w[k])
    BY <1>1 DEF Extents
  <1> HIDE DEF l
  <1>7. Fills(x, D, f)
    BY <1>1, <1>5 DEF Fills, IsExtent
  <1> HIDE DEF f
  <1>8. \A k \in (n + 1)..(l + 1) : k = l + 1 \/ (k \in (n + 1)..l /\ k \in 1..l)
    BY <1>2, <1>3
  <1>9. ASSUME NEW k \in 1..l
        PROVE  Fills(w[k], D, e) => Fills(w[k], D, f)
    BY <1>5, <1>6 DEF Fills, IsExtent
  <1>10. \A k \in (n + 1)..(l + 1) : Heads(v[k], S, D) \/ Fills(v[k], D, f)
    <2> SUFFICES ASSUME NEW k \in (n + 1)..(l + 1)
                 PROVE  Heads(v[k], S, D) \/ Fills(v[k], D, f)
      OBVIOUS
    <2>1. CASE k = l + 1
      BY <1>2, <1>7, <2>1
    <2>2. CASE k \in (n + 1)..l /\ k \in 1..l
      BY <1>1, <1>2, <1>9, <2>2
    <2> QED
      BY <1>8, <2>1, <2>2
  <1>11. ASSUME NEW k \in (n + 1)..l, k \in 1..l, Fills(w[k], D, f)
         PROVE  Fills(w[k], D, e)
    <2>1. ~Heads(w[k], S, D)
      BY <1>11 DEF Heads, Fills
    <2> QED
      BY <1>1, <2>1
  <1>12. ASSUME NEW k \in (n + 1)..(l + 1), NEW j \in (n + 1)..(k - 1),
                Fills(v[j], D, f), Fills(v[k], D, f)
         PROVE  v[j].at + v[j].size <= v[k].at
    <2>1. j \in (n + 1)..l /\ j \in 1..l
      BY <1>2, <1>3
    <2>2. v[j] = w[j]
      BY <1>2, <2>1
    <2>3. Fills(w[j], D, e)
      BY <1>11, <1>12, <2>1, <2>2
    <2>4. CASE k = l + 1
      BY <1>2, <2>2, <2>3, <2>4 DEF Fills
    <2>5. CASE k \in (n + 1)..l /\ k \in 1..l
      <3>1. v[k] = w[k]
        BY <1>2, <2>5
      <3>2. Fills(w[k], D, e)
        BY <1>11, <1>12, <2>5, <3>1
      <3> QED
        BY <1>1, <2>2, <2>3, <2>5, <3>1, <3>2
    <2> QED
      BY <1>8, <2>4, <2>5
  <1>13. D <= f
    BY <1>1, <1>5
  <1>14. Streams(v, n, S, D, f)
    BY <1>1, <1>2, <1>4, <1>10, <1>12, <1>13 DEF Streams
  <1> QED
    BY <1>14 DEF v, f

(***************************************************************************)
(* The finished file of the direct layout: the header patched, the moov    *)
(* behind.                                                                 *)
(***************************************************************************)
Sealing(w, n, S, D, e, y, x) ==
    /\ Streams(w, n, S, D, e) /\ S \in Nat /\ D \in Nat /\ e \in Nat
    /\ IsExtent(y) /\ Heads(y, S, D) /\ y.holds.total = e - S
    /\ IsExtent(x) /\ x.at = e /\ x.size > 0 /\ x.holds.kind = "moov"

LEMMA SealedIs ==
    ASSUME NEW w, NEW n, NEW S, NEW D, NEW e, NEW y, NEW x, Sealing(w, n, S, D, e, y, x)
    PROVE  LET v == Append(Append(w, y), x)
               l == Len(w)
           IN  /\ Extents(v) /\ IsSeq(v) /\ l \in Nat /\ Len(v) = l + 2
               /\ \A k \in 1..l : v[k] = w[k] /\ IsExtent(w[k])
               /\ v[l + 1] = y /\ v[l + 2] = x
               /\ n \in 1..l /\ Ftyps(w, n, S) /\ S < D /\ D <= e
  <1> DEFINE u == Append(w, y)
             v == Append(u, x)
             l == Len(w)
             m == l + 1
  <1>1. /\ Extents(w) /\ Ftyps(w, n, S) /\ n >= 1 /\ S < D /\ D <= e
        /\ IsExtent(y) /\ IsExtent(x)
    BY DEF Sealing, Streams
  <1>2. /\ Extents(u) /\ l \in Nat /\ Len(u) = m /\ u[m] = y /\ \A k \in 1..l : u[k] = w[k]
    BY <1>1, AppendExtent
  <1>3. m \in Nat /\ m = l + 1
    BY <1>2
  <1> HIDE DEF u, l, m
  <1>4. /\ Extents(v) /\ Len(v) = m + 1 /\ v[m + 1] = x /\ \A k \in 1..m : v[k] = u[k]
    BY <1>1, <1>2, AppendExtent, SMTT(30), ZenonT(60)
  <1>5. n \in 1..l
    BY <1>1 DEF Ftyps, l
  <1>6. \A k \in 1..l : IsExtent(w[k])
    BY <1>1 DEF Extents, l
  <1>7. IsSeq(v)
    BY <1>4 DEF Extents
  <1> HIDE DEF v
  <1>8. m + 1 = l + 2 /\ m \in 1..m /\ \A k \in 1..l : k \in 1..m
    BY <1>2, <1>3
  <1>9. Len(v) = l + 2 /\ v[l + 2] = x /\ v[l + 1] = y /\ \A k \in 1..l : v[k] = w[k]
    BY <1>2, <1>3, <1>4, <1>8
  <1> QED
    BY <1>1, <1>2, <1>4, <1>5, <1>6, <1>7, <1>9 DEF v, u, l

LEMMA SealedIntact ==
    ASSUME NEW w, NEW n, NEW S, NEW D, NEW e, NEW y, NEW x, Sealing(w, n, S, D, e, y, x)
    PROVE  LET v == Append(Append(w, y), x)
           IN  /\ \A k \in 1..Len(w) : Fills(w[k], D, e) => w[k] \in IntactOf(v)
               /\ \A k \in 1..n : w[k] \in IntactOf(v)
               /\ y \in IntactOf(v) /\ x \in IntactOf(v)
  <1> DEFINE v == Append(Append(w, y), x)
             l == Len(w)
  <1>1. /\ Extents(v) /\ IsSeq(v) /\ l \in Nat /\ Len(v) = l + 2
        /\ \A k \in 1..l : v[k] = w[k] /\ IsExtent(w[k])
        /\ v[l + 1] = y /\ v[l + 2] = x
        /\ n \in 1..l /\ Ftyps(w, n, S) /\ S < D /\ D <= e
    BY SealedIs
  <1>2. /\ \A k \in (n + 1)..l : Heads(w[k], S, D) \/ Fills(w[k], D, e)
        /\ \A k \in (n + 1)..l : \A j \in (n + 1)..(k - 1) :
              Fills(w[j], D, e) /\ Fills(w[k], D, e) => w[j].at + w[j].size <= w[k].at
    BY DEF Sealing, Streams
  <1>3. /\ S \in Nat /\ D \in Nat /\ e \in Nat /\ IsExtent(y) /\ Heads(y, S, D)
        /\ IsExtent(x) /\ x.at = e
    BY DEF Sealing
  <1>4. \A k \in 1..n : /\ w[k].holds.kind = "ftyp" /\ w[k].at + w[k].size <= S
                        /\ \A j \in 1..(k - 1) : w[j].at + w[j].size <= w[k].at
    BY <1>1 DEF Ftyps
  <1> HIDE DEF v, l
  <1>5. \A k \in 1..(l + 2) : k \in 1..n \/ k \in (n + 1)..l \/ k = l + 1 \/ k = l + 2
    BY <1>1
  <1>6. \A k \in 1..l : k \in 1..Len(v) /\ k \in 1..(l + 2)
    BY <1>1
  <1>7. ASSUME NEW k \in 1..l, Fills(w[k], D, e)
        PROVE  w[k] \in IntactOf(v)
    <2>1. ASSUME NEW j \in 1..(l + 2), j > k PROVE Apart(v[k], v[j])
      <3>1. v[k] = w[k] /\ IsExtent(w[k]) /\ w[k].at >= D /\ w[k].at + w[k].size <= e
        BY <1>1, <1>7 DEF Fills
      <3>2. k \notin 1..n
        BY <1>4, <1>7 DEF Fills
      <3>3. j \notin 1..n
        BY <1>1, <2>1, <3>2
      <3>4. CASE j \in (n + 1)..l
        <4>1. j \in 1..l /\ k \in (n + 1)..(j - 1)
          BY <1>1, <2>1, <3>2, <3>4
        <4>2. v[j] = w[j] /\ IsExtent(w[j])
          BY <1>1, <4>1
        <4>3. CASE Heads(w[j], S, D)
          BY <3>1, <4>2, <4>3 DEF Heads, Apart
        <4>4. CASE Fills(w[j], D, e)
          BY <1>2, <1>7, <3>1, <3>4, <4>1, <4>2, <4>4 DEF Apart
        <4> QED
          BY <1>2, <3>4, <4>3, <4>4
      <3>5. CASE j = l + 1
        BY <1>1, <1>3, <3>1, <3>5 DEF Heads, Apart
      <3>6. CASE j = l + 2
        BY <1>1, <1>3, <3>1, <3>6 DEF Apart
      <3> QED
        BY <1>5, <3>3, <3>4, <3>5, <3>6
    <2>2. v[k] \in IntactOf(v)
      BY <1>1, <1>6, <2>1, IntactIf
    <2> QED
      BY <1>1, <2>2
  <1>8. ASSUME NEW k \in 1..n
        PROVE  w[k] \in IntactOf(v)
    <2>1. k \in 1..l
      BY <1>1
    <2>2. ASSUME NEW j \in 1..(l + 2), j > k PROVE Apart(v[k], v[j])
      <3>1. v[k] = w[k] /\ IsExtent(w[k]) /\ w[k].at + w[k].size <= S
        BY <1>1, <1>4, <2>1
      <3>2. CASE j \in 1..n
        <4>1. k \in 1..(j - 1) /\ j \in 1..l
          BY <1>1, <2>2, <3>2
        <4> QED
          BY <1>1, <1>4, <3>1, <3>2, <4>1 DEF Apart
      <3>3. CASE j \in (n + 1)..l
        <4>1. j \in 1..l
          BY <1>1, <3>3
        <4>2. v[j] = w[j] /\ IsExtent(w[j])
          BY <1>1, <4>1
        <4>3. w[j].at >= S
          BY <1>1, <1>2, <1>3, <3>3, <4>2, SMTT(30), ZenonT(60) DEF Heads, Fills, IsExtent
        <4>4. w[k].at + w[k].size <= w[j].at
          BY <1>3, <3>1, <4>2, <4>3 DEF IsExtent
        <4> QED
          BY <3>1, <4>2, <4>4 DEF Apart
      <3>4. CASE j = l + 1
        BY <1>1, <1>3, <3>1, <3>4 DEF Heads, Apart
      <3>5. CASE j = l + 2
        <4>1. w[k].at + w[k].size <= e
          BY <1>1, <1>3, <3>1, SMTT(30), ZenonT(60) DEF IsExtent
        <4> QED
          BY <1>1, <1>3, <3>1, <3>5, <4>1 DEF Apart
      <3> QED
        BY <1>5, <3>2, <3>3, <3>4, <3>5
    <2>3. v[k] \in IntactOf(v)
      BY <1>1, <1>6, <2>1, <2>2, IntactIf
    <2> QED
      BY <1>1, <2>1, <2>3
  <1>9. y \in IntactOf(v)
    <2>1. \A j \in 1..(l + 2) : j > l + 1 => j = l + 2
      BY <1>1
    <2>2. Apart(y, x)
      BY <1>1, <1>3 DEF Heads, Apart
    <2>3. \A j \in 1..Len(v) : j > l + 1 => Apart(v[l + 1], v[j])
      BY <1>1, <2>1, <2>2
    <2>4. l + 1 \in 1..Len(v)
      BY <1>1
    <2>5. v[l + 1] \in IntactOf(v)
      BY <1>1, <2>3, <2>4, IntactIf
    <2> QED
      BY <1>1, <2>5
  <1>10. x \in IntactOf(v)
    <2>1. \A j \in 1..Len(v) : j > l + 2 => Apart(v[l + 2], v[j])
      BY <1>1
    <2>2. l + 2 \in 1..Len(v)
      BY <1>1
    <2>3. v[l + 2] \in IntactOf(v)
      BY <1>1, <2>1, <2>2, IntactIf
    <2> QED
      BY <1>1, <2>3
  <1> QED
    BY <1>7, <1>8, <1>9, <1>10 DEF v, l

LEMMA SealedMoov ==
    ASSUME NEW w, NEW n, NEW S, NEW D, NEW e, NEW y, NEW x, Sealing(w, n, S, D, e, y, x)
    PROVE  MoovsOf(Append(Append(w, y), x)) = {x}
  <1> DEFINE v == Append(Append(w, y), x)
             l == Len(w)
             A == (0..S) \cup {e, e + x.size}
             c == [k \in 1..(n + 2) |-> IF k \in 1..n THEN w[k]
                                        ELSE IF k = n + 1 THEN y ELSE x]
  <1>1. /\ Extents(v) /\ IsSeq(v) /\ l \in Nat /\ Len(v) = l + 2
        /\ \A k \in 1..l : v[k] = w[k] /\ IsExtent(w[k])
        /\ v[l + 1] = y /\ v[l + 2] = x
        /\ n \in 1..l /\ Ftyps(w, n, S) /\ S < D /\ D <= e
    BY SealedIs
  <1>2. /\ \A k \in 1..n : w[k] \in IntactOf(v)
        /\ y \in IntactOf(v) /\ x \in IntactOf(v)
    BY SealedIntact
  <1>3. \A k \in (n + 1)..l : Heads(w[k], S, D) \/ Fills(w[k], D, e)
    BY DEF Sealing, Streams
  <1>4. /\ S \in Nat /\ D \in Nat /\ e \in Nat
        /\ y.at \in Nat /\ y.size \in Nat /\ y.holds.kind = "mdat" /\ y.at = S
        /\ y.at + y.size = D /\ y.holds.total = e - S
        /\ x.size \in Nat /\ x.at = e /\ x.size > 0 /\ x.holds.kind = "moov"
    BY DEF Sealing, IsExtent, Heads
  <1>5. /\ S = w[n].at + w[n].size
        /\ \A k \in 1..n :
              /\ w[k].holds.kind = "ftyp" /\ w[k].size = FtypSize
              /\ w[k].at = IF k = 1 THEN 0 ELSE w[k - 1].at + w[k - 1].size
              /\ w[k].at + w[k].size <= S
    BY <1>1 DEF Ftyps
  <1>6. FtypSize \in Nat /\ FtypSize > 0
    BY ProgSizesAssumption
  <1> HIDE DEF v, l, A, c
  <1>7. ASSUME NEW a \in A, NEW b \in BoxesOf(v, a)
        PROVE  b = x \/ b = y \/ \E k \in 1..n : b = w[k]
    <2>1. /\ b \in IntactOf(v) /\ b.at = a /\ b.holds.kind \in {"ftyp", "mdat", "moov"}
      BY DEF BoxesOf
    <2>2. PICK i \in DOMAIN v : /\ b = v[i]
                                /\ \A j \in DOMAIN v : j > i => Apart(v[i], v[j])
      BY <2>1 DEF IntactOf
    <2>3. DOMAIN v = 1..(l + 2)
      BY <1>1 DEF IsSeq
    <2>4. CASE i \in (n + 1)..l
      <3>1. i \in 1..l /\ l + 1 \in DOMAIN v /\ l + 1 > i
        BY <1>1, <2>3, <2>4
      <3>2. b = w[i] /\ IsExtent(w[i]) /\ Apart(b, y)
        BY <1>1, <2>2, <3>1
      <3>3. ~Heads(b, S, D)
        <4> SUFFICES ASSUME Heads(b, S, D) PROVE FALSE
          OBVIOUS
        <4>1. b.at = S /\ b.at + b.size = D
          BY DEF Heads
        <4>2. D <= S
          BY <1>4, <3>2, <4>1 DEF Apart
        <4> QED
          BY <1>1, <1>4, <4>2
      <3>4. Fills(b, D, e)
        BY <1>3, <2>4, <3>2, <3>3
      <3>5. b.size > 0 /\ b.at >= D /\ b.at + b.size <= e
        BY <2>1, <3>4 DEF Fills
      <3>6. b.at \in Nat /\ b.size \in Nat
        BY <3>2 DEF IsExtent
      <3>7. a > S /\ a < e /\ a \in Nat
        BY <1>1, <1>4, <2>1, <3>5, <3>6
      <3>8. a \notin A
        BY <1>4, <3>7 DEF A
      <3> QED
        BY <3>8
    <2>5. CASE i \in 1..n
      <3>1. i \in 1..l
        BY <1>1, <2>5
      <3> QED
        BY <1>1, <2>2, <2>5, <3>1
    <2>6. CASE i = l + 1 \/ i = l + 2
      BY <1>1, <2>2, <2>6
    <2>7. i \in 1..n \/ i \in (n + 1)..l \/ i = l + 1 \/ i = l + 2
      BY <1>1, <2>3
    <2> QED
      BY <2>4, <2>5, <2>6, <2>7
  <1>8. BoxLength(y) = e - S /\ BoxLength(x) = x.size /\ \A k \in 1..n : BoxLength(w[k]) = FtypSize
    BY <1>4, <1>5 DEF BoxLength
  <1>9. StaysIn(v, A)
    <2>1. 0 \in A
      BY <1>4 DEF A
    <2>2. ASSUME NEW a \in A, NEW b \in BoxesOf(v, a) PROVE b.at + BoxLength(b) \in A
      <3>1. CASE b = x
        BY <1>4, <1>8, <3>1 DEF A
      <3>2. CASE b = y
        BY <1>4, <1>8, <3>2 DEF A
      <3>3. CASE \E k \in 1..n : b = w[k]
        <4>1. PICK k \in 1..n : b = w[k]
          BY <3>3
        <4>2. b.at + BoxLength(b) = w[k].at + w[k].size /\ w[k].at + w[k].size <= S
          BY <1>5, <1>8, <4>1
        <4>3. k \in 1..l
          BY <1>1
        <4>4. w[k].at \in Nat /\ w[k].size \in Nat
          BY <1>1, <4>3 DEF IsExtent
        <4>5. w[k].at + w[k].size \in 0..S
          BY <1>4, <4>2, <4>4
        <4> QED
          BY <4>2, <4>5 DEF A
      <3> QED
        BY <1>7, <3>1, <3>2, <3>3
    <2> QED
      BY <2>1, <2>2 DEF StaysIn
  <1>10. Chained(v, c, n + 2)
    <2>1. n + 2 \in 1..Len(v)
      BY <1>1
    <2>2. /\ \A k \in 1..n : c[k] = w[k]
          /\ c[n + 1] = y /\ c[n + 2] = x
      BY <1>1 DEF c
    <2>3. c[1] \in BoxesOf(v, 0)
      <3>1. 1 \in 1..n
        BY <1>1
      <3> QED
        BY <1>2, <1>5, <2>2, <3>1 DEF BoxesOf
    <2>4. ASSUME NEW k \in 1..(n + 1)
          PROVE  BoxLength(c[k]) > 0 /\ c[k + 1] \in BoxesOf(v, c[k].at + BoxLength(c[k]))
      <3>1. CASE k \in 1..(n - 1)
        <4>1. k \in 1..n /\ k + 1 \in 1..n /\ k + 1 # 1 /\ (k + 1) - 1 = k
          BY <1>1, <3>1
        <4>2. w[k + 1].at = w[k].at + w[k].size /\ w[k].size = FtypSize
          BY <1>5, <4>1
        <4>3. w[k + 1] \in IntactOf(v) /\ w[k + 1].holds.kind = "ftyp"
          BY <1>2, <1>5, <4>1
        <4> QED
          BY <1>6, <1>8, <2>2, <4>1, <4>2, <4>3 DEF BoxesOf
      <3>2. CASE k = n
        <4>1. n \in 1..n
          BY <1>1
        <4>2. c[k] = w[n] /\ c[k + 1] = y /\ BoxLength(w[n]) = FtypSize /\ w[n].size = FtypSize
          BY <1>5, <1>8, <2>2, <3>2, <4>1
        <4> QED
          BY <1>2, <1>4, <1>5, <1>6, <4>2 DEF BoxesOf
      <3>3. CASE k = n + 1
        <4>1. c[k] = y /\ c[k + 1] = x
          <5>1. k + 1 = n + 2
            BY <1>1, <3>3
          <5> QED
            BY <2>2, <3>3, <5>1
        <4>2. BoxLength(y) > 0 /\ y.at + BoxLength(y) = e
          BY <1>1, <1>4, <1>8
        <4> QED
          BY <1>2, <1>4, <4>1, <4>2 DEF BoxesOf
      <3>4. k \in 1..(n - 1) \/ k = n \/ k = n + 1
        BY <1>1
      <3> QED
        BY <3>1, <3>2, <3>3, <3>4
    <2>5. (n + 2) - 1 = n + 1
      BY <1>1
    <2> QED
      BY <2>1, <2>3, <2>4, <2>5 DEF Chained
  <1>11. x \in BoxesWalked(v)
    <2>1. c[n + 2] \in BoxesWalked(v)
      BY <1>1, <1>10, WalkFinds
    <2>2. c[n + 2] = x
      BY <1>1 DEF c
    <2> QED
      BY <2>1, <2>2
  <1>12. \A b \in BoxesWalked(v) : b.holds.kind = "moov" => b = x
    <2> SUFFICES ASSUME NEW b \in BoxesWalked(v), b.holds.kind = "moov" PROVE b = x
      OBVIOUS
    <2>1. PICK a \in A : b \in BoxesOf(v, a)
      BY <1>1, <1>9, WalkWithin
    <2> QED
      BY <1>4, <1>5, <1>7, <2>1
  <1>13. MoovsOf(v) = {x}
    BY <1>4, <1>11, <1>12, OnlyMoov
  <1> QED
    BY <1>13 DEF v

(***************************************************************************)
(* Where the pieces of one call end up.                                    *)
(***************************************************************************)
SizesOf(q) == [k \in DOMAIN q |-> q[k].size]
Upto(q, k) == Bytes(SubSeq(q, 1, k))

LEMMA SizesTyped ==
    ASSUME NEW q, Sized(q)
    PROVE  /\ SizesOf(q) \in Seq(Nat) /\ Len(SizesOf(q)) = Len(q) /\ Len(q) \in Nat
           /\ \A k \in 1..Len(q) : SizesOf(q)[k] = q[k].size
           /\ Bytes(q) = Total(SizesOf(q)) /\ DOMAIN q = 1..Len(q)
  <1>1. PICK S : q \in Seq(S) /\ \A k \in 1..Len(q) : q[k].size \in Nat
    BY DEF Sized
  <1> DEFINE g == SizesOf(q)
  <1>2. DOMAIN q = 1..Len(q) /\ Len(q) \in Nat
    BY <1>1
  <1>3. g \in [1..Len(q) -> Nat] /\ \A k \in 1..Len(q) : g[k] = q[k].size
    BY <1>1, <1>2 DEF SizesOf
  <1>4. Bytes(q) = Total(g)
    BY DEF Bytes, SumOf, SizesOf
  <1> HIDE DEF g
  <1>5. g \in Seq(Nat) /\ Len(g) = Len(q)
    BY <1>2, <1>3
  <1> QED
    BY <1>2, <1>3, <1>4, <1>5 DEF g

LEMMA UptoIs ==
    ASSUME NEW q, Sized(q), NEW k \in 0..Len(q)
    PROVE  Upto(q, k) = Total(SubSeq(SizesOf(q), 1, k)) /\ Upto(q, k) \in Nat
  <1>1. PICK S : q \in Seq(S)
    BY DEF Sized
  <1> DEFINE r == SubSeq(q, 1, k)
             g == SizesOf(q)
             h == SubSeq(g, 1, k)
             d == SizesOf(r)
  <1>2. Sized(r)
    BY SizedPrefix
  <1>3. /\ Bytes(r) = Total(d) /\ Len(d) = Len(r) /\ d \in Seq(Nat)
        /\ \A j \in 1..Len(r) : d[j] = r[j].size
    BY <1>2, SizesTyped
  <1>4. g \in Seq(Nat) /\ Len(g) = Len(q) /\ \A j \in 1..Len(q) : g[j] = q[j].size
    BY SizesTyped
  <1>5. Len(r) = k /\ \A j \in 1..k : r[j] = q[j]
    BY <1>1, PrefixIs
  <1> HIDE DEF g
  <1>6. h \in Seq(Nat) /\ Len(h) = k /\ \A j \in 1..k : h[j] = g[j]
    BY <1>4, PrefixIs
  <1>7. Len(q) \in Nat
    BY <1>1
  <1> HIDE DEF r, h, d
  <1>8. d \in Seq(Nat) /\ Len(d) = k /\ \A j \in 1..k : d[j] = r[j].size
    BY <1>3, <1>5
  <1>9. d = h
    <2>1. \A j \in 1..k : j \in 1..Len(q)
      BY <1>7
    <2>2. \A j \in 1..k : d[j] = h[j]
      BY <1>4, <1>5, <1>6, <1>8, <2>1
    <2> QED
      BY <1>6, <1>8, <2>2
  <1>10. Total(h) \in Nat
    BY <1>6, TotalNat
  <1> QED
    BY <1>3, <1>9, <1>10 DEF r, h, g, d, Upto

LEMMA UptoGrows ==
    ASSUME NEW q, Sized(q)
    PROVE  /\ Upto(q, 0) = 0 /\ Upto(q, Len(q)) = Bytes(q)
           /\ \A k \in 1..Len(q) : Upto(q, k) = Upto(q, k - 1) + q[k].size
           /\ \A k \in 1..Len(q) : \A j \in 0..(k - 1) : Upto(q, j) + q[k].size <= Upto(q, k)
  <1>1. PICK S : q \in Seq(S)
    BY DEF Sized
  <1> DEFINE g == SizesOf(q)
  <1>2. /\ g \in Seq(Nat) /\ Len(g) = Len(q) /\ Len(q) \in Nat
        /\ \A k \in 1..Len(q) : g[k] = q[k].size
    BY SizesTyped
  <1>3. \A k \in 0..Len(q) : Upto(q, k) = Total(SubSeq(g, 1, k))
    BY UptoIs
  <1> HIDE DEF g
  <1>4. Upto(q, 0) = 0
    <2>1. SubSeq(g, 1, 0) = <<>> /\ 0 \in 0..Len(q)
      BY <1>2, PrefixIs
    <2> QED
      BY <1>3, <2>1, TotalEmpty
  <1>5. Upto(q, Len(q)) = Bytes(q)
    <2>1. SubSeq(q, 1, Len(q)) = q
      BY <1>1, <1>2, PrefixIs
    <2> QED
      BY <2>1 DEF Upto
  <1>6. g \in Seq(Int)
    BY <1>2
  <1>7. ASSUME NEW k \in 1..Len(q)
        PROVE  Upto(q, k) = Upto(q, k - 1) + q[k].size
    <2>1. Total(SubSeq(g, 1, k)) = Total(SubSeq(g, 1, k - 1)) + g[k]
      BY <1>2, <1>6, TotalPrefix
    <2>2. k \in 0..Len(q) /\ k - 1 \in 0..Len(q)
      BY <1>2
    <2> QED
      BY <1>2, <1>3, <2>1, <2>2
  <1>8. ASSUME NEW k \in 1..Len(q), NEW j \in 0..(k - 1)
        PROVE  Upto(q, j) + q[k].size <= Upto(q, k)
    <2>1. Total(SubSeq(g, 1, j)) + g[k] <= Total(SubSeq(g, 1, k))
      BY <1>2, TotalGrows
    <2>2. k \in 0..Len(q) /\ j \in 0..Len(q)
      BY <1>2
    <2> QED
      BY <1>2, <1>3, <2>1, <2>2
  <1> QED
    BY <1>4, <1>5, <1>7, <1>8

LEMMA BytesConcat ==
    ASSUME NEW p, Sized(p), NEW q, Sized(q)
    PROVE  Bytes(p \o q) = Bytes(p) + Bytes(q)
  <1>1. PICK S : p \in Seq(S)
    BY DEF Sized
  <1>2. PICK T : q \in Seq(T)
    BY DEF Sized
  <1> DEFINE U == S \cup T
             r == p \o q
             a == SizesOf(p)
             b == SizesOf(q)
             c == SizesOf(r)
  <1>3. p \in Seq(U) /\ q \in Seq(U)
    BY <1>1, <1>2
  <1>4. Sized(r)
    BY SizedConcat
  <1>5. /\ Len(r) = Len(p) + Len(q) /\ Len(p) \in Nat /\ Len(q) \in Nat
        /\ \A k \in 1..Len(p) : r[k] = p[k]
        /\ \A k \in 1..Len(q) : r[Len(p) + k] = q[k]
    BY <1>3
  <1>6. /\ a \in Seq(Nat) /\ Len(a) = Len(p) /\ \A k \in 1..Len(p) : a[k] = p[k].size
        /\ Bytes(p) = Total(a)
    BY SizesTyped
  <1>7. /\ b \in Seq(Nat) /\ Len(b) = Len(q) /\ \A k \in 1..Len(q) : b[k] = q[k].size
        /\ Bytes(q) = Total(b)
    BY SizesTyped
  <1> HIDE DEF U, r
  <1>8. /\ c \in Seq(Nat) /\ Len(c) = Len(r) /\ \A k \in 1..Len(r) : c[k] = r[k].size
        /\ Bytes(r) = Total(c)
    BY <1>4, SizesTyped
  <1> HIDE DEF a, b, c
  <1>9. c = a \o b
    <2>1. \A k \in 1..Len(a) : c[k] = a[k]
      BY <1>5, <1>6, <1>8, SMTT(30), ZenonT(60)
    <2>2. \A k \in 1..Len(b) : c[Len(a) + k] = b[k]
      <3> TAKE k \in 1..Len(b)
      <3> DEFINE m == Len(p) + k
      <3>1. m \in 1..Len(r) /\ k \in 1..Len(q) /\ r[m] = q[k] /\ Len(a) + k = m
        BY <1>5, <1>6, <1>7
      <3> HIDE DEF m
      <3> QED
        BY <1>7, <1>8, <3>1
    <2>3. Len(c) = Len(a) + Len(b)
      BY <1>5, <1>6, <1>7, <1>8
    <2> QED
      BY <1>6, <1>7, <1>8, <2>1, <2>2, <2>3, ConcatEqual
  <1>10. a \in Seq(Int) /\ b \in Seq(Int)
    BY <1>6, <1>7
  <1>11. Total(a \o b) = Total(a) + Total(b)
    BY <1>10, TotalConcat
  <1> QED
    BY <1>6, <1>7, <1>8, <1>9, <1>11 DEF r

LEMMA BytesOne ==
    ASSUME NEW x, x.size \in Nat
    PROVE  Bytes(<<x>>) = x.size /\ Sized(<<x>>)
  <1> DEFINE q == <<x>>
  <1>1. Sized(q)
    BY SizedOne
  <1>2. Len(q) = 1 /\ q[1] = x
    OBVIOUS
  <1> HIDE DEF q
  <1>3. Upto(q, 0) = 0 /\ Upto(q, Len(q)) = Bytes(q)
        /\ \A k \in 1..Len(q) : Upto(q, k) = Upto(q, k - 1) + q[k].size
    BY <1>1, UptoGrows
  <1>4. Upto(q, 1) = Upto(q, 0) + x.size
    <2>1. 1 \in 1..Len(q) /\ 1 - 1 = 0
      BY <1>2
    <2> QED
      BY <1>2, <1>3, <2>1
  <1> QED
    BY <1>1, <1>2, <1>3, <1>4 DEF q

LEMMA BytesAppend ==
    ASSUME NEW q, Sized(q), NEW x, x.size \in Nat
    PROVE  Bytes(Append(q, x)) = Bytes(q) + x.size
  <1>1. PICK S : q \in Seq(S)
    BY DEF Sized
  <1>2. Append(q, x) = q \o <<x>>
    <2> DEFINE T == S \cup {x}
    <2>1. q \in Seq(T) /\ x \in T
      BY <1>1
    <2> HIDE DEF T
    <2> QED
      BY <2>1
  <1> QED
    BY <1>2, BytesOne, BytesConcat

LEMMA BytesEmpty == Bytes(<<>>) = 0
  <1> DEFINE q == <<>>
  <1>1. Sized(q)
    BY SizedEmpty
  <1>2. Len(q) = 0
    OBVIOUS
  <1> HIDE DEF q
  <1>3. Upto(q, 0) = 0 /\ Upto(q, Len(q)) = Bytes(q)
    BY <1>1, UptoGrows
  <1> QED
    BY <1>2, <1>3 DEF q

LEMMA PlacedIs ==
    ASSUME NEW q, Sized(q), NEW at \in Nat
    PROVE  LET r == Placed(q, at)
           IN  /\ IsSeq(r) /\ Len(r) = Len(q) /\ Len(q) \in Nat
               /\ \A k \in 1..Len(q) :
                    r[k] = Extent(at + Upto(q, k - 1), q[k].size, q[k].holds)
               /\ Extents(r)
  <1> DEFINE r == Placed(q, at)
             x(k) == Extent(at + Upto(q, k - 1), q[k].size, q[k].holds)
             S == {x(k) : k \in 1..Len(q)}
  <1>1. DOMAIN q = 1..Len(q) /\ Len(q) \in Nat /\ \A k \in 1..Len(q) : q[k].size \in Nat
    BY SizesTyped DEF Sized
  <1>2. r = [k \in 1..Len(q) |-> x(k)]
    BY <1>1 DEF Placed, Extent, Upto
  <1>3. \A k \in 1..Len(q) : IsExtent(x(k))
    <2> TAKE k \in 1..Len(q)
    <2>1. k - 1 \in 0..Len(q)
      BY <1>1
    <2>2. Upto(q, k - 1) \in Nat
      BY <2>1, UptoIs
    <2> QED
      BY <1>1, <2>2 DEF Extent, IsExtent
  <1> HIDE DEF x, r
  <1>4. r \in [1..Len(q) -> S]
    BY <1>2
  <1> HIDE DEF S
  <1>5. r \in Seq(S) /\ Len(r) = Len(q)
    BY <1>1, <1>4
  <1>6. IsSeq(r)
    BY <1>5 DEF IsSeq
  <1>7. \A k \in 1..Len(q) : r[k] = x(k)
    BY <1>2
  <1>8. Extents(r)
    BY <1>3, <1>5, <1>6, <1>7 DEF Extents
  <1> QED
    BY <1>1, <1>5, <1>6, <1>7, <1>8 DEF x, r

LEMMA PlacedAppend ==
    ASSUME NEW q, Sized(q), NEW x, x.size \in Nat, NEW at \in Nat
    PROVE  Placed(Append(q, x), at)
             = Append(Placed(q, at), Extent(at + Bytes(q), x.size, x.holds))
  <1> DEFINE r == Append(q, x)
             n == Len(q)
             a == Placed(q, at)
             z == Extent(at + Bytes(q), x.size, x.holds)
             b == Append(a, z)
             c == Placed(r, at)
  <1>1. PICK S : q \in Seq(S)
    BY DEF Sized
  <1>2. /\ n \in Nat /\ Len(r) = n + 1 /\ r[n + 1] = x
        /\ \A k \in 1..n : r[k] = q[k]
    BY <1>1
  <1>3. /\ IsSeq(a) /\ Len(a) = n
        /\ \A k \in 1..n : a[k] = Extent(at + Upto(q, k - 1), q[k].size, q[k].holds)
    BY PlacedIs
  <1>4. Sized(r)
    BY SizedAppend
  <1>5. \A k \in 0..n : Upto(r, k) = Upto(q, k)
    <2> TAKE k \in 0..n
    <2> DEFINE T == S \cup {x}
    <2>1. q \in Seq(T) /\ r \in Seq(T) /\ k \in 0..Len(r)
      BY <1>1, <1>2
    <2> HIDE DEF T, r
    <2>2. /\ SubSeq(q, 1, k) \in Seq(T) /\ Len(SubSeq(q, 1, k)) = k
          /\ \A j \in 1..k : SubSeq(q, 1, k)[j] = q[j]
      BY <2>1, PrefixIs
    <2>3. /\ SubSeq(r, 1, k) \in Seq(T) /\ Len(SubSeq(r, 1, k)) = k
          /\ \A j \in 1..k : SubSeq(r, 1, k)[j] = r[j]
      BY <2>1, PrefixIs
    <2>4. \A j \in 1..k : j \in 1..n
      BY <1>2
    <2> DEFINE f == SubSeq(q, 1, k)
               g == SubSeq(r, 1, k)
    <2>5. \A j \in 1..k : f[j] = g[j]
      BY <1>2, <2>2, <2>3, <2>4
    <2>6. Len(f) = k /\ Len(g) = k /\ f \in Seq(T) /\ g \in Seq(T)
      BY <2>2, <2>3
    <2> HIDE DEF f, g
    <2>7. f = g
      BY <2>5, <2>6
    <2> QED
      BY <2>7 DEF f, g, Upto
  <1> HIDE DEF r
  <1>6. /\ IsSeq(c) /\ Len(c) = n + 1
        /\ \A k \in 1..(n + 1) : c[k] = Extent(at + Upto(r, k - 1), r[k].size, r[k].holds)
    <2>1. /\ IsSeq(c) /\ Len(c) = Len(r)
          /\ \A k \in 1..Len(r) : c[k] = Extent(at + Upto(r, k - 1), r[k].size, r[k].holds)
      BY <1>4, PlacedIs
    <2> HIDE DEF c
    <2> QED
      BY <1>2, <2>1
  <1>7. /\ IsSeq(b) /\ Len(b) = n + 1 /\ b[n + 1] = z
        /\ \A k \in 1..n : b[k] = a[k]
    <2> HIDE DEF a, z
    <2>1. IsSeq(b) /\ Len(b) = n + 1
      BY <1>3, AppendIsSeq
    <2>2. PICK X : a \in Seq(X)
      BY <1>3 DEF IsSeq
    <2>3. b[n + 1] = z /\ \A k \in 1..n : b[k] = a[k]
      BY <1>3, <2>2
    <2> QED
      BY <2>1, <2>3
  <1>8. Upto(q, n) = Bytes(q)
    BY UptoGrows
  <1> HIDE DEF a, b, c, n
  <1>9. \A k \in 1..(n + 1) : b[k] = c[k]
    <2> TAKE k \in 1..(n + 1)
    <2>1. CASE k = n + 1
      <3>1. (n + 1) - 1 = n /\ n \in 0..n
        BY <1>2
      <3>2. Upto(r, n) = Bytes(q)
        BY <1>5, <1>8, <3>1
      <3> QED
        BY <1>2, <1>6, <1>7, <2>1, <3>1, <3>2
    <2>2. CASE k # n + 1
      <3>1. k \in 1..n /\ k - 1 \in 0..n
        BY <1>2, <2>2
      <3>2. Upto(r, k - 1) = Upto(q, k - 1) /\ r[k] = q[k]
        BY <1>2, <1>5, <3>1
      <3>3. a[k] = c[k]
        BY <1>3, <1>6, <3>1, <3>2
      <3> QED
        BY <1>7, <3>1, <3>3
    <2> QED
      BY <2>1, <2>2
  <1>10. DOMAIN b = 1..(n + 1) /\ DOMAIN c = 1..(n + 1)
    BY <1>6, <1>7 DEF IsSeq
  <1>11. b = c
    <2>1. PICK X : b \in Seq(X)
      BY <1>7 DEF IsSeq
    <2>2. PICK Y : c \in Seq(Y)
      BY <1>6 DEF IsSeq
    <2> QED
      BY <1>6, <1>7, <1>9, <2>1, <2>2
  <1> QED
    BY <1>11 DEF b, c, a, r, n

(***************************************************************************)
(* The rewritten file: ftyp, moov, mdat header and the buffered payload.   *)
(***************************************************************************)
Leading == Extent(0, FtypSize, [kind |-> "ftyp"])
Rebuilt(q, moov, head) == <<Leading>> \o Placed(<<moov, head>> \o q, FtypSize)
Rebuilding(q, moov, head) ==
    /\ Sized(q) /\ \A k \in 1..Len(q) : q[k].holds.kind = "sample"
    /\ moov.size \in Nat /\ moov.size > 0 /\ moov.holds.kind = "moov"
    /\ head.size \in Nat /\ head.size > 0 /\ head.holds.kind = "mdat"
    /\ head.holds.total = head.size + Bytes(q)

IsRebuilt(v, q, n, r, moov, head) ==
    /\ Extents(v) /\ IsSeq(v) /\ n \in Nat /\ Len(v) = n + 3
    /\ v[1] = Leading
    /\ v[2] = Extent(FtypSize, moov.size, moov.holds)
    /\ v[3] = Extent(FtypSize + moov.size, head.size, head.holds)
    /\ \A k \in 1..n :
          v[k + 3] = Extent(FtypSize + moov.size + head.size + Upto(q, k - 1),
                            q[k].size, q[k].holds)
    /\ Sized(r) /\ Len(r) = n + 2
    /\ \A k \in 1..(n + 2) : v[k + 1] = Placed(r, FtypSize)[k]

LEMMA RebuiltIs ==
    ASSUME NEW q, NEW moov, NEW head, Rebuilding(q, moov, head)
    PROVE  IsRebuilt(Rebuilt(q, moov, head), q, Len(q), <<moov, head>> \o q, moov, head)
  <1> DEFINE n == Len(q)
             two == <<moov, head>>
             r == two \o q
             w == Placed(r, FtypSize)
             v == <<Leading>> \o w
  <1>1. Sized(q) /\ moov.size \in Nat /\ head.size \in Nat
    BY DEF Rebuilding
  <1>2. PICK S : q \in Seq(S)
    BY <1>1 DEF Sized
  <1>3. /\ n \in Nat /\ Len(r) = n + 2 /\ r[1] = moov /\ r[2] = head
        /\ \A k \in 1..n : r[k + 2] = q[k]
    <2> DEFINE T == S \cup {moov, head}
    <2>1. q \in Seq(T) /\ two \in Seq(T) /\ Len(two) = 2 /\ two[1] = moov /\ two[2] = head
          /\ n \in Nat
      BY <1>2
    <2> HIDE DEF T, two
    <2>2. /\ Len(r) = Len(two) + Len(q)
          /\ \A k \in 1..Len(two) : r[k] = two[k]
          /\ \A k \in 1..Len(q) : r[Len(two) + k] = q[k]
      <3> DEFINE x == two \o q
      <3>1. /\ Len(x) = Len(two) + Len(q)
            /\ \A k \in 1..Len(two) : x[k] = two[k]
            /\ \A k \in 1..Len(q) : x[Len(two) + k] = q[k]
        <4> HIDE DEF n
        <4> QED
          <5>1. q \in Seq(T) /\ two \in Seq(T)
            BY <2>1
          <5> HIDE DEF r, v, w
          <5> QED
            BY <5>1, SMTT(30)
      <3>2. r = x
        OBVIOUS
      <3> HIDE DEF x, r, n
      <3> QED
        BY <3>1, <3>2
    <2> HIDE DEF r
    <2>3. \A k \in 1..n : r[k + 2] = q[k]
      <3> TAKE k \in 1..n
      <3>1. k + 2 = Len(two) + k
        BY <2>1
      <3> QED
        BY <2>2, <3>1
    <2>4. 1 \in 1..Len(two) /\ 2 \in 1..Len(two)
      BY <2>1
    <2>5. r[1] = moov /\ r[2] = head
      BY <2>1, <2>2, <2>4
    <2>6. Len(r) = n + 2
      BY <2>1, <2>2
    <2> QED
      BY <2>1, <2>3, <2>5, <2>6
  <1>4. FtypSize \in Nat
    BY ProgSizesAssumption
  <1>5. Sized(two) /\ Bytes(two) = moov.size + head.size
    <2>1. two = Append(<<moov>>, head)
      OBVIOUS
    <2>2. Sized(<<moov>>) /\ Bytes(<<moov>>) = moov.size
      BY <1>1, BytesOne
    <2> HIDE DEF two
    <2> QED
      BY <1>1, <2>1, <2>2, SizedAppend, BytesAppend
  <1>6. Sized(r)
    BY <1>1, <1>5, SizedConcat
  <1>7. Upto(r, 0) = 0 /\ Upto(r, 1) = moov.size
    <2>1. Upto(r, 0) = 0
      BY <1>6, UptoGrows
    <2>2. \A k \in 1..Len(r) : Upto(r, k) = Upto(r, k - 1) + r[k].size
      BY <1>6, UptoGrows
    <2> HIDE DEF r
    <2>3. 1 \in 1..Len(r) /\ 1 - 1 = 0
      BY <1>3
    <2>4. Upto(r, 1) = Upto(r, 0) + moov.size
      BY <1>3, <2>2, <2>3
    <2> QED
      BY <1>1, <2>1, <2>4
  <1>8. \A k \in 0..n : Upto(r, k + 2) = moov.size + head.size + Upto(q, k)
    <2> TAKE k \in 0..n
    <2> DEFINE T == S \cup {moov, head}
    <2>1. q \in Seq(T) /\ two \in Seq(T) /\ Len(two) = 2
      BY <1>2
    <2> HIDE DEF T
    <2>2. k + 2 = 2 + k
      BY <1>3
    <2>3. SubSeq(two \o q, 1, 2 + k) = two \o SubSeq(q, 1, k)
      <3> HIDE DEF two
      <3>1. SubSeq(two \o q, 1, Len(two) + k) = two \o SubSeq(q, 1, k)
        BY <2>1, PrefixPast
      <3> QED
        BY <2>1, <3>1
    <2>4. Sized(SubSeq(q, 1, k))
      BY <1>1, SizedPrefix
    <2> HIDE DEF two
    <2>5. Bytes(two \o SubSeq(q, 1, k)) = Bytes(two) + Bytes(SubSeq(q, 1, k))
      BY <1>5, <2>4, BytesConcat
    <2> QED
      BY <1>5, <2>2, <2>3, <2>5 DEF Upto
  <1> HIDE DEF r, two
  <1>9. /\ IsSeq(w) /\ Len(w) = n + 2 /\ Extents(w)
        /\ \A k \in 1..(n + 2) :
             w[k] = Extent(FtypSize + Upto(r, k - 1), r[k].size, r[k].holds)
    <2>1. /\ IsSeq(w) /\ Len(w) = Len(r) /\ Extents(w)
          /\ \A k \in 1..Len(r) :
               w[k] = Extent(FtypSize + Upto(r, k - 1), r[k].size, r[k].holds)
      BY <1>4, <1>6, PlacedIs
    <2> HIDE DEF w
    <2> QED
      BY <1>3, <2>1
  <1> HIDE DEF w
  <1>10. /\ IsSeq(v) /\ Len(v) = n + 3 /\ v[1] = Leading
         /\ \A k \in 1..(n + 2) : v[k + 1] = w[k]
    <2>1. PICK X : w \in Seq(X)
      BY <1>9 DEF IsSeq
    <2> DEFINE Y == X \cup {Leading}
    <2>2. w \in Seq(Y) /\ Leading \in Y
      BY <2>1
    <2> HIDE DEF Y
    <2>3. v \in Seq(Y) /\ Len(v) = n + 3 /\ v[1] = Leading
      BY <1>3, <1>9, <2>2
    <2>4. \A k \in 1..(n + 2) : v[k + 1] = w[k]
      BY <1>3, <1>9, <2>2
    <2> HIDE DEF v
    <2> QED
      BY <2>3, <2>4 DEF IsSeq
  <1> HIDE DEF v
  <1>11. v[2] = Extent(FtypSize, moov.size, moov.holds)
    <2>1. 1 \in 1..(n + 2) /\ 1 + 1 = 2 /\ 1 - 1 = 0
      BY <1>3
    <2>2. v[2] = w[1]
      BY <1>10, <2>1
    <2> QED
      BY <1>3, <1>4, <1>7, <1>9, <2>1, <2>2
  <1>12. v[3] = Extent(FtypSize + moov.size, head.size, head.holds)
    <2>1. 2 \in 1..(n + 2) /\ 2 + 1 = 3 /\ 2 - 1 = 1
      BY <1>3
    <2>2. v[3] = w[2]
      BY <1>10, <2>1
    <2> QED
      BY <1>3, <1>7, <1>9, <2>1, <2>2
  <1>13. ASSUME NEW k \in 1..n
         PROVE  v[k + 3] = Extent(FtypSize + moov.size + head.size + Upto(q, k - 1),
                                  q[k].size, q[k].holds)
    <2> DEFINE m == k + 2
               u == Upto(q, k - 1)
    <2>1. m \in 1..(n + 2) /\ m + 1 = k + 3 /\ m - 1 = (k - 1) + 2 /\ k - 1 \in 0..n
          /\ r[m] = q[k] /\ k - 1 \in 0..Len(q)
      BY <1>3
    <2>2. u \in Nat
      BY <1>1, <2>1, UptoIs
    <2>3. Upto(r, m - 1) = moov.size + head.size + u
      BY <1>8, <2>1
    <2>4. v[k + 3] = w[m]
      <3> HIDE DEF m
      <3> QED
        BY <1>10, <2>1
    <2>5. w[m] = Extent(FtypSize + Upto(r, m - 1), q[k].size, q[k].holds)
      <3> HIDE DEF m
      <3> QED
        BY <1>9, <2>1
    <2> HIDE DEF m, u
    <2>6. FtypSize + Upto(r, m - 1) = FtypSize + moov.size + head.size + u
      BY <1>1, <1>4, <2>2, <2>3
    <2> QED
      BY <2>4, <2>5, <2>6 DEF u
  <1>14. Extents(v)
    <2>1. IsExtent(Leading)
      BY <1>4 DEF Leading, Extent, IsExtent
    <2>2. \A k \in 1..(n + 2) : IsExtent(w[k])
      BY <1>9 DEF Extents
    <2>3. ASSUME NEW k \in 1..(n + 3) PROVE IsExtent(v[k])
      <3>1. CASE k = 1
        BY <1>10, <2>1, <3>1
      <3>2. CASE k # 1
        <4> DEFINE j == k - 1
        <4>1. j \in 1..(n + 2) /\ j + 1 = k
          BY <1>3, <3>2
        <4> HIDE DEF j
        <4> QED
          BY <1>10, <2>2, <4>1
      <3> QED
        BY <3>1, <3>2
    <2> QED
      BY <1>10, <2>3 DEF Extents
  <1>15. v = Rebuilt(q, moov, head)
    BY DEF v, w, r, two, Rebuilt
  <1>16. Len(r) = n + 2 /\ \A k \in 1..(n + 2) : v[k + 1] = w[k]
    BY <1>3, <1>10
  <1>17. IsRebuilt(v, q, n, r, moov, head)
    BY <1>3, <1>6, <1>10, <1>11, <1>12, <1>13, <1>14, <1>16 DEF w, IsRebuilt
  <1> QED
    BY <1>15, <1>17 DEF r, two

LEMMA RebuiltIntact ==
    ASSUME NEW q, NEW moov, NEW head, Rebuilding(q, moov, head)
    PROVE  \A k \in 1..(Len(q) + 3) :
              Rebuilt(q, moov, head)[k] \in IntactOf(Rebuilt(q, moov, head))
  <1> DEFINE n == Len(q)
             r == <<moov, head>> \o q
             w == Placed(r, FtypSize)
             v == Rebuilt(q, moov, head)
  <1>1. /\ IsSeq(v) /\ n \in Nat /\ Len(v) = n + 3 /\ v[1] = Leading
        /\ Sized(r) /\ Len(r) = n + 2
        /\ \A k \in 1..(n + 2) : v[k + 1] = w[k]
    <2>1. IsRebuilt(v, q, n, r, moov, head)
      BY RebuiltIs
    <2> HIDE DEF v, n, r
    <2> QED
      BY <2>1 DEF IsRebuilt
  <1>2. FtypSize \in Nat
    BY ProgSizesAssumption
  <1> HIDE DEF n, r, v
  <1>3. \A k \in 1..(n + 2) :
          w[k] = Extent(FtypSize + Upto(r, k - 1), r[k].size, r[k].holds)
    <2>1. \A k \in 1..Len(r) :
            w[k] = Extent(FtypSize + Upto(r, k - 1), r[k].size, r[k].holds)
      BY <1>1, <1>2, PlacedIs
    <2> HIDE DEF w
    <2> QED
      BY <1>1, <2>1
  <1> HIDE DEF w
  <1>4. \A k \in 0..(n + 2) : Upto(r, k) \in Nat
    BY <1>1, UptoIs
  <1>5. /\ \A k \in 1..(n + 2) : Upto(r, k) = Upto(r, k - 1) + r[k].size
        /\ \A k \in 1..(n + 2) : \A j \in 0..(k - 1) : Upto(r, j) + r[k].size <= Upto(r, k)
    BY <1>1, UptoGrows
  <1>6. \A k \in 1..(n + 2) : r[k].size \in Nat
    BY <1>1 DEF Sized
  <1>7. ASSUME NEW k \in 0..(n + 2), NEW j \in 0..k
        PROVE  Upto(r, j) <= Upto(r, k)
    <2>1. CASE j = k
      BY <1>4, <2>1
    <2>2. CASE j # k
      <3>1. k \in 1..(n + 2) /\ j \in 0..(k - 1) /\ j \in 0..(n + 2)
        BY <1>1, <2>2
      <3>2. Upto(r, j) + r[k].size <= Upto(r, k)
        BY <1>5, <3>1
      <3> QED
        BY <1>4, <1>6, <3>1, <3>2
    <2> QED
      BY <2>1, <2>2
  <1>8. ASSUME NEW k \in 1..(n + 3), NEW j \in 1..(n + 3), j > k
        PROVE  Apart(v[k], v[j])
    <2> DEFINE i == j - 1
    <2>1. i \in 1..(n + 2) /\ i + 1 = j /\ i - 1 \in 0..(n + 2)
      BY <1>1, <1>8
    <2> HIDE DEF i
    <2>2. v[j] = Extent(FtypSize + Upto(r, i - 1), r[i].size, r[i].holds)
      BY <1>1, <1>3, <2>1
    <2>3. v[j].at = FtypSize + Upto(r, i - 1)
      BY <2>2 DEF Extent
    <2>4. CASE k = 1
      <3>1. v[k].at = 0 /\ v[k].size = FtypSize
        BY <1>1, <2>4 DEF Leading, Extent
      <3> QED
        BY <1>2, <1>4, <2>1, <2>3, <3>1 DEF Apart
    <2>5. CASE k # 1
      <3> DEFINE h == k - 1
      <3>1. h \in 1..(n + 2) /\ h + 1 = k /\ h - 1 \in 0..(n + 2) /\ h \in 0..(i - 1)
            /\ h \in 0..(n + 2)
        BY <1>1, <1>8, <2>1, <2>5
      <3> HIDE DEF h
      <3>2. v[k] = Extent(FtypSize + Upto(r, h - 1), r[h].size, r[h].holds)
        BY <1>1, <1>3, <3>1
      <3>3. v[k].at = FtypSize + Upto(r, h - 1) /\ v[k].size = r[h].size
        BY <3>2 DEF Extent
      <3>4. Upto(r, h) = Upto(r, h - 1) + r[h].size
        BY <1>5, <3>1
      <3>5. Upto(r, h) <= Upto(r, i - 1)
        BY <1>7, <2>1, <3>1
      <3>6. v[k].at + v[k].size <= v[j].at
        BY <1>2, <1>4, <1>6, <2>1, <2>3, <3>1, <3>3, <3>4, <3>5
      <3> QED
        BY <3>6 DEF Apart
    <2> QED
      BY <2>4, <2>5
  <1>9. \A k \in 1..(n + 3) : v[k] \in IntactOf(v)
    <2> TAKE k \in 1..(n + 3)
    <2>1. k \in 1..Len(v) /\ \A j \in 1..Len(v) : j > k => Apart(v[k], v[j])
      BY <1>1, <1>8
    <2> QED
      BY <1>1, <2>1, IntactIf
  <1> QED
    BY <1>9 DEF n, v

LEMMA RebuiltMoov ==
    ASSUME NEW q, NEW moov, NEW head, Rebuilding(q, moov, head)
    PROVE  LET v == Rebuilt(q, moov, head)
           IN  MoovsOf(v) = {v[2]} /\ v[2] \in IntactOf(v) /\ v[2].holds = moov.holds
  <1> DEFINE n == Len(q)
             v == Rebuilt(q, moov, head)
             m == moov.size
             h == head.size
             e == FtypSize + m + h + Bytes(q)
             A == {0, FtypSize, FtypSize + m, e}
             c == [k \in 1..2 |-> v[k]]
  <1>1. /\ IsSeq(v) /\ n \in Nat /\ Len(v) = n + 3
        /\ v[1] = Leading
        /\ v[2] = Extent(FtypSize, m, moov.holds)
        /\ v[3] = Extent(FtypSize + m, h, head.holds)
        /\ \A k \in 1..n :
             v[k + 3] = Extent(FtypSize + m + h + Upto(q, k - 1), q[k].size, q[k].holds)
    <2>1. IsRebuilt(v, q, n, <<moov, head>> \o q, moov, head)
      BY RebuiltIs
    <2> HIDE DEF v, n
    <2> QED
      BY <2>1 DEF IsRebuilt
  <1>2. \A k \in 1..(n + 3) : v[k] \in IntactOf(v)
    BY RebuiltIntact
  <1>3. /\ m \in Nat /\ m > 0 /\ moov.holds.kind = "moov"
        /\ h \in Nat /\ h > 0 /\ head.holds.kind = "mdat" /\ head.holds.total = h + Bytes(q)
        /\ \A k \in 1..n : q[k].holds.kind = "sample"
        /\ Bytes(q) \in Nat
    BY PieceSeq DEF Rebuilding
  <1>4. FtypSize \in Nat /\ FtypSize > 0
    BY ProgSizesAssumption
  <1> HIDE DEF n, v, m, h
  <1>5. /\ v[1].at = 0 /\ v[1].size = FtypSize /\ v[1].holds.kind = "ftyp"
        /\ v[2].at = FtypSize /\ v[2].size = m /\ v[2].holds = moov.holds
        /\ v[3].at = FtypSize + m /\ v[3].holds = head.holds
    BY <1>1 DEF Leading, Extent
  <1>6. BoxLength(v[1]) = FtypSize /\ BoxLength(v[2]) = m /\ BoxLength(v[3]) = h + Bytes(q)
    BY <1>3, <1>5 DEF BoxLength
  <1>7. ASSUME NEW a, NEW b \in BoxesOf(v, a)
        PROVE  b = v[1] \/ b = v[2] \/ b = v[3]
    <2>1. b \in IntactOf(v) /\ b.holds.kind \in {"ftyp", "mdat", "moov"}
      BY DEF BoxesOf
    <2>2. PICK i \in DOMAIN v : b = v[i]
      BY <2>1 DEF IntactOf
    <2>3. DOMAIN v = 1..(n + 3)
      BY <1>1 DEF IsSeq
    <2>4. CASE i > 3
      <3> DEFINE k == i - 3
      <3>1. k \in 1..n /\ k + 3 = i
        BY <1>1, <2>3, <2>4
      <3> HIDE DEF k
      <3>2. b.holds = q[k].holds
        <4>1. b = v[k + 3]
          BY <2>2, <3>1
        <4>2. v[k + 3] = Extent(FtypSize + m + h + Upto(q, k - 1), q[k].size, q[k].holds)
          BY <1>1, <3>1
        <4> QED
          BY <4>1, <4>2 DEF Extent
      <3> QED
        BY <1>3, <2>1, <3>1, <3>2
    <2>5. CASE ~(i > 3)
      <3>1. i = 1 \/ i = 2 \/ i = 3
        BY <1>1, <2>3, <2>5
      <3> QED
        BY <2>2, <3>1
    <2> QED
      BY <2>4, <2>5
  <1>8. StaysIn(v, A)
    <2>1. ASSUME NEW a \in A, NEW b \in BoxesOf(v, a) PROVE b.at + BoxLength(b) \in A
      <3>1. CASE b = v[1]
        BY <1>4, <1>5, <1>6, <3>1
      <3>2. CASE b = v[2]
        BY <1>5, <1>6, <3>2
      <3>3. CASE b = v[3]
        <4>1. b.at + BoxLength(b) = e
          BY <1>3, <1>4, <1>5, <1>6, <3>3
        <4> QED
          BY <4>1
      <3> QED
        BY <1>7, <3>1, <3>2, <3>3
    <2> HIDE DEF A
    <2>2. 0 \in A
      BY DEF A
    <2> QED
      BY <2>1, <2>2 DEF StaysIn
  <1>9. Chained(v, c, 2)
    <2>1. c[1] = v[1] /\ c[2] = v[2]
      OBVIOUS
    <2> HIDE DEF c
    <2>2. v[1] \in BoxesOf(v, 0)
      <3>1. 1 \in 1..(n + 3)
        BY <1>1
      <3> QED
        BY <1>2, <1>5, <3>1 DEF BoxesOf
    <2>3. v[2] \in BoxesOf(v, 0 + FtypSize)
      <3>1. 2 \in 1..(n + 3) /\ 0 + FtypSize = FtypSize
        BY <1>1, <1>4
      <3> QED
        BY <1>2, <1>3, <1>5, <3>1 DEF BoxesOf
    <2>4. ASSUME NEW k \in 1..(2 - 1)
          PROVE  BoxLength(c[k]) > 0 /\ c[k + 1] \in BoxesOf(v, c[k].at + BoxLength(c[k]))
      <3>1. k = 1 /\ k + 1 = 2
        OBVIOUS
      <3> QED
        BY <1>4, <1>5, <1>6, <2>1, <2>3, <3>1
    <2>5. 2 \in 1..Len(v)
      BY <1>1
    <2> QED
      BY <2>1, <2>2, <2>4, <2>5 DEF Chained
  <1>10. v[2] \in BoxesWalked(v)
    <2>1. c[2] \in BoxesWalked(v)
      BY <1>1, <1>9, WalkFinds
    <2> QED
      BY <2>1
  <1>11. \A b \in BoxesWalked(v) : b.holds.kind = "moov" => b = v[2]
    <2> SUFFICES ASSUME NEW b \in BoxesWalked(v), b.holds.kind = "moov" PROVE b = v[2]
      OBVIOUS
    <2>1. BoxesWalked(v) \subseteq UNION {BoxesOf(v, a) : a \in A}
      BY <1>1, <1>8, WalkWithin
    <2>2. PICK a \in A : b \in BoxesOf(v, a)
      BY <2>1
    <2>3. b = v[1] \/ b = v[2] \/ b = v[3]
      BY <1>7, <2>2
    <2> QED
      BY <1>3, <1>5, <2>3
  <1> HIDE DEF A, c, e
  <1>12. v[2].at \in Nat /\ v[2].holds.kind = "moov"
    BY <1>3, <1>4, <1>5
  <1>13. MoovsOf(v) = {v[2]}
    BY <1>10, <1>11, <1>12, OnlyMoov
  <1>14. 2 \in 1..(n + 3)
    BY <1>1
  <1> QED
    BY <1>2, <1>5, <1>13, <1>14 DEF v

LEMMA RebuiltSlides ==
    ASSUME NEW q, NEW moov, NEW head, Rebuilding(q, moov, head), NEW t
    PROVE  Slides(t, ToSet(Placed(q, 0)), IntactOf(Rebuilt(q, moov, head)),
                  FtypSize + moov.size + head.size)
  <1> DEFINE n == Len(q)
             v == Rebuilt(q, moov, head)
             w == Placed(q, 0)
             base == FtypSize + moov.size + head.size
             J == IntactOf(v)
  <1>1. /\ n \in Nat
        /\ \A k \in 1..n : v[k + 3] = Extent(base + Upto(q, k - 1), q[k].size, q[k].holds)
    <2>1. IsRebuilt(v, q, n, <<moov, head>> \o q, moov, head)
      BY RebuiltIs
    <2> HIDE DEF v, n
    <2> QED
      BY <2>1 DEF IsRebuilt
  <1>2. \A k \in 1..(n + 3) : v[k] \in J
    BY RebuiltIntact
  <1>3. Sized(q)
    BY DEF Rebuilding
  <1>4. base \in Nat
    BY ProgSizesAssumption DEF Rebuilding
  <1>5. /\ IsSeq(w) /\ Len(w) = n
        /\ \A k \in 1..n : w[k] = Extent(0 + Upto(q, k - 1), q[k].size, q[k].holds)
    BY <1>3, PlacedIs
  <1>6. \A k \in 1..n : Upto(q, k - 1) \in Nat
    <2> TAKE k \in 1..n
    <2>1. k - 1 \in 0..Len(q)
      BY <1>1
    <2> QED
      BY <1>3, <2>1, UptoIs
  <1> HIDE DEF n, v, w, base, J
  <1>7. ASSUME NEW k, NEW size, NEW at \in Nat, Stored(t, k, at, size) \in ToSet(w)
        PROVE  Stored(t, k, at + base, size) \in J
    <2>1. PICK i \in 1..n : Stored(t, k, at, size) = w[i]
      BY <1>1, <1>5, <1>7 DEF ToSet, IsSeq
    <2> DEFINE y == [kind |-> "sample", track |-> t, id |-> k]
               u == Upto(q, i - 1)
    <2>2. u \in Nat /\ w[i] = Extent(0 + u, q[i].size, q[i].holds)
          /\ v[i + 3] = Extent(base + u, q[i].size, q[i].holds)
      BY <1>1, <1>5, <1>6
    <2>3. Extent(at, size, y) = w[i] /\ Stored(t, k, at + base, size) = Extent(at + base, size, y)
      BY <2>1 DEF Stored
    <2> HIDE DEF y, u
    <2>4. at = 0 + u /\ size = q[i].size /\ y = q[i].holds
      BY <2>2, <2>3 DEF Extent
    <2>5. at + base = base + u
      BY <1>4, <2>2, <2>4
    <2>6. v[i + 3] = Extent(at + base, size, y)
      BY <2>2, <2>4, <2>5
    <2>7. i + 3 \in 1..(n + 3)
      BY <1>1
    <2> QED
      BY <1>2, <2>3, <2>6, <2>7
  <1>8. Slides(t, ToSet(w), J, base)
    BY <1>7 DEF Slides
  <1> QED
    BY <1>8 DEF w, J, v, base

(***************************************************************************)
(* What the calls write.                                                   *)
(***************************************************************************)
LEMMA ConcatOne ==
    ASSUME NEW w, IsSeq(w), NEW x
    PROVE  w \o <<x>> = Append(w, x)
  <1>1. PICK X : w \in Seq(X)
    BY DEF IsSeq
  <1> DEFINE T == X \cup {x}
  <1>2. w \in Seq(T) /\ x \in T
    BY <1>1
  <1> HIDE DEF T
  <1> QED
    BY <1>2

LEMMA ConcatTwo ==
    ASSUME NEW w, IsSeq(w), NEW x, NEW y
    PROVE  /\ w \o <<x, y>> = Append(Append(w, x), y)
           /\ (w \o <<x>>) \o <<y>> = Append(Append(w, x), y)
  <1>1. PICK X : w \in Seq(X)
    BY DEF IsSeq
  <1> DEFINE T == X \cup {x, y}
  <1>2. w \in Seq(T) /\ x \in T /\ y \in T
    BY <1>1
  <1> HIDE DEF T
  <1>3. w \o <<x>> = Append(w, x) /\ Append(w, x) \in Seq(T)
    BY <1>2
  <1>4. w \o <<x, y>> = Append(Append(w, x), y)
    BY <1>2
  <1>5. Append(w, x) \o <<y>> = Append(Append(w, x), y)
    <2> DEFINE v == Append(w, x)
    <2> HIDE DEF v
    <2>1. v \in Seq(T) => v \o <<y>> = Append(v, y)
      BY <1>2
    <2> QED
      BY <1>3, <2>1 DEF v
  <1> QED
    BY <1>3, <1>4, <1>5

LEMMA ConcatNone ==
    ASSUME NEW w, IsSeq(w)
    PROVE  w \o <<>> = w
  <1>1. PICK X : w \in Seq(X)
    BY DEF IsSeq
  <1> QED
    BY <1>1

LEMMA PlacedNone ==
    ASSUME NEW at \in Nat
    PROVE  Placed(<<>>, at) = <<>> /\ Bytes(<<>>) = 0 /\ Sized(<<>>)
  <1>1. Placed(<<>>, at) = <<>>
    BY DEF Placed
  <1> QED
    BY <1>1, BytesEmpty, SizedEmpty

LEMMA PlacedOne ==
    ASSUME NEW x, x.size \in Nat, NEW at \in Nat
    PROVE  /\ Placed(<<x>>, at) = <<Extent(at, x.size, x.holds)>>
           /\ Bytes(<<x>>) = x.size /\ Sized(<<x>>)
  <1> DEFINE z == Extent(at, x.size, x.holds)
             q == <<>>
  <1>1. Placed(q, at) = <<>> /\ Bytes(q) = 0 /\ Sized(q)
    BY PlacedNone
  <1>2. <<x>> = Append(q, x) /\ <<z>> = Append(<<>>, z)
    OBVIOUS
  <1> HIDE DEF q
  <1>3. Placed(Append(q, x), at) = Append(Placed(q, at), Extent(at + Bytes(q), x.size, x.holds))
    BY <1>1, PlacedAppend
  <1>4. at + Bytes(q) = at
    BY <1>1
  <1>5. Placed(Append(q, x), at) = Append(<<>>, z)
    BY <1>1, <1>3, <1>4
  <1> HIDE DEF z
  <1>6. Placed(<<x>>, at) = <<z>>
    BY <1>2, <1>5
  <1> QED
    BY <1>6, BytesOne DEF z

LEMMA PlacedTwo ==
    ASSUME NEW x, x.size \in Nat, NEW y, y.size \in Nat, NEW at \in Nat
    PROVE  /\ Placed(<<x, y>>, at) = <<Extent(at, x.size, x.holds),
                                       Extent(at + x.size, y.size, y.holds)>>
           /\ Bytes(<<x, y>>) = x.size + y.size /\ Sized(<<x, y>>)
  <1> DEFINE u == Extent(at, x.size, x.holds)
             v == Extent(at + x.size, y.size, y.holds)
             q == <<x>>
  <1>1. Placed(q, at) = <<u>> /\ Bytes(q) = x.size /\ Sized(q)
    BY PlacedOne
  <1>2. <<x, y>> = Append(q, y) /\ <<u, v>> = Append(<<u>>, v)
    OBVIOUS
  <1> HIDE DEF q
  <1>3. Placed(Append(q, y), at) = Append(Placed(q, at), Extent(at + Bytes(q), y.size, y.holds))
    BY <1>1, PlacedAppend
  <1>4. Placed(Append(q, y), at) = Append(<<u>>, v)
    BY <1>1, <1>3
  <1>5. Bytes(Append(q, y)) = x.size + y.size /\ Sized(Append(q, y))
    BY <1>1, BytesAppend, SizedAppend
  <1> HIDE DEF u, v
  <1>6. Placed(<<x, y>>, at) = <<u, v>>
    BY <1>2, <1>4
  <1> QED
    BY <1>2, <1>5, <1>6 DEF u, v

(* A call cut short has written some of its pieces, perhaps one byte more. *)
LEMMA CutIs ==
    ASSUME NEW q, Sized(q), NEW c \in Cuts(q)
    PROVE  /\ c.kept \in 0..(Len(q) - 1) /\ c.torn \in {0, 1} /\ Len(q) \in Nat
           /\ c.torn = 0 => Cut(q, c) = SubSeq(q, 1, c.kept)
           /\ c.kept = 0 => Cut(q, c) = IF c.torn = 0 THEN <<>>
                                        ELSE <<Piece(1, [kind |-> "torn"])>>
  <1>1. PICK k \in 0..(Len(q) - 1), n \in {0, 1} : c = [kept |-> k, torn |-> n]
    BY DEF Cuts
  <1>2. c.kept = k /\ c.torn = n
    BY <1>1
  <1>3. PICK S : q \in Seq(S)
    BY DEF Sized
  <1> DEFINE p == SubSeq(q, 1, k)
             z == Piece(1, [kind |-> "torn"])
  <1>4. Len(q) \in Nat /\ k \in 0..Len(q)
    BY <1>1, <1>3
  <1>5. p \in Seq(S) /\ SubSeq(q, 1, 0) = <<>>
    BY <1>3, <1>4, PrefixIs
  <1>6. Cut(q, c) = p \o (IF n = 0 THEN <<>> ELSE <<z>>)
    BY <1>2 DEF Cut
  <1> HIDE DEF p, z
  <1>7. n = 0 => Cut(q, c) = p
    BY <1>5, <1>6
  <1>8. k = 0 => p = <<>>
    BY <1>5 DEF p
  <1>9. <<>> \o <<z>> = <<z>> /\ <<>> \o <<>> = <<>>
    OBVIOUS
  <1> QED
    BY <1>1, <1>2, <1>4, <1>6, <1>7, <1>8, <1>9 DEF p, z

LEMMA MoovPositive ==
    ASSUME NEW trs, trs = [t \in Track |-> trs[t]], \A t \in Track : Timed(trs[t])
    PROVE  /\ MoovSize(trs) \in Nat /\ MoovSize(trs) > 0
           /\ Moov(trs).size = MoovSize(trs) /\ Moov(trs).holds.kind = "moov"
           /\ Moov(trs).holds.stbl = Tables(trs)
           /\ Moov(trs).holds.elst = TrackEdits(opts, trs)
  <1> DEFINE g == OffsetBytes(trs)
             n == NumTracks
  <1>1. n \in Nat /\ n >= 1 /\ n \in Track
    BY ProgTracksAssumption DEF Track
  <1>2. g \in Seq(Nat) /\ Len(g) = n
    BY OffsetBytesNat
  <1>3. MoovSize(trs) = MoovFixed + Total(g) /\ MoovSize(trs) \in Nat
    BY MoovSizeIs, MoovSizeNat
  <1>4. g[n] >= 16
    <2> DEFINE s == trs[n].chunkOffsets
               l == Len(s)
               each == IF \E k \in DOMAIN s : s[k] > U32Max THEN 8 ELSE 4
    <2>1. l \in Nat
      BY <1>1 DEF Timed, TrackState
    <2>2. g[n] = 16 + l * each
      BY <1>1 DEF OffsetBytes, ChunkOffsetBytes
    <2>3. each = 4 \/ each = 8
      OBVIOUS
    <2> HIDE DEF each, l, g
    <2>4. CASE each = 4
      BY <2>1, <2>2, <2>4
    <2>5. CASE each = 8
      BY <2>1, <2>2, <2>5
    <2> QED
      BY <2>3, <2>4, <2>5
  <1> HIDE DEF g, n
  <1>5. Total(SubSeq(g, 1, 0)) + g[n] <= Total(SubSeq(g, 1, n))
    <2>1. n \in 1..Len(g) /\ 0 \in 0..(n - 1)
      BY <1>1, <1>2
    <2> QED
      BY <1>2, <2>1, TotalGrows
  <1>6. SubSeq(g, 1, n) = g /\ SubSeq(g, 1, 0) = <<>>
    <2>1. n \in 0..Len(g)
      BY <1>1, <1>2
    <2> QED
      BY <1>2, <2>1, PrefixIs
  <1>7. Total(g) \in Nat /\ Total(<<>>) = 0 /\ g[n] \in Nat
    <2>1. n \in 1..Len(g)
      BY <1>1, <1>2
    <2> QED
      BY <1>2, <2>1, TotalNat, TotalEmpty
  <1>8. MoovSize(trs) > 0
    <2>1. 0 + g[n] <= Total(g)
      BY <1>5, <1>6, <1>7
    <2> QED
      BY <1>3, <1>4, <1>7, <2>1, ProgSizesAssumption
  <1>9. /\ Moov(trs).size = MoovSize(trs) /\ Moov(trs).holds.kind = "moov"
        /\ Moov(trs).holds.stbl = Tables(trs)
    BY DEF Moov, Piece, Tables
  <1>10. Moov(trs).holds.elst = TrackEdits(opts, trs)
    <2>1. Moov(trs).holds.elst = [t \in Track |-> ElstOf(trs, t)]
      BY DEF Moov, Piece
    <2>2. \A t \in Track : ElstOf(trs, t) = EditsOf(opts, trs[t], t)
      BY DEF ElstOf, EditsOf
    <2> QED
      BY <2>1, <2>2 DEF TrackEdits
  <1> QED
    BY <1>3, <1>8, <1>9, <1>10

(***************************************************************************)
(* What a call does to the tracks.                                         *)
(***************************************************************************)
LEMMA SwitchCloses ==
    ASSUME ProgInv, BooksInv, NEW t \in Track, NEW u \in Track, u # t
    PROVE  SwitchTo(t)[u] = CloseChunk(track[u])
  <1>1. CASE u \in lastTrack
    BY <1>1 DEF SwitchTo
  <1>2. CASE u \notin lastTrack
    <2>1. ~Open(track[u])
      BY <1>2 DEF BooksInv
    <2>2. track[u].currentChunkSamples \in Nat
      BY DEF BooksInv, Balanced
    <2>3. track[u].currentChunkSamples = 0
      BY <2>1, <2>2 DEF Open
    <2>4. SwitchTo(t)[u] = track[u]
      BY <1>2 DEF SwitchTo
    <2> QED
      BY <2>3, <2>4 DEF CloseChunk
  <1> QED
    BY <1>1, <1>2

LEMMA ClosedTables ==
    ASSUME NEW o, NEW tr, Timed(tr), NEW L, Tabled(o, tr, L)
    PROVE  Tabled(o, CloseChunk(tr), L)
  <1> DEFINE r == CloseChunk(tr)
  <1>1. /\ r.sampleSizes = tr.sampleSizes /\ r.stts = tr.stts /\ r.ctts = tr.ctts
        /\ r.keyframes = tr.keyframes /\ r.nextSampleIndex = tr.nextSampleIndex
    BY CloseFields
  <1> HIDE DEF r
  <1>2. Tabled(o, r, L)
    BY <1>1, SameTables
  <1> QED
    BY <1>2 DEF r

LEMMA MovedTables ==
    ASSUME NEW o, NEW tr, Timed(tr), NEW L, Tabled(o, tr, L), NEW base \in Nat
    PROVE  Tabled(o, Moved(tr, base), L)
  <1> DEFINE r == Moved(tr, base)
  <1>1. /\ r.sampleSizes = tr.sampleSizes /\ r.stts = tr.stts /\ r.ctts = tr.ctts
        /\ r.keyframes = tr.keyframes /\ r.nextSampleIndex = tr.nextSampleIndex
    BY MovedFields
  <1> HIDE DEF r
  <1>2. Tabled(o, r, L)
    BY <1>1, SameTables
  <1> QED
    BY <1>2 DEF r

(* Only extents of samples matter to the chunk offsets.                    *)
LEMMA LaidSamples ==
    ASSUME NEW tr, NEW t, NEW H, NEW e, Laid(tr, t, H, e), NEW J,
           \A x \in H : x.holds.kind = "sample" => x \in J
    PROVE  Laid(tr, t, J, e)
  <1> DEFINE P == Full(tr)
             sizes == tr.sampleSizes
             offsets == tr.chunkOffsets
             m == tr.currentChunkSamples
             a(k) == AddressOf(offsets, sizes, P[k], k)
  <1>1. /\ Len(sizes) = Len(P)
        /\ Len(offsets) = tr.chunkCount + (IF m > 0 THEN 1 ELSE 0)
        /\ \A k \in 1..Len(P) : /\ P[k].chunk \in 1..Len(offsets) /\ P[k].nth <= k - 1
                                /\ Stored(t, k, a(k), sizes[k]) \in H
        /\ m > 0 => AddressOf(offsets, sizes, [chunk |-> tr.chunkCount + 1, nth |-> m],
                              Len(P) + 1) = e
    BY DEF Laid
  <1>2. \A k, at, size : Stored(t, k, at, size).holds.kind = "sample"
    BY DEF Stored, Extent
  <1> HIDE DEF P, sizes, offsets, m, a
  <1>3. \A k \in 1..Len(P) : Stored(t, k, a(k), sizes[k]) \in J
    BY <1>1, <1>2
  <1> QED
    BY <1>1, <1>3 DEF Laid, P, sizes, offsets, m, a

LEMMA LogIs ==
    ASSUME ProgInv, ChunkInv, Undamaged, NEW t \in Track
    PROVE  /\ Timed(track[t]) /\ Shaped(track[t]) /\ IsSeq(log[t])
           /\ Len(Full(track[t])) = Len(log[t])
           /\ Settling => track[t].currentChunkSamples = 0
  <1>1. Chunked(opts, t, track[t], log[t], calls, Settling)
        /\ (Settling => track[t].currentChunkSamples = 0)
    BY DEF ChunkInv
  <1>2. Shaped(track[t]) /\ Reasoned(opts, t, Full(track[t]), log[t], calls)
    BY <1>1 DEF Chunked
  <1>3. IsSeq(log[t]) /\ Len(Full(track[t])) = Len(log[t])
    BY <1>2 DEF Reasoned
  <1>4. Timed(track[t])
    BY TypedParts
  <1> QED
    BY <1>1, <1>2, <1>3, <1>4

(***************************************************************************)
(* write_packet.                                                           *)
(***************************************************************************)
Stores(p, x) ==
    /\ x = Stored(p.track, Len(log[p.track]) + 1, x.at, p.size)
    /\ mdatBytes' = mdatBytes + p.size
    /\ mdatBuffer = {} =>
         /\ mdatBuffer' = {} /\ x.at = position
         /\ writes' = Append(writes, x) /\ position' = position + p.size
    /\ \A q \in mdatBuffer : mdatBuffer = {q} /\ Sized(q) =>
         /\ UNCHANGED output /\ x.at = Bytes(q)
         /\ \E r : /\ mdatBuffer' = {r} /\ Bytes(r) = Bytes(q) + p.size
                   /\ Placed(r, 0) = Append(Placed(q, 0), x)
                   /\ (\A k \in 1..Len(q) : q[k].holds.kind = "sample")
                        => \A k \in 1..Len(r) : r[k].holds.kind = "sample"

LEMMA StoreWrites ==
    ASSUME ProgInv, NEW p \in Packets, StorePayload(p), IsSeq(writes)
    PROVE  \E x : Stores(p, x)
  <1> DEFINE t == p.track
             h == [kind |-> "sample", track |-> t, id |-> Len(log[t]) + 1]
             piece == Payload(t, Len(log[t]) + 1, p.size)
  <1>1. piece.size = p.size /\ piece.holds = h /\ p.size \in Nat
    BY PacketIs, TypedParts DEF Payload, Piece
  <1>2. mdatBytes' = mdatBytes + p.size
    BY DEF StorePayload
  <1>3. \A at : Extent(at, p.size, h) = Stored(t, Len(log[t]) + 1, at, p.size)
    BY DEF Stored
  <1>4. \A at : Extent(at, p.size, h).at = at
    BY DEF Extent
  <1>5. h.kind = "sample"
    OBVIOUS
  <1> HIDE DEF h
  <1>6. CASE mdatBuffer = {}
    <2> DEFINE x == Extent(position, p.size, h)
    <2>1. WriteAt(position, <<piece>>) /\ mdatBuffer' = mdatBuffer
      BY <1>6 DEF StorePayload, Some
    <2>2. position \in Nat
      BY TypedParts
    <2> HIDE DEF piece
    <2>3. /\ Placed(<<piece>>, position) = <<x>> /\ Bytes(<<piece>>) = p.size
      BY <1>1, <2>2, PlacedOne
    <2> HIDE DEF x
    <2>4. writes' = Append(writes, x) /\ position' = position + p.size
      BY <2>1, <2>3, ConcatOne DEF WriteAt
    <2>5. x = Stored(t, Len(log[t]) + 1, position, p.size) /\ x.at = position
      BY <1>3, <1>4 DEF x
    <2>6. Stores(p, x)
      BY <1>2, <1>6, <2>1, <2>4, <2>5 DEF Stores
    <2> QED
      BY <2>6
  <1>7. CASE mdatBuffer # {}
    <2> DEFINE q == ValueOf(mdatBuffer, <<>>)
               r == Append(q, piece)
               x == Extent(Bytes(q), p.size, h)
    <2>1. mdatBuffer' = {r} /\ UNCHANGED output
      BY <1>7 DEF StorePayload, Some
    <2>2. q \in mdatBuffer /\ Sized(q)
      <3>1. q \in mdatBuffer
        BY <1>7 DEF ValueOf
      <3> QED
        BY <3>1, TypedParts
    <2> HIDE DEF q, piece
    <2>3. Bytes(q) \in Nat
      BY <2>2, PieceSeq
    <2>4. Bytes(r) = Bytes(q) + p.size
      BY <1>1, <2>2, BytesAppend
    <2>5. Placed(r, 0) = Append(Placed(q, 0), x)
      <3>1. Placed(r, 0) = Append(Placed(q, 0), Extent(0 + Bytes(q), p.size, h))
        BY <1>1, <2>2, PlacedAppend
      <3>2. 0 + Bytes(q) = Bytes(q)
        BY <2>3
      <3> QED
        BY <3>1, <3>2
    <2>6. (\A k \in 1..Len(q) : q[k].holds.kind = "sample")
            => \A k \in 1..Len(r) : r[k].holds.kind = "sample"
      <3>1. PICK S : q \in Seq(S)
        BY <2>2 DEF Sized
      <3>2. Len(r) = Len(q) + 1 /\ r[Len(q) + 1] = piece /\ Len(q) \in Nat
            /\ \A k \in 1..Len(q) : r[k] = q[k]
        BY <3>1
      <3>3. \A k \in 1..Len(r) : k \in 1..Len(q) \/ k = Len(q) + 1
        BY <3>2
      <3> HIDE DEF r
      <3> QED
        BY <1>1, <1>5, <3>2, <3>3
    <2>7. x = Stored(t, Len(log[t]) + 1, Bytes(q), p.size) /\ x.at = Bytes(q)
      BY <1>3, <1>4
    <2> HIDE DEF r, x
    <2>8. \A s \in mdatBuffer : mdatBuffer = {s} => s = q
      BY <2>2
    <2>9. Stores(p, x)
      BY <1>2, <1>7, <2>1, <2>4, <2>5, <2>6, <2>7, <2>8 DEF Stores
    <2> QED
      BY <2>9
  <1> QED
    BY <1>6, <1>7

PacketTracks(p) ==
    LET t == p.track
        at == mdatStartOffset + mdatBytes
    IN  /\ t \in Track
        /\ track'[t] = Recorded(track[t], p, at) /\ log'[t] = Append(log[t], LogEntry(p))
        /\ \A u \in Track : u # t => track'[u] = CloseChunk(track[u]) /\ log'[u] = log[u]
        /\ opts' = opts /\ mdatStartOffset' = mdatStartOffset /\ mdatSizeOffset' = mdatSizeOffset
        /\ headerWritten /\ headerWritten' /\ trailerWritten' = trailerWritten
        /\ mishaps' = mishaps \cup Late /\ StorePayload(p)

LEMMA WritePacketIs ==
    ASSUME ProgInv, ChunkInv, BooksInv, NEW p \in Packets, WritePacket(p)
    PROVE  PacketTracks(p)
  <1> DEFINE t == p.track
             old == SwitchTo(t)
             at == mdatStartOffset + mdatBytes
             new == Recorded(track[t], p, at)
             x == LogEntry(p)
  <1>1. t \in Track /\ opts \in Options
    BY PacketIs, TypedParts
  <1>2. old = [u \in Track |-> old[u]] /\ old[t] = track[t]
    BY <1>1, SwitchToTimed, SwitchIs
  <1>3. track' = [old EXCEPT ![t] = new]
    BY <1>2 DEF WritePacket, Recorded
  <1>4. log' = [log EXCEPT ![t] = Append(@, x)]
    BY DEF WritePacket
  <1>5. log = [u \in Track |-> log[u]]
    BY DEF ChunkInv
  <1>6. \A u \in Track : u # t => old[u] = CloseChunk(track[u])
    BY <1>1, SwitchCloses
  <1>7. /\ headerWritten /\ headerWritten' /\ opts' = opts /\ mdatStartOffset' = mdatStartOffset
        /\ mdatSizeOffset' = mdatSizeOffset /\ trailerWritten' = trailerWritten
        /\ mishaps' = mishaps \cup Late /\ StorePayload(p)
    BY DEF WritePacket
  <1> HIDE DEF old, new, x
  <1>8. track'[t] = new /\ \A u \in Track : u # t => track'[u] = old[u]
    BY <1>1, <1>2, <1>3
  <1>9. log'[t] = Append(log[t], x) /\ \A u \in Track : u # t => log'[u] = log[u]
    BY <1>1, <1>4, <1>5
  <1> QED
    BY <1>1, <1>6, <1>7, <1>8, <1>9 DEF PacketTracks, new, x

LEMMA PacketTables ==
    ASSUME ProgInv, ChunkInv, Undamaged, NEW p \in Packets, PacketTracks(p),
           \A u \in Track : Tabled(opts, track[u], log[u])
    PROVE  \A u \in Track : Tabled(opts', track'[u], log'[u])
  <1> DEFINE t == p.track
             at == mdatStartOffset + mdatBytes
  <1>1. t \in Track /\ opts' = opts
        /\ track'[t] = Recorded(track[t], p, at) /\ log'[t] = Append(log[t], LogEntry(p))
    BY DEF PacketTracks
  <1>2. \A u \in Track : u # t => track'[u] = CloseChunk(track[u]) /\ log'[u] = log[u]
    BY DEF PacketTracks
  <1>3. ASSUME NEW u \in Track, u # t
        PROVE  Tabled(opts', track'[u], log'[u])
    <2>1. Tabled(opts, CloseChunk(track[u]), log[u])
      BY ClosedTables, TypedParts
    <2> QED
      BY <1>1, <1>2, <1>3, <2>1
  <1>4. Tabled(opts', track'[t], log'[t])
    <2> DEFINE x == LogEntry(p)
    <2>1. x.packet = p /\ x.delta = ComputeDelta(track[t], p)
      BY DEF LogEntry
    <2>2. at \in Nat /\ opts \in Options
      BY TypedParts
    <2>3. Timed(track[t]) /\ IsSeq(log[t]) /\ Tabled(opts, track[t], log[t])
      BY <1>1, LogIs
    <2> HIDE DEF x, at, t
    <2>4. Tabled(opts, Recorded(track[t], p, at), Append(log[t], x))
      BY <2>1, <2>2, <2>3, TabledRecord
    <2> QED
      BY <1>1, <2>4 DEF x
  <1> QED
    BY <1>3, <1>4

LEMMA PacketLaid ==
    ASSUME ProgInv, ChunkInv, Undamaged, NEW p \in Packets, PacketTracks(p),
           NEW e, e = mdatStartOffset + mdatBytes,
           NEW H, \A u \in Track : Laid(track[u], u, H, e),
           NEW J, H \subseteq J,
           Stored(p.track, Len(log[p.track]) + 1, e, p.size) \in J
    PROVE  \A u \in Track : Laid(track'[u], u, J, e + p.size)
  <1> DEFINE t == p.track
  <1>1. t \in Track /\ track'[t] = Recorded(track[t], p, e)
    BY DEF PacketTracks
  <1>2. \A u \in Track : u # t => track'[u] = CloseChunk(track[u])
    BY DEF PacketTracks
  <1>3. ASSUME NEW u \in Track, u # t
        PROVE  Laid(track'[u], u, J, e + p.size)
    <2>1. Timed(track[u]) /\ Shaped(track[u]) /\ Laid(track[u], u, H, e)
      BY LogIs
    <2>2. Laid(CloseChunk(track[u]), u, J, e + p.size)
      BY <2>1, LaidClosed
    <2> QED
      BY <1>2, <1>3, <2>2
  <1>4. Laid(track'[t], t, J, e + p.size)
    <2>1. Timed(track[t]) /\ Shaped(track[t]) /\ Laid(track[t], t, H, e)
          /\ Len(Full(track[t])) = Len(log[t])
      BY <1>1, LogIs
    <2>2. e \in Nat /\ opts \in Options
      BY TypedParts
    <2>3. Stored(t, Len(Full(track[t])) + 1, e, p.size) \in J
      BY <2>1
    <2> HIDE DEF t
    <2>4. Laid(Recorded(track[t], p, e), t, J, e + p.size)
      BY <2>1, <2>2, <2>3, LaidJoined
    <2> QED
      BY <1>1, <2>4
  <1> QED
    BY <1>3, <1>4

LEMMA StreamedIs ==
    ASSUME Streamed
    PROVE  /\ mdatBuffer = {}
           /\ mdatStartOffset = mdatSizeOffset + HeaderBytes(opts.large)
           /\ \E n \in 1..Len(writes) :
                 Streams(writes, n, mdatSizeOffset, mdatStartOffset, position)
           /\ IsSeq(writes)
           /\ ~Settling => position = mdatStartOffset + mdatBytes
           /\ \A t \in Track : Laid(track[t], t, ToSet(writes), mdatStartOffset + mdatBytes)
  <1>1. PICK n \in 1..Len(writes) :
          Streams(writes, n, mdatSizeOffset, mdatStartOffset, position)
    BY DEF Streamed
  <1>2. IsSeq(writes)
    BY <1>1 DEF Streams, Extents
  <1> QED
    BY <1>2 DEF Streamed

LEMMA SetGrows ==
    ASSUME NEW w, IsSeq(w), NEW x
    PROVE  ToSet(w) \subseteq ToSet(Append(w, x)) /\ x \in ToSet(Append(w, x))
  <1> DEFINE v == Append(w, x)
  <1>1. PICK X : w \in Seq(X)
    BY DEF IsSeq
  <1>2. /\ DOMAIN w = 1..Len(w) /\ DOMAIN v = 1..(Len(w) + 1) /\ Len(w) \in Nat
        /\ v[Len(w) + 1] = x /\ \A k \in 1..Len(w) : v[k] = w[k]
    BY <1>1
  <1> HIDE DEF v
  <1>3. \A k \in 1..Len(w) : k \in 1..(Len(w) + 1)
    BY <1>2
  <1>4. Len(w) + 1 \in 1..(Len(w) + 1)
    BY <1>2
  <1>5. ToSet(w) = {w[k] : k \in DOMAIN w} /\ ToSet(v) = {v[k] : k \in DOMAIN v}
    BY DEF ToSet
  <1> QED
    BY <1>2, <1>3, <1>4, <1>5 DEF v

LEMMA StreamedAfterPacket ==
    ASSUME ProgInv, ChunkInv, Undamaged, ~Settling, ~Settling', Streamed,
           NEW p \in Packets, PacketTracks(p)
    PROVE  Streamed'
  <1> DEFINE S == mdatSizeOffset
             D == mdatStartOffset
             e == mdatStartOffset + mdatBytes
  <1>1. /\ mdatBuffer = {} /\ D = S + HeaderBytes(opts.large) /\ IsSeq(writes)
        /\ position = e /\ \A t \in Track : Laid(track[t], t, ToSet(writes), e)
    BY StreamedIs
  <1>2. PICK n \in 1..Len(writes) : Streams(writes, n, S, D, e)
    BY <1>1, StreamedIs
  <1>3. StorePayload(p) /\ mdatSizeOffset' = S /\ mdatStartOffset' = D /\ opts' = opts
    BY DEF PacketTracks
  <1>4. PICK x : Stores(p, x)
    BY <1>1, <1>3, StoreWrites
  <1>5. /\ x = Stored(p.track, Len(log[p.track]) + 1, e, p.size)
        /\ mdatBytes' = mdatBytes + p.size /\ mdatBuffer' = {}
        /\ writes' = Append(writes, x) /\ position' = e + p.size
    BY <1>1, <1>4 DEF Stores
  <1>6. S \in Nat /\ D \in Nat /\ e \in Nat /\ mdatBytes \in Nat /\ p.size \in Nat
    BY PacketIs, TypedParts
  <1>7. /\ x.at = e /\ x.size = p.size /\ IsExtent(x) /\ x.holds.kind = "sample"
    BY <1>5, <1>6 DEF Stored, Extent, IsExtent
  <1> DEFINE v == Append(writes, x)
  <1>8. Streams(v, n, S, D, e + p.size)
    <2>1. x.holds.kind \notin {"mdat", "ftyp"} /\ (x.holds.kind = "moov" => x.size > 0)
      BY <1>7
    <2>2. Streams(v, n, S, D, e + x.size)
      <3> HIDE DEF S, D, e
      <3> QED
        BY <1>2, <1>6, <1>7, <2>1, StreamsFill
    <2> QED
      BY <1>7, <2>2
  <1>9. n \in 1..Len(v)
    BY <1>8 DEF Streams, Ftyps
  <1>10. ToSet(writes) \subseteq ToSet(v) /\ x \in ToSet(v)
    BY <1>1, SetGrows
  <1> HIDE DEF v
  <1>11. \A t \in Track : Laid(track'[t], t, ToSet(v), e + p.size)
    BY <1>1, <1>5, <1>10, PacketLaid
  <1>12. e + p.size = mdatStartOffset' + mdatBytes'
    BY <1>3, <1>5, <1>6
  <1>13. writes' = v
    BY <1>5 DEF v
  <1> HIDE DEF e
  <1>14. \A t \in Track : Laid(track'[t], t, ToSet(writes'), mdatStartOffset' + mdatBytes')
    BY <1>11, <1>12, <1>13
  <1>15. \E k \in 1..Len(writes') : Streams(writes', k, mdatSizeOffset', mdatStartOffset', position')
    BY <1>3, <1>5, <1>8, <1>9, <1>13
  <1> QED
    BY <1>1, <1>3, <1>5, <1>12, <1>14, <1>15 DEF Streamed

LEMMA BufferedAfterPacket ==
    ASSUME ProgInv, ChunkInv, Undamaged, ~Settling, ~Settling', Buffered,
           NEW p \in Packets, PacketTracks(p)
    PROVE  Buffered'
  <1>1. PICK q \in mdatBuffer :
          /\ mdatBuffer = {q} /\ Bytes(q) = mdatBytes
          /\ \A k \in 1..Len(q) : q[k].holds.kind = "sample"
          /\ \A t \in Track : Laid(track[t], t, ToSet(Placed(q, 0)), mdatBytes)
    BY DEF Buffered
  <1>2. /\ mdatStartOffset = 0
        /\ writes = <<Extent(0, FtypSize, [kind |-> "ftyp"])>>
    BY DEF Buffered
  <1>3. StorePayload(p) /\ mdatStartOffset' = mdatStartOffset
    BY DEF PacketTracks
  <1>4. IsSeq(writes)
    <2> DEFINE z == Extent(0, FtypSize, [kind |-> "ftyp"])
    <2>1. <<z>> \in Seq({z})
      OBVIOUS
    <2> HIDE DEF z
    <2> QED
      BY <1>2, <2>1 DEF IsSeq, z
  <1>5. PICK x : Stores(p, x)
    BY <1>3, <1>4, StoreWrites
  <1>6. Sized(q)
    BY TypedParts
  <1>7. PICK r : /\ mdatBuffer' = {r} /\ Bytes(r) = Bytes(q) + p.size
                 /\ Placed(r, 0) = Append(Placed(q, 0), x)
                 /\ \A k \in 1..Len(r) : r[k].holds.kind = "sample"
    BY <1>1, <1>5, <1>6 DEF Stores
  <1>8. /\ UNCHANGED output /\ x.at = Bytes(q) /\ mdatBytes' = mdatBytes + p.size
        /\ x = Stored(p.track, Len(log[p.track]) + 1, x.at, p.size)
    BY <1>1, <1>5, <1>6 DEF Stores
  <1>9. IsSeq(Placed(q, 0))
    BY <1>6, PlacedIs
  <1> DEFINE H == ToSet(Placed(q, 0))
             J == ToSet(Placed(r, 0))
             e == mdatBytes
  <1>10. H \subseteq J /\ x \in J
    BY <1>7, <1>9, SetGrows
  <1>11. Stored(p.track, Len(log[p.track]) + 1, e, p.size) \in J
    BY <1>1, <1>8, <1>10
  <1>12. e = mdatStartOffset + mdatBytes
    BY <1>2, TypedParts
  <1>13. \A u \in Track : Laid(track[u], u, H, e)
    BY <1>1
  <1> HIDE DEF H, J
  <1>14. \A u \in Track : Laid(track'[u], u, J, e + p.size)
    <2> HIDE DEF e
    <2> QED
      BY <1>10, <1>11, <1>12, <1>13, PacketLaid
  <1>15. Bytes(r) = mdatBytes'
    BY <1>1, <1>7, <1>8
  <1>16. \A u \in Track : Laid(track'[u], u, ToSet(Placed(r, 0)), mdatBytes')
    BY <1>8, <1>14 DEF J
  <1>17. writes' = writes
    BY <1>8 DEF output
  <1> QED
    BY <1>2, <1>3, <1>7, <1>15, <1>16, <1>17 DEF Buffered

LEMMA FileAfterPacket ==
    ASSUME ProgInv, ChunkInv, BooksInv, FileInv, NEW p \in Packets, WritePacket(p)
    PROVE  FileInv'
  <1>1. PacketTracks(p)
    BY WritePacketIs
  <1>2. /\ headerWritten /\ headerWritten' /\ opts' = opts /\ trailerWritten' = trailerWritten
        /\ mishaps' = mishaps \cup Late
    BY <1>1 DEF PacketTracks
  <1>3. ASSUME Undamaged'
        PROVE  /\ \A t \in Track : Tabled(opts', track'[t], log'[t])
               /\ ~trailerWritten'
               /\ opts'.faststart => Buffered'
               /\ ~opts'.faststart => Streamed'
    <2>1. Undamaged /\ ~Settling /\ ~Settling'
      BY <1>2, <1>3 DEF Undamaged, Late, Settling
    <2>2. ~trailerWritten
      BY <2>1 DEF ChunkInv
    <2>3. \A t \in Track : Tabled(opts', track'[t], log'[t])
      BY <1>1, <2>1, PacketTables DEF FileInv
    <2>4. opts.faststart => Buffered
      BY <1>2, <2>1, <2>2 DEF FileInv
    <2>5. ~opts.faststart => Streamed
      BY <1>2, <2>1, <2>2 DEF FileInv
    <2>6. CASE opts.faststart
      BY <1>1, <1>2, <2>1, <2>2, <2>3, <2>4, <2>6, BufferedAfterPacket
    <2>7. CASE ~opts.faststart
      BY <1>1, <1>2, <2>1, <2>2, <2>3, <2>5, <2>7, StreamedAfterPacket
    <2> QED
      BY <2>6, <2>7
  <1> QED
    BY <1>2, <1>3 DEF FileInv

(* A payload refused: the tracks close their chunks all the same. *)
LEMMA FileAfterRefusal ==
    ASSUME ProgInv, ChunkInv, BooksInv, FileInv, NEW p \in Packets, PayloadFails(p)
    PROVE  FileInv'
  <1> DEFINE pieces == <<Payload(p.track, Len(log[p.track]) + 1, p.size)>>
  <1>1. /\ headerWritten /\ headerWritten' = headerWritten /\ mdatBuffer = {}
        /\ track' = SwitchTo(p.track)
        /\ UNCHANGED <<opts, trailerWritten, mdatSizeOffset, mdatStartOffset, mdatBytes,
                       mdatBuffer, log>>
    BY DEF PayloadFails
  <1>2. PICK c \in Cuts(pieces) :
          /\ WriteAt(position, Cut(pieces, c))
          /\ Fault(Late \cup (IF c.torn = 0 THEN {} ELSE {"torn"}))
    BY DEF PayloadFails
  <1>3. ASSUME Undamaged'
        PROVE  /\ \A t \in Track : Tabled(opts', track'[t], log'[t])
               /\ ~trailerWritten'
               /\ ~opts'.faststart /\ Streamed'
    <2>1. Undamaged /\ ~Settling /\ ~Settling' /\ c.torn = 0
      BY <1>2, <1>3 DEF Undamaged, Late, Settling, Fault
    <2>2. ~trailerWritten
      BY <2>1 DEF ChunkInv
    <2>3. ~opts.faststart
      BY <1>1, <2>1, <2>2 DEF FileInv, Buffered
    <2>4. Streamed /\ \A t \in Track : Tabled(opts, track[t], log[t])
      BY <1>1, <2>1, <2>2, <2>3 DEF FileInv
    <2>5. /\ IsSeq(writes) /\ position = mdatStartOffset + mdatBytes
          /\ mdatStartOffset = mdatSizeOffset + HeaderBytes(opts.large)
          /\ \E n \in 1..Len(writes) :
                Streams(writes, n, mdatSizeOffset, mdatStartOffset, position)
          /\ \A t \in Track : Laid(track[t], t, ToSet(writes), mdatStartOffset + mdatBytes)
      BY <2>1, <2>4, StreamedIs
    <2>6. Cut(pieces, c) = <<>>
      <3>1. Payload(p.track, Len(log[p.track]) + 1, p.size).size = p.size /\ p.size \in Nat
        BY PacketIs, TypedParts DEF Payload, Piece
      <3>2. Sized(pieces) /\ Len(pieces) = 1
        BY <3>1, SizedOne
      <3> HIDE DEF pieces
      <3>3. c.kept \in 0..(Len(pieces) - 1) /\ (c.kept = 0 => Cut(pieces, c) = <<>>)
        BY <2>1, <3>2, CutIs
      <3> QED
        BY <3>2, <3>3
    <2>7. writes' = writes /\ position' = position
      <3>1. Placed(<<>>, position) = <<>> /\ Bytes(<<>>) = 0 /\ position \in Nat
        BY PlacedNone, TypedParts
      <3>2. writes \o <<>> = writes
        BY <2>5, ConcatNone
      <3> HIDE DEF pieces
      <3>3. WriteAt(position, <<>>)
        BY <1>2, <2>6, Zenon
      <3>4. writes' = writes \o Placed(<<>>, position) /\ position' = position + Bytes(<<>>)
        BY <3>3 DEF WriteAt
      <3>5. writes' = writes
        BY <3>1, <3>2, <3>4, Zenon
      <3>6. position' = position
        <4>1. position' = position + 0
          BY <3>1, <3>4, Zenon
        <4> QED
          BY <3>1, <4>1
      <3> QED
        BY <3>5, <3>6
    <2>8. ASSUME NEW u \in Track
          PROVE  /\ Tabled(opts, track'[u], log[u])
                 /\ Laid(track'[u], u, ToSet(writes), mdatStartOffset + mdatBytes)
      <3>1. p.track \in Track
        BY PacketIs, TypedParts
      <3>2. CASE u = p.track
        <4>1. track'[u] = track[u]
          BY <1>1, <3>2, SwitchIs
        <4> QED
          BY <2>4, <2>5, <4>1
      <3>3. CASE u # p.track
        <4>1. track'[u] = CloseChunk(track[u])
          BY <1>1, <3>1, <3>3, SwitchCloses
        <4>2. Timed(track[u]) /\ Shaped(track[u])
          BY <2>1, LogIs
        <4>3. Laid(CloseChunk(track[u]), u, ToSet(writes), mdatStartOffset + mdatBytes)
          BY <2>5, <4>2, LaidClosed
        <4>4. Tabled(opts, CloseChunk(track[u]), log[u])
          BY <2>4, <4>2, ClosedTables
        <4> QED
          BY <4>1, <4>3, <4>4
      <3> QED
        BY <3>2, <3>3
    <2>9. Streamed'
      <3>1. \A t \in Track : Laid(track'[t], t, ToSet(writes'), mdatStartOffset' + mdatBytes')
        BY <1>1, <2>7, <2>8
      <3>2. \E n \in 1..Len(writes') :
              Streams(writes', n, mdatSizeOffset', mdatStartOffset', position')
        BY <1>1, <2>5, <2>7
      <3>3. /\ mdatBuffer' = {} /\ mdatStartOffset' = mdatSizeOffset' + HeaderBytes(opts'.large)
            /\ position' = mdatStartOffset' + mdatBytes'
        BY <1>1, <2>5, <2>7
      <3> QED
        BY <3>1, <3>2, <3>3 DEF Streamed
    <2> QED
      BY <1>1, <2>2, <2>3, <2>8, <2>9
  <1> QED
    BY <1>1, <1>3 DEF FileInv

LEMMA FileAfterOffset ==
    ASSUME FileInv, NEW p \in Packets, OffsetRefused(p)
    PROVE  FileInv'
  <1>1. headerWritten /\ headerWritten' = headerWritten /\ "refused" \in mishaps'
    BY DEF OffsetRefused, Fault
  <1>2. ~Undamaged'
    BY <1>1 DEF Undamaged
  <1> QED
    BY <1>1, <1>2 DEF FileInv

(***************************************************************************)
(* write_header.                                                           *)
(***************************************************************************)
LEMMA FileInit == Init => FileInv
  <1> SUFFICES ASSUME Init PROVE FileInv
    OBVIOUS
  <1>1. /\ ~headerWritten /\ ~trailerWritten /\ mdatBytes = 0 /\ mdatBuffer = {}
        /\ mishaps = {} /\ writes = <<>> /\ position = 0
    BY DEF Init
  <1>2. \A t \in Track : track[t] = NewTrack /\ log[t] = <<>>
    BY DEF Init
  <1>3. Untouched
    BY <1>1, <1>2 DEF Untouched, Settling
  <1>4. \A t \in Track : Tabled(opts, track[t], log[t])
    BY <1>2, TabledNew
  <1>5. Opening
    <2>1. <<>> \in Seq({}) /\ Len(<<>>) = 0
      OBVIOUS
    <2>2. Extents(<<>>)
      BY <2>1 DEF Extents, IsSeq
    <2>3. Ftyps(<<>>, 0, 0)
      BY <2>1 DEF Ftyps
    <2> QED
      BY <1>1, <2>1, <2>2, <2>3 DEF Opening
  <1> QED
    BY <1>1, <1>3, <1>4, <1>5 DEF FileInv

LEMMA HeaderSizes ==
    /\ Ftyp.size = FtypSize /\ Ftyp.holds = [kind |-> "ftyp"]
    /\ FtypSize \in Nat /\ FtypSize > 0
    /\ \A wide, total : /\ MdatHeader(wide, total).size = HeaderBytes(wide)
                        /\ MdatHeader(wide, total).holds = [kind |-> "mdat", total |-> total]
    /\ \A wide : HeaderBytes(wide) \in Nat /\ HeaderBytes(wide) > 0
  <1>1. Ftyp.size = FtypSize /\ Ftyp.holds = [kind |-> "ftyp"]
    BY DEF Ftyp, Piece
  <1>2. FtypSize \in Nat /\ FtypSize > 0
    BY ProgSizesAssumption
  <1>3. \A wide, total : /\ MdatHeader(wide, total).size = HeaderBytes(wide)
                         /\ MdatHeader(wide, total).holds = [kind |-> "mdat", total |-> total]
    BY DEF MdatHeader, Piece
  <1>4. \A wide : HeaderBytes(wide) \in Nat /\ HeaderBytes(wide) > 0
    BY DEF HeaderBytes
  <1> QED
    BY <1>1, <1>2, <1>3, <1>4

LEMMA OpeningIs ==
    ASSUME ProgInv, FileInv, ~headerWritten, Undamaged
    PROVE  /\ Untouched /\ Opening
           /\ IsSeq(writes) /\ Extents(writes) /\ Len(writes) \in Nat
           /\ Ftyps(writes, Len(writes), position)
           /\ position \in Nat
           /\ opts.faststart => writes = <<>> /\ position = 0
  <1>1. Untouched /\ Opening
    BY DEF FileInv
  <1>2. Extents(writes) /\ IsSeq(writes)
    BY <1>1 DEF Opening, Extents
  <1>3. Len(writes) \in Nat
    BY <1>2 DEF IsSeq
  <1>4. opts.faststart => writes = <<>> /\ position = 0
    <2>1. Ftyps(writes, Len(writes), position)
      BY <1>1 DEF Opening
    <2>2. opts.faststart => writes = <<>> /\ Len(writes) = 0
      BY <1>1 DEF Opening
    <2> QED
      BY <2>1, <2>2 DEF Ftyps
  <1>5. position \in Nat
    BY TypedParts
  <1> QED
    BY <1>1, <1>2, <1>3, <1>4, <1>5 DEF Opening

LEMMA BufferedAfterHeader ==
    ASSUME ProgInv, FileInv, Undamaged, WriteHeader, opts.faststart
    PROVE  Buffered'
  <1>1. /\ Untouched /\ writes = <<>> /\ position = 0 /\ IsSeq(writes)
    BY OpeningIs DEF WriteHeader
  <1>2. /\ WriteAt(position, Header) /\ mdatStartOffset' = 0 /\ mdatBuffer' = {<<>>}
        /\ UNCHANGED <<opts, track, mdatBytes>> /\ mishaps' = mishaps
    BY DEF WriteHeader, Present, history
  <1> DEFINE z == Extent(0, FtypSize, [kind |-> "ftyp"])
  <1>3. Placed(<<Ftyp>>, 0) = <<z>>
    BY HeaderSizes, PlacedOne
  <1>4. Header = <<Ftyp>>
    BY DEF Header
  <1> HIDE DEF z
  <1>5. writes' = <<>> \o <<z>>
    BY <1>1, <1>2, <1>3, <1>4 DEF WriteAt
  <1>6. writes' = <<z>>
    BY <1>5
  <1> DEFINE q == <<>>
  <1>7. mdatBytes' = 0 /\ ~Settling'
    BY <1>1, <1>2 DEF Untouched, Settling
  <1>8. mdatBuffer' = {q} /\ Bytes(q) = 0 /\ \A k \in 1..Len(q) : q[k].holds.kind = "sample"
    <2>1. Bytes(q) = 0
      BY PlacedNone
    <2>2. Len(q) = 0
      OBVIOUS
    <2> HIDE DEF q
    <2>3. \A k \in 1..Len(q) : q[k].holds.kind = "sample"
      BY <2>2
    <2>4. mdatBuffer' = {q}
      BY <1>2 DEF q
    <2> QED
      BY <2>1, <2>3, <2>4
  <1> HIDE DEF q
  <1>9. \A t \in Track : Laid(track'[t], t, ToSet(Placed(q, 0)), mdatBytes')
    BY <1>1, <1>2, LaidNew DEF Untouched
  <1> QED
    BY <1>2, <1>6, <1>7, <1>8, <1>9 DEF Buffered, z

LEMMA StreamedAfterHeader ==
    ASSUME ProgInv, FileInv, Undamaged, WriteHeader, ~opts.faststart
    PROVE  Streamed'
  <1> DEFINE w == writes
             n == Len(writes)
             at == position
             S == at + FtypSize
             h == HeaderBytes(opts.large)
             D == S + h
             x == Extent(at, FtypSize, [kind |-> "ftyp"])
             y == Extent(S, h, [kind |-> "mdat", total |-> 0])
             a == Append(w, x)
             v == Append(a, y)
  <1>1. /\ Untouched /\ Extents(w) /\ IsSeq(w) /\ n \in Nat /\ Ftyps(w, n, at) /\ at \in Nat
    BY OpeningIs DEF WriteHeader
  <1>2. /\ WriteAt(at, Header) /\ mdatSizeOffset' = S /\ mdatStartOffset' = at + Bytes(Header)
        /\ mdatBuffer' = {} /\ UNCHANGED <<opts, track, mdatBytes>> /\ mishaps' = mishaps
    BY DEF WriteHeader, Present, history
  <1>3. FtypSize \in Nat /\ h \in Nat /\ h > 0 /\ S \in Nat /\ D \in Nat /\ S < D
    BY <1>1, HeaderSizes
  <1>4. Placed(Header, at) = <<x, y>> /\ Bytes(Header) = FtypSize + h
    <2> DEFINE m == MdatHeader(opts.large, 0)
    <2>1. Header = <<Ftyp, m>>
      BY DEF Header
    <2>2. /\ Ftyp.size = FtypSize /\ Ftyp.holds = [kind |-> "ftyp"]
          /\ m.size = h /\ m.holds = [kind |-> "mdat", total |-> 0]
      BY HeaderSizes
    <2> HIDE DEF m, h
    <2>3. /\ Placed(<<Ftyp, m>>, at) = <<Extent(at, Ftyp.size, Ftyp.holds),
                                         Extent(at + Ftyp.size, m.size, m.holds)>>
          /\ Bytes(<<Ftyp, m>>) = Ftyp.size + m.size
      BY <1>1, <1>3, <2>2, PlacedTwo
    <2> QED
      BY <2>1, <2>2, <2>3
  <1>5. mdatStartOffset' = D /\ position' = D
    <2>1. position' = at + Bytes(Header)
      BY <1>2 DEF WriteAt
    <2>2. at + (FtypSize + h) = D
      BY <1>1, <1>3
    <2> QED
      BY <1>2, <1>4, <2>1, <2>2
  <1>6. writes' = v
    <2>1. writes' = w \o Placed(Header, at)
      BY <1>2 DEF WriteAt
    <2> HIDE DEF x, y
    <2>2. w \o <<x, y>> = v
      BY <1>1, ConcatTwo
    <2> QED
      BY <1>4, <2>1, <2>2
  <1>7. Extents(a) /\ Ftyps(a, n + 1, S)
    <2> HIDE DEF x
    <2>1. /\ Extents(Append(w, x)) /\ Ftyps(Append(w, x), Len(w) + 1, at + FtypSize)
      BY <1>1, FtypsLonger DEF x
    <2> QED
      BY <2>1
  <1>8. Len(a) = n + 1 /\ n + 1 \in Nat /\ n + 1 >= 1
    <2> HIDE DEF x
    <2>1. Len(Append(w, x)) = Len(w) + 1
      BY <1>1, AppendIsSeq
    <2> QED
      BY <1>1, <2>1
  <1> HIDE DEF a, n, S, D
  <1>9. Streams(a, n + 1, S, D, D)
    <2> DEFINE m == n + 1
    <2>1. m \in Nat /\ Len(a) = m /\ m >= 1 /\ Ftyps(a, m, S)
      BY <1>7, <1>8
    <2> HIDE DEF m
    <2>2. Streams(a, m, S, D, D)
      BY <1>3, <1>7, <2>1, StreamStarts
    <2> QED
      BY <2>2 DEF m
  <1>10. Streams(v, n + 1, S, D, D)
    <2>1. IsExtent(y) /\ Heads(y, S, D)
      BY <1>3 DEF Extent, IsExtent, Heads, D
    <2> HIDE DEF y
    <2> QED
      BY <1>3, <1>9, <2>1, StreamsHead
  <1>11. n + 1 \in 1..Len(v)
    BY <1>8, <1>10 DEF Streams, Ftyps
  <1> HIDE DEF v
  <1>12. mdatBytes' = 0 /\ ~Settling'
    BY <1>1, <1>2 DEF Untouched, Settling
  <1>13. \A t \in Track : Laid(track'[t], t, ToSet(writes'), mdatStartOffset' + mdatBytes')
    BY <1>1, <1>2, LaidNew DEF Untouched
  <1>14. position' = mdatStartOffset' + mdatBytes'
    BY <1>3, <1>5, <1>12
  <1>15. mdatStartOffset' = mdatSizeOffset' + HeaderBytes(opts'.large)
    BY <1>2, <1>5 DEF D
  <1>16. \E k \in 1..Len(writes') :
           Streams(writes', k, mdatSizeOffset', mdatStartOffset', position')
    BY <1>2, <1>5, <1>6, <1>10, <1>11
  <1> QED
    BY <1>2, <1>13, <1>14, <1>15, <1>16 DEF Streamed

LEMMA FileAfterHeader ==
    ASSUME ProgInv, FileInv, WriteHeader
    PROVE  FileInv'
  <1>1. /\ ~headerWritten /\ headerWritten' = TRUE
        /\ UNCHANGED <<opts, trailerWritten, track, log, mishaps>>
    BY DEF WriteHeader, history
  <1>2. ~trailerWritten
    BY <1>1 DEF FileInv, Untouched
  <1>3. ASSUME Undamaged'
        PROVE  /\ \A t \in Track : Tabled(opts', track'[t], log'[t])
               /\ opts'.faststart => Buffered'
               /\ ~opts'.faststart => Streamed'
    <2>1. Undamaged
      BY <1>1, <1>3 DEF Undamaged
    <2>2. \A t \in Track : Tabled(opts', track'[t], log'[t])
      BY <1>1, <2>1 DEF FileInv
    <2>3. CASE opts.faststart
      BY <1>1, <2>1, <2>2, <2>3, BufferedAfterHeader
    <2>4. CASE ~opts.faststart
      BY <1>1, <2>1, <2>2, <2>4, StreamedAfterHeader
    <2> QED
      BY <2>3, <2>4
  <1> QED
    BY <1>1, <1>2, <1>3 DEF FileInv

(* A header that failed leaves nothing behind, or the ftyp. *)
LEMMA FileAfterHeaderFails ==
    ASSUME ProgInv, FileInv, HeaderFails
    PROVE  FileInv'
  <1>1. /\ ~headerWritten /\ headerWritten' = headerWritten
        /\ UNCHANGED <<opts, trailerWritten, track, log, mdatBytes, mdatBuffer>>
    BY DEF HeaderFails
  <1>2. PICK c \in Cuts(Header) :
          /\ WriteAt(position, Cut(Header, c))
          /\ Fault(IF c.torn = 0 THEN {} ELSE {"torn"})
    BY DEF HeaderFails
  <1>3. mishaps' = mishaps \cup (IF c.torn = 0 THEN {} ELSE {"torn"})
    BY <1>2 DEF Fault
  <1>4. Untouched'
    BY <1>1, <1>3 DEF FileInv, Untouched, Settling
  <1>5. ASSUME Undamaged'
        PROVE  Opening' /\ \A t \in Track : Tabled(opts', track'[t], log'[t])
    <2>1. Undamaged /\ c.torn = 0
      BY <1>3, <1>5 DEF Undamaged
    <2>2. /\ Extents(writes) /\ IsSeq(writes) /\ Len(writes) \in Nat
          /\ Ftyps(writes, Len(writes), position) /\ position \in Nat
          /\ opts.faststart => writes = <<>>
      BY <1>1, <2>1, OpeningIs
    <2>3. /\ c.kept \in 0..(Len(Header) - 1) /\ Cut(Header, c) = SubSeq(Header, 1, c.kept)
          /\ c.kept = 0 => Cut(Header, c) = <<>>
      BY <2>1, SizedHeader, CutIs
    <2>4. \A t \in Track : Tabled(opts', track'[t], log'[t])
      BY <1>1, <2>1 DEF FileInv
    <2>5. CASE c.kept = 0
      <3>1. WriteAt(position, <<>>)
        BY <1>2, <2>3, <2>5, Zenon
      <3>2. writes' = writes \o Placed(<<>>, position) /\ position' = position + Bytes(<<>>)
        BY <3>1 DEF WriteAt
      <3>3. Placed(<<>>, position) = <<>> /\ Bytes(<<>>) = 0 /\ writes \o <<>> = writes
        BY <2>2, PlacedNone, ConcatNone
      <3>4. writes' = writes
        BY <3>2, <3>3, Zenon
      <3>5. position' = position
        <4>1. position' = position + 0
          BY <3>2, <3>3, Zenon
        <4> QED
          BY <2>2, <4>1
      <3> QED
        BY <1>1, <2>2, <2>4, <3>4, <3>5 DEF Opening
    <2>6. CASE c.kept # 0
      <3> DEFINE m == MdatHeader(opts.large, 0)
      <3>1. ~opts.faststart /\ c.kept = 1 /\ Header = <<Ftyp, m>>
        <4>1. CASE opts.faststart
          <5>1. Len(Header) = 1
            BY <4>1 DEF Header
          <5> QED
            BY <2>3, <2>6, <5>1
        <4>2. CASE ~opts.faststart
          <5>1. Header = <<Ftyp, m>>
            BY <4>2 DEF Header
          <5>2. Len(Header) = 2
            BY <5>1
          <5> QED
            BY <2>3, <2>6, <4>2, <5>1, <5>2
        <4> QED
          BY <4>1, <4>2
      <3>2. Cut(Header, c) = <<Ftyp>>
        <4> HIDE DEF m
        <4> DEFINE q == <<Ftyp, m>>
        <4>1. q \in Seq({Ftyp, m}) /\ Len(q) = 2 /\ q[1] = Ftyp
          OBVIOUS
        <4> HIDE DEF q
        <4>2. /\ SubSeq(q, 1, 1) \in Seq({Ftyp, m}) /\ Len(SubSeq(q, 1, 1)) = 1
              /\ \A k \in 1..1 : SubSeq(q, 1, 1)[k] = q[k]
          BY <4>1, PrefixIs
        <4>3. SubSeq(q, 1, 1) = <<Ftyp>>
          <5> DEFINE r == SubSeq(q, 1, 1)
          <5>1. r \in Seq({Ftyp, m}) /\ Len(r) = 1 /\ r[1] = Ftyp
            BY <4>1, <4>2
          <5> HIDE DEF r
          <5>2. r = <<Ftyp>>
            BY <5>1
          <5> QED
            BY <5>2 DEF r
        <4>4. Header = q
          BY <3>1 DEF q
        <4> QED
          BY <2>3, <3>1, <4>3, <4>4
      <3> DEFINE x == Extent(position, FtypSize, [kind |-> "ftyp"])
      <3>3. WriteAt(position, <<Ftyp>>)
        BY <1>2, <3>2, Zenon
      <3>4. Placed(<<Ftyp>>, position) = <<x>> /\ Bytes(<<Ftyp>>) = FtypSize
        BY <2>2, HeaderSizes, PlacedOne
      <3> HIDE DEF x
      <3>5. writes' = Append(writes, x) /\ position' = position + FtypSize
        BY <2>2, <3>3, <3>4, ConcatOne DEF WriteAt
      <3>6. /\ Extents(Append(writes, x))
            /\ Ftyps(Append(writes, x), Len(writes) + 1, position + FtypSize)
        BY <2>2, FtypsLonger DEF x
      <3>7. Len(Append(writes, x)) = Len(writes) + 1
        BY <2>2, AppendIsSeq
      <3> QED
        BY <1>1, <2>4, <3>1, <3>5, <3>6, <3>7 DEF Opening
    <2> QED
      BY <2>5, <2>6
  <1> QED
    BY <1>1, <1>4, <1>5 DEF FileInv

(***************************************************************************)
(* write_trailer, direct layout.                                           *)
(***************************************************************************)
LEMMA ClosedAre ==
    ASSUME ProgInv, ChunkInv, Undamaged, NEW t \in Track, Tabled(opts, track[t], log[t])
    PROVE  /\ Closed[t] = CloseChunk(track[t]) /\ Tabled(opts, Closed[t], log[t])
           /\ Timed(Closed[t]) /\ Shaped(Closed[t]) /\ Closed[t].currentChunkSamples = 0
  <1>1. Closed[t] = CloseChunk(track[t])
    BY DEF Closed
  <1>2. Timed(track[t]) /\ Shaped(track[t])
    BY LogIs
  <1>3. Tabled(opts, CloseChunk(track[t]), log[t])
    BY <1>2, ClosedTables
  <1>4. Shaped(CloseChunk(track[t])) /\ CloseChunk(track[t]).currentChunkSamples = 0
    BY <1>2, CloseShape
  <1>5. Timed(CloseChunk(track[t]))
    BY <1>2, CloseChunkTimed
  <1> QED
    BY <1>1, <1>3, <1>4, <1>5

(* Before a trailer of the direct layout: the output ends a stream.        *)
LEMMA BeforeDirect ==
    ASSUME ProgInv, ChunkInv, FileInv, Undamaged, TrailerCall, ~opts.faststart
    PROVE  /\ Streamed /\ IsSeq(writes) /\ Extents(writes)
           /\ mdatStartOffset = mdatSizeOffset + HeaderBytes(opts.large)
           /\ \E n \in 1..Len(writes) :
                 Streams(writes, n, mdatSizeOffset, mdatStartOffset, position)
           /\ \A t \in Track : Laid(track[t], t, ToSet(writes), mdatStartOffset + mdatBytes)
           /\ \A t \in Track : Tabled(opts, Closed[t], log[t])
           /\ mdatSizeOffset \in Nat /\ mdatStartOffset \in Nat /\ position \in Nat
           /\ Patched = <<Extent(mdatSizeOffset, HeaderBytes(opts.large),
                                 [kind |-> "mdat", total |-> position - mdatSizeOffset])>>
  <1>1. Streamed /\ \A t \in Track : Tabled(opts, track[t], log[t])
    BY DEF FileInv, TrailerCall
  <1>2. \A t \in Track : Tabled(opts, Closed[t], log[t])
    BY <1>1, ClosedAre
  <1>3. PICK n \in 1..Len(writes) :
          Streams(writes, n, mdatSizeOffset, mdatStartOffset, position)
    BY <1>1, StreamedIs
  <1>4. Extents(writes)
    BY <1>3 DEF Streams
  <1>5. mdatSizeOffset \in Nat /\ mdatStartOffset \in Nat /\ position \in Nat
    BY TypedParts
  <1>6. Patched = <<Extent(mdatSizeOffset, HeaderBytes(opts.large),
                           [kind |-> "mdat", total |-> position - mdatSizeOffset])>>
    BY DEF Patched, MdatTotal, Extent
  <1> QED
    BY <1>1, <1>2, <1>3, <1>4, <1>5, <1>6, StreamedIs

LEMMA ClosingAfterDirect ==
    ASSUME ProgInv, ChunkInv, FileInv, Undamaged, TrailerDirect
    PROVE  Closing' /\ \A t \in Track : Tabled(opts, Closed[t], log[t])
  <1> DEFINE w == writes
             S == mdatSizeOffset
             D == mdatStartOffset
             e == position
             h == HeaderBytes(opts.large)
             y == Extent(S, h, [kind |-> "mdat", total |-> e - S])
             moov == Moov(Closed)
             x == Extent(e, moov.size, moov.holds)
             v == Append(Append(w, y), x)
  <1>1. /\ ~opts.faststart /\ TrailerCall /\ track' = Closed
        /\ writes' = (w \o Patched) \o Placed(<<moov>>, e)
    BY DEF TrailerDirect
  <1>2. /\ IsSeq(w) /\ Extents(w) /\ D = S + h
        /\ \A t \in Track : Laid(track[t], t, ToSet(w), mdatStartOffset + mdatBytes)
        /\ \A t \in Track : Tabled(opts, Closed[t], log[t])
        /\ S \in Nat /\ D \in Nat /\ e \in Nat
        /\ Patched = <<y>>
    BY <1>1, BeforeDirect
  <1>3. PICK n \in 1..Len(w) : Streams(w, n, S, D, e)
    BY <1>1, BeforeDirect
  <1>4. moov.size \in Nat /\ moov.size > 0 /\ moov.holds.kind = "moov"
        /\ moov.holds.stbl = Tables(Closed) /\ moov.holds.elst = TrackEdits(opts, Closed)
    BY MoovPositive, ClosedTimed, TypedParts
  <1> HIDE DEF moov
  <1>5. writes' = v
    <2>1. Placed(<<moov>>, e) = <<x>>
      BY <1>2, <1>4, PlacedOne
    <2> HIDE DEF x, y, e
    <2>2. writes' = (w \o <<y>>) \o <<x>>
      BY <1>1, <1>2, <2>1
    <2>3. (w \o <<y>>) \o <<x>> = Append(Append(w, y), x)
      BY <1>2, ConcatTwo
    <2> QED
      BY <2>2, <2>3
  <1>6. Sealing(w, n, S, D, e, y, x)
    <2>1. h \in Nat
      BY HeaderSizes
    <2>2. IsExtent(y) /\ Heads(y, S, D) /\ y.holds.total = e - S
      BY <1>2, <2>1 DEF Extent, IsExtent, Heads
    <2>3. /\ IsExtent(x) /\ x.at = e /\ x.size > 0 /\ x.holds.kind = "moov"
      BY <1>2, <1>4 DEF Extent, IsExtent
    <2> HIDE DEF x, y, S, D, e
    <2> QED
      BY <1>2, <1>3, <2>2, <2>3 DEF Sealing
  <1>7. x.holds.stbl = Tables(Closed) /\ x.holds.elst = TrackEdits(opts, Closed)
    BY <1>4 DEF Extent
  <1> HIDE DEF x, y, S, D, e
  <1>8. MoovsOf(v) = {x} /\ x \in IntactOf(v)
        /\ \A k \in 1..Len(w) : Fills(w[k], D, e) => w[k] \in IntactOf(v)
    BY <1>6, SealedMoov, SealedIntact
  <1>9. \A z \in ToSet(w) : z.holds.kind = "sample" => z \in IntactOf(v)
    <2> SUFFICES ASSUME NEW z \in ToSet(w), z.holds.kind = "sample" PROVE z \in IntactOf(v)
      OBVIOUS
    <2>1. PICK k \in 1..Len(w) : z = w[k]
      BY <1>2 DEF ToSet, IsSeq
    <2>2. Len(w) \in Nat /\ Ftyps(w, n, S)
      BY <1>2, <1>3 DEF IsSeq, Streams
    <2>3. \A j \in 1..n : w[j].holds.kind = "ftyp"
      BY <2>2 DEF Ftyps
    <2>4. k \in (n + 1)..Len(w)
      BY <1>3, <2>1, <2>2, <2>3
    <2>5. Heads(w[k], S, D) \/ Fills(w[k], D, e)
      BY <1>3, <2>4 DEF Streams
    <2>6. Fills(w[k], D, e)
      BY <2>1, <2>5 DEF Heads
    <2> QED
      BY <1>8, <2>1, <2>6
  <1> HIDE DEF v
  <1>10. ASSUME NEW t \in Track
         PROVE  Laid(Closed[t], t, IntactOf(v), 0)
    <2> DEFINE H == {z \in ToSet(w) : z.holds.kind = "sample"}
               tr == CloseChunk(track[t])
               f == mdatStartOffset + mdatBytes
    <2>1. Timed(track[t]) /\ Shaped(track[t])
      BY LogIs
    <2>2. Laid(track[t], t, ToSet(w), f)
      BY <1>2
    <2>3. Laid(track[t], t, IntactOf(v), f)
      <3> HIDE DEF f
      <3> QED
        BY <1>9, <2>2, LaidSamples
    <2>4. Laid(tr, t, IntactOf(v), 0)
      BY <2>1, <2>3, LaidClosed
    <2>5. Closed[t] = tr
      BY DEF Closed
    <2> QED
      BY <2>4, <2>5
  <1>11. Closing'
    <2>1. x \in IntactOf(writes') /\ MoovsOf(writes') = {x}
          /\ x.holds.stbl = Tables(track') /\ x.holds.elst = TrackEdits(opts', track')
      <3>1. opts' = opts
        BY <1>1 DEF TrailerCall
      <3> QED
        BY <1>1, <1>5, <1>7, <1>8, <3>1
    <2>2. \A t \in Track : Laid(track'[t], t, IntactOf(writes'), 0)
      BY <1>1, <1>5, <1>10
    <2> QED
      BY <2>1, <2>2 DEF Closing
  <1> QED
    BY <1>2, <1>11

LEMMA FileAfterDirect ==
    ASSUME ProgInv, ChunkInv, FileInv, TrailerDirect
    PROVE  FileInv'
  <1>1. /\ headerWritten /\ headerWritten' = headerWritten /\ trailerWritten' = TRUE
        /\ track' = Closed /\ UNCHANGED <<opts, log>> /\ mishaps' = mishaps \cup {"trailer"}
    BY DEF TrailerDirect, TrailerCall
  <1>2. ASSUME Undamaged'
        PROVE  Closing' /\ \A t \in Track : Tabled(opts', track'[t], log'[t])
    <2>1. Undamaged
      BY <1>1, <1>2 DEF Undamaged
    <2>2. Closing' /\ \A t \in Track : Tabled(opts, Closed[t], log[t])
      BY <2>1, ClosingAfterDirect
    <2> QED
      BY <1>1, <2>2
  <1> QED
    BY <1>1, <1>2 DEF FileInv

(* A trailer that fails in a way the file survives leaves a stream again.  *)
LEMMA StreamedAfterTrailer ==
    ASSUME ProgInv, ChunkInv, FileInv, Undamaged, ~opts.faststart, TrailerCall,
           track' = Closed, mdatBuffer' = mdatBuffer, Settling',
           ToSet(writes) \subseteq ToSet(writes'),
           \E n \in 1..Len(writes') :
              Streams(writes', n, mdatSizeOffset, mdatStartOffset, position')
    PROVE  Streamed' /\ \A t \in Track : Tabled(opts', track'[t], log'[t])
  <1>1. /\ Streamed /\ mdatStartOffset = mdatSizeOffset + HeaderBytes(opts.large)
        /\ \A t \in Track : Laid(track[t], t, ToSet(writes), mdatStartOffset + mdatBytes)
        /\ \A t \in Track : Tabled(opts, Closed[t], log[t])
    BY BeforeDirect
  <1>2. UNCHANGED <<opts, mdatSizeOffset, mdatStartOffset, mdatBytes, log>>
    BY DEF TrailerCall
  <1>3. mdatBuffer = {}
    BY <1>1 DEF Streamed
  <1> DEFINE e == mdatStartOffset + mdatBytes
             H == ToSet(writes)
             J == ToSet(writes')
  <1>4. ASSUME NEW t \in Track
        PROVE  Laid(track'[t], t, J, e)
    <2>1. Timed(track[t]) /\ Shaped(track[t])
      BY LogIs
    <2>2. Laid(track[t], t, H, e) /\ H \subseteq J
      BY <1>1
    <2>3. track'[t] = CloseChunk(track[t])
      BY DEF Closed
    <2> HIDE DEF H, J, e
    <2>4. Laid(CloseChunk(track[t]), t, J, e)
      BY <2>1, <2>2, LaidClosed
    <2> QED
      BY <2>3, <2>4
  <1>5. mdatStartOffset' + mdatBytes' = e
    BY <1>2
  <1>6. \A t \in Track : Laid(track'[t], t, ToSet(writes'), mdatStartOffset' + mdatBytes')
    BY <1>4, <1>5
  <1>7. \E n \in 1..Len(writes') :
          Streams(writes', n, mdatSizeOffset', mdatStartOffset', position')
    BY <1>2
  <1>8. mdatBuffer' = {} /\ mdatStartOffset' = mdatSizeOffset' + HeaderBytes(opts'.large)
    BY <1>1, <1>2, <1>3
  <1>9. Streamed'
    BY <1>6, <1>7, <1>8 DEF Streamed
  <1> QED
    BY <1>1, <1>2, <1>9

LEMMA FileAfterTrailerRefused ==
    ASSUME ProgInv, ChunkInv, FileInv, TrailerRefused
    PROVE  FileInv'
  <1>1. /\ headerWritten /\ headerWritten' = headerWritten /\ ~trailerWritten
        /\ trailerWritten' = trailerWritten /\ ~opts.faststart /\ opts' = opts
        /\ TrailerCall /\ track' = Closed /\ mdatBuffer' = mdatBuffer
        /\ UNCHANGED output /\ mishaps' = mishaps \cup {"trailer"}
    BY DEF TrailerRefused, TrailerCall, Fault
  <1>2. ASSUME Undamaged'
        PROVE  Streamed' /\ \A t \in Track : Tabled(opts', track'[t], log'[t])
    <2>1. Undamaged /\ Settling'
      BY <1>1, <1>2 DEF Undamaged, Settling
    <2>2. writes' = writes /\ position' = position
      BY <1>1 DEF output
    <2>3. \E n \in 1..Len(writes) :
            Streams(writes, n, mdatSizeOffset, mdatStartOffset, position)
      BY <1>1, <2>1, BeforeDirect
    <2>4. /\ ToSet(writes) \subseteq ToSet(writes')
          /\ \E n \in 1..Len(writes') :
                Streams(writes', n, mdatSizeOffset, mdatStartOffset, position')
      BY <2>2, <2>3
    <2> QED
      BY <1>1, <2>1, <2>4, StreamedAfterTrailer
  <1> QED
    BY <1>1, <1>2 DEF FileInv

LEMMA FileAfterPatchFails ==
    ASSUME FileInv, PatchFails
    PROVE  FileInv'
  <1>1. headerWritten /\ headerWritten' = headerWritten /\ "patch" \in mishaps'
    BY DEF PatchFails, TrailerCall, Fault
  <1>2. ~Undamaged'
    BY <1>1 DEF Undamaged
  <1> QED
    BY <1>1, <1>2 DEF FileInv

(* What is left of the moov lies behind the payload, and is part of it for *)
(* the next trailer.                                                       *)
LEMMA FileAfterMoovFails ==
    ASSUME ProgInv, ChunkInv, FileInv, MoovFails
    PROVE  FileInv'
  <1> DEFINE moov == Moov(Closed)
             pieces == <<moov>>
  <1>1. /\ headerWritten /\ headerWritten' = headerWritten /\ ~trailerWritten
        /\ trailerWritten' = trailerWritten /\ ~opts.faststart /\ opts' = opts
        /\ TrailerCall /\ track' = Closed /\ mdatBuffer' = mdatBuffer
        /\ mishaps' = mishaps \cup {"trailer"}
    BY DEF MoovFails, TrailerCall, Fault
  <1>2. PICK part \in {Cut(pieces, c) : c \in Cuts(pieces)} \cup {pieces} :
          /\ writes' = (writes \o Patched) \o Placed(part, position)
          /\ position' = position + Bytes(part)
    BY DEF MoovFails
  <1>3. moov.size \in Nat /\ moov.size > 0 /\ moov.holds.kind = "moov"
    BY MoovPositive, ClosedTimed, TypedParts
  <1>4. part = <<>> \/ \E x : /\ part = <<x>> /\ x.size \in Nat /\ x.size > 0
                              /\ x.holds.kind \notin {"mdat", "ftyp"}
    <2>1. CASE part = pieces
      <3>1. moov.holds.kind \notin {"mdat", "ftyp"}
        BY <1>3
      <3> HIDE DEF moov
      <3> QED
        BY <1>3, <2>1, <3>1
    <2>2. CASE \E c \in Cuts(pieces) : part = Cut(pieces, c)
      <3>1. PICK c \in Cuts(pieces) : part = Cut(pieces, c)
        BY <2>2
      <3> HIDE DEF moov
      <3>2. Sized(pieces) /\ Len(pieces) = 1
        BY <1>3, SizedOne
      <3> DEFINE z == Piece(1, [kind |-> "torn"])
      <3> HIDE DEF pieces
      <3>3. c.kept \in 0..(Len(pieces) - 1)
            /\ (c.kept = 0 => Cut(pieces, c) = IF c.torn = 0 THEN <<>> ELSE <<z>>)
        BY <3>2, CutIs
      <3>4. part = <<>> \/ part = <<z>>
        BY <3>1, <3>2, <3>3
      <3>5. z.size = 1 /\ z.holds.kind \notin {"mdat", "ftyp"}
        BY DEF Piece
      <3> HIDE DEF z
      <3> QED
        BY <3>4, <3>5
    <2> QED
      BY <1>2, <2>1, <2>2
  <1>5. ASSUME Undamaged'
        PROVE  Streamed' /\ \A t \in Track : Tabled(opts', track'[t], log'[t])
    <2> DEFINE w == writes
               S == mdatSizeOffset
               D == mdatStartOffset
               e == position
               y == Extent(S, HeaderBytes(opts.large), [kind |-> "mdat", total |-> e - S])
               a == Append(w, y)
    <2>1. Undamaged /\ Settling'
      BY <1>1, <1>5 DEF Undamaged, Settling
    <2>2. /\ IsSeq(w) /\ D = S + HeaderBytes(opts.large)
          /\ S \in Nat /\ D \in Nat /\ e \in Nat /\ Patched = <<y>>
      BY <1>1, <2>1, BeforeDirect
    <2>3. PICK n \in 1..Len(w) : Streams(w, n, S, D, e)
      BY <1>1, <2>1, BeforeDirect
    <2>4. IsExtent(y) /\ Heads(y, S, D)
      BY <2>2, HeaderSizes DEF Extent, IsExtent, Heads
    <2> HIDE DEF y
    <2>5. writes' = a \o Placed(part, e) /\ position' = e + Bytes(part)
      BY <1>2, <2>2, ConcatOne
    <2>6. IsSeq(a) /\ ToSet(w) \subseteq ToSet(a)
      BY <2>2, AppendIsSeq, SetGrows
    <2>7. Streams(a, n, S, D, e)
      <3> HIDE DEF S, D, e, w
      <3> QED
        BY <2>2, <2>3, <2>4, StreamsHead
    <2>8. n \in 1..Len(a)
      BY <2>7 DEF Streams, Ftyps
    <2> HIDE DEF a
    <2>9. CASE part = <<>>
      <3>1. Placed(part, e) = <<>> /\ Bytes(part) = 0 /\ a \o <<>> = a
        BY <2>2, <2>6, <2>9, PlacedNone, ConcatNone
      <3>2. writes' = a
        BY <2>5, <3>1, Zenon
      <3>3. position' = e
        BY <2>2, <2>5, <3>1
      <3> QED
        BY <1>1, <2>1, <2>6, <2>7, <2>8, <3>2, <3>3, StreamedAfterTrailer
    <2>10. CASE part # <<>>
      <3>1. PICK x : /\ part = <<x>> /\ x.size \in Nat /\ x.size > 0
                     /\ x.holds.kind \notin {"mdat", "ftyp"}
        BY <1>4, <2>10
      <3> DEFINE z == Extent(e, x.size, x.holds)
                 v == Append(a, z)
      <3>2. Placed(<<x>>, e) = <<z>> /\ Bytes(<<x>>) = x.size
        BY <2>2, <3>1, PlacedOne
      <3>3. /\ z.at = e /\ z.size = x.size /\ z.holds = x.holds
        BY DEF Extent
      <3> HIDE DEF z
      <3>4. writes' = v /\ position' = e + x.size
        BY <2>5, <2>6, <3>1, <3>2, ConcatOne
      <3>5. Streams(v, n, S, D, e + x.size)
        <4>1. IsExtent(z)
          BY <2>2, <3>1, <3>3 DEF IsExtent
        <4>2. /\ z.holds.kind \notin {"mdat", "ftyp"} /\ (z.holds.kind = "moov" => z.size > 0)
          BY <3>1, <3>3
        <4> HIDE DEF S, D, e, v
        <4>3. Streams(Append(a, z), n, S, D, e + z.size)
          BY <2>2, <2>7, <3>3, <4>1, <4>2, StreamsFill
        <4> QED
          BY <3>3, <4>3 DEF v
      <3>6. n \in 1..Len(v)
        BY <3>5 DEF Streams, Ftyps
      <3>7. ToSet(a) \subseteq ToSet(v)
        BY <2>6, SetGrows
      <3> HIDE DEF v
      <3> QED
        BY <1>1, <2>1, <2>6, <3>4, <3>5, <3>6, <3>7, StreamedAfterTrailer
    <2> QED
      BY <2>9, <2>10
  <1> QED
    BY <1>1, <1>5 DEF FileInv

(***************************************************************************)
(* write_trailer, faststart.                                               *)
(***************************************************************************)
LEMMA SettledBase ==
    ASSUME ProgInv, Settled # {}
    PROVE  \E m \in Nat : /\ FaststartPlan.tracks = Shifted(Closed, Base(m))
                          /\ MoovSize(FaststartPlan.tracks) = m
  <1>1. Rounds \in Nat /\ Rounds >= 1
    BY ProgSizesAssumption DEF Rounds
  <1>2. LastRound \in Settled
    <2>1. Settled \in SUBSET Nat
      BY <1>1 DEF Settled
    <2>2. \E m \in Settled : \A k \in Settled : m <= k
      BY <2>1, LeastNumber
    <2>3. Min(Settled) \in Settled
      BY <2>2 DEF Min
    <2> QED
      BY <2>3 DEF LastRound
  <1> DEFINE m == Sizes[LastRound - 1]
  <1>3. LastRound \in 1..Rounds /\ Sizes[LastRound] = m
    BY <1>2 DEF Settled
  <1>4. LastRound - 1 \in 0..Rounds
    BY <1>1, <1>3
  <1>5. m \in Nat
    BY <1>4, SizesAre, TypedParts
  <1>6. Sizes[LastRound] = Grown(m)
    BY <1>3, SizesAre, TypedParts
  <1>7. FaststartPlan.tracks = Shifted(Closed, Base(m))
    BY PlanIs
  <1> HIDE DEF m
  <1>8. MoovSize(FaststartPlan.tracks) = m
    BY <1>3, <1>6, <1>7 DEF Grown
  <1> QED
    BY <1>5, <1>7, <1>8

LEMMA ClosingAfterFaststart ==
    ASSUME ProgInv, ChunkInv, FileInv, Undamaged, TrailerFaststart, FaststartPlan.converged
    PROVE  Closing' /\ \A t \in Track : Tabled(opts, track'[t], log[t])
  <1>1. /\ opts.faststart /\ TrailerCall /\ track' = FaststartPlan.tracks
        /\ WriteAt(FtypSize, FaststartPlan.pieces)
    BY DEF TrailerFaststart
  <1>2. Buffered /\ \A t \in Track : Tabled(opts, track[t], log[t])
    BY <1>1 DEF FileInv, TrailerCall
  <1>3. PICK q \in mdatBuffer :
          /\ mdatBuffer = {q} /\ \A k \in 1..Len(q) : q[k].holds.kind = "sample"
          /\ \A t \in Track : Laid(track[t], t, ToSet(Placed(q, 0)), mdatBytes)
    BY <1>2 DEF Buffered
  <1>4. writes = <<Leading>>
    BY <1>2 DEF Buffered, Leading
  <1>5. Sized(q) /\ Bytes(q) \in Nat
    BY PieceSeq, TypedParts
  <1>6. ValueOf(mdatBuffer, <<>>) = q
    BY <1>3 DEF ValueOf
  <1>7. Settled # {}
    BY PlanIs
  <1>8. PICK m \in Nat : /\ FaststartPlan.tracks = Shifted(Closed, Base(m))
                         /\ MoovSize(FaststartPlan.tracks) = m
    BY <1>7, SettledBase
  <1> DEFINE trs == FaststartPlan.tracks
             moov == Moov(trs)
             h == HeaderBytes(Wide)
             head == MdatHeader(Wide, h + Bytes(q))
             base == Base(m)
             v == Rebuilt(q, moov, head)
  <1>9. FaststartPlan.pieces = <<moov, head>> \o q
    BY <1>6, PlanIs
  <1>10. /\ moov.size = m /\ m > 0 /\ moov.holds.kind = "moov"
         /\ moov.holds.stbl = Tables(trs) /\ moov.holds.elst = TrackEdits(opts, trs)
    BY <1>8, MoovPositive, PlanTimed
  <1>11. /\ head.size = h /\ head.holds.kind = "mdat" /\ head.holds.total = h + Bytes(q)
         /\ h \in Nat /\ h > 0
    <2>1. h \in Nat /\ h > 0
      BY HeaderSizes
    <2> DEFINE total == h + Bytes(q)
    <2>2. head.size = HeaderBytes(Wide)
      BY HeaderSizes
    <2>3. head.holds = [kind |-> "mdat", total |-> total]
      BY HeaderSizes
    <2>4. head.holds.kind = "mdat" /\ head.holds.total = total
      <3> HIDE DEF total, head
      <3> QED
        BY <2>3
    <2> QED
      BY <2>1, <2>2, <2>4
  <1>12. base = FtypSize + m + h /\ base \in Nat
    BY <1>8, BaseNat DEF Base, PayloadStart
  <1> HIDE DEF moov, head, h, base, trs
  <1>13. Rebuilding(q, moov, head)
    BY <1>3, <1>5, <1>8, <1>10, <1>11 DEF Rebuilding
  <1>14. writes' = v
    BY <1>1, <1>4, <1>9 DEF WriteAt, Rebuilt
  <1>15. MoovsOf(v) = {v[2]} /\ v[2] \in IntactOf(v) /\ v[2].holds = moov.holds
    BY <1>13, RebuiltMoov
  <1>16. \A t \in Track : Slides(t, ToSet(Placed(q, 0)), IntactOf(v), base)
    <2> TAKE t \in Track
    <2>1. Slides(t, ToSet(Placed(q, 0)), IntactOf(v), FtypSize + moov.size + head.size)
      BY <1>13, RebuiltSlides
    <2>2. FtypSize + moov.size + head.size = base
      BY <1>10, <1>11, <1>12
    <2> QED
      BY <2>1, <2>2
  <1> HIDE DEF v
  <1>17. ASSUME NEW t \in Track
         PROVE  /\ Laid(track'[t], t, IntactOf(v), 0)
                /\ Tabled(opts, track'[t], log[t])
    <2> DEFINE tr == Closed[t]
               r == Moved(tr, base)
    <2>1. track'[t] = r
      BY <1>1, <1>8 DEF Shifted, Moved, base
    <2>2. Timed(tr) /\ Shaped(tr) /\ tr.currentChunkSamples = 0 /\ Tabled(opts, tr, log[t])
          /\ tr = CloseChunk(track[t])
      BY <1>2, ClosedAre
    <2>3. Laid(tr, t, ToSet(Placed(q, 0)), mdatBytes)
      <3>1. Timed(track[t]) /\ Shaped(track[t])
        BY LogIs
      <3>2. Laid(track[t], t, ToSet(Placed(q, 0)), mdatBytes)
        BY <1>3
      <3>3. Laid(CloseChunk(track[t]), t, ToSet(Placed(q, 0)), mdatBytes)
        BY <3>1, <3>2, LaidClosed
      <3> QED
        BY <2>2, <3>3
    <2> HIDE DEF tr
    <2>4. Laid(r, t, IntactOf(v), 0)
      BY <1>12, <1>16, <2>2, <2>3, LaidMoved
    <2>5. Tabled(opts, r, log[t])
      BY <1>12, <2>2, MovedTables
    <2> HIDE DEF r
    <2> QED
      BY <2>1, <2>4, <2>5
  <1>18. Closing'
    <2>1. v[2] \in IntactOf(writes') /\ MoovsOf(writes') = {v[2]}
          /\ v[2].holds.stbl = Tables(track') /\ v[2].holds.elst = TrackEdits(opts', track')
      <3>1. opts' = opts /\ track' = trs
        BY <1>1 DEF TrailerFaststart, TrailerCall, trs
      <3> QED
        BY <1>10, <1>14, <1>15, <3>1
    <2>2. \A t \in Track : Laid(track'[t], t, IntactOf(writes'), 0)
      BY <1>14, <1>17
    <2> QED
      BY <2>1, <2>2 DEF Closing
  <1> QED
    BY <1>17, <1>18

LEMMA FileAfterFaststart ==
    ASSUME ProgInv, ChunkInv, FileInv, TrailerFaststart
    PROVE  FileInv'
  <1>1. headerWritten /\ headerWritten' = headerWritten /\ UNCHANGED <<opts, log>>
    BY DEF TrailerFaststart, TrailerCall
  <1>2. CASE FaststartPlan.converged
    <2>1. trailerWritten' = TRUE /\ mishaps' = mishaps \cup {"trailer"}
      BY <1>2 DEF TrailerFaststart
    <2>2. ASSUME Undamaged'
          PROVE  Closing' /\ \A t \in Track : Tabled(opts', track'[t], log'[t])
      <3>1. Undamaged
        BY <2>1, <2>2 DEF Undamaged
      <3>2. Closing' /\ \A t \in Track : Tabled(opts, track'[t], log[t])
        BY <1>2, <3>1, ClosingAfterFaststart
      <3> QED
        BY <1>1, <3>2
    <2> QED
      BY <1>1, <2>1, <2>2 DEF FileInv
  <1>3. CASE ~FaststartPlan.converged
    <2>1. "gaveUp" \in mishaps'
      BY <1>3 DEF TrailerFaststart, Fault
    <2>2. ~Undamaged'
      BY <2>1 DEF Undamaged
    <2> QED
      BY <1>1, <2>2 DEF FileInv
  <1> QED
    BY <1>2, <1>3

LEMMA FileAfterRewriteFails ==
    ASSUME FileInv, FaststartFails
    PROVE  FileInv'
  <1>1. headerWritten /\ headerWritten' = headerWritten /\ "rebuilt" \in mishaps'
    BY DEF FaststartFails, TrailerCall, Fault
  <1>2. ~Undamaged'
    BY <1>1 DEF Undamaged
  <1> QED
    BY <1>1, <1>2 DEF FileInv

(***************************************************************************)
(* Every step.                                                             *)
(***************************************************************************)
LEMMA FileUnchanged ==
    ASSUME FileInv, UNCHANGED vars
    PROVE  FileInv'
  <1>1. /\ UNCHANGED <<opts, headerWritten, trailerWritten, track, mdatSizeOffset,
                       mdatStartOffset, mdatBytes, mdatBuffer, log, mishaps>>
        /\ position' = position /\ writes' = writes
    BY DEF vars, output, history
  <1>2. (Untouched' <=> Untouched) /\ (Undamaged' <=> Undamaged)
    BY <1>1 DEF Untouched, Undamaged, Settling
  <1>3. (Opening' <=> Opening) /\ (Closing' <=> Closing)
    BY <1>1 DEF Opening, Closing
  <1>4. Buffered' <=> Buffered
    BY <1>1 DEF Buffered, Settling
  <1>5. Streamed' <=> Streamed
    BY <1>1 DEF Streamed, Settling
  <1> QED
    BY <1>1, <1>2, <1>3, <1>4, <1>5 DEF FileInv

LEMMA FileStep ==
    ProgInv /\ ChunkInv /\ BooksInv /\ FileInv /\ [Next]_vars => FileInv'
  <1> SUFFICES ASSUME ProgInv, ChunkInv, BooksInv, FileInv, [Next]_vars PROVE FileInv'
    OBVIOUS
  <1>1. CASE WriteHeader
    BY <1>1, FileAfterHeader
  <1>2. CASE HeaderFails
    BY <1>2, FileAfterHeaderFails
  <1>3. CASE \E p \in Packets : WritePacket(p) \/ PayloadFails(p) \/ OffsetRefused(p)
    <2>1. PICK p \in Packets : WritePacket(p) \/ PayloadFails(p) \/ OffsetRefused(p)
      BY <1>3
    <2>2. CASE WritePacket(p)
      BY <2>2, FileAfterPacket
    <2>3. CASE PayloadFails(p)
      BY <2>3, FileAfterRefusal
    <2>4. CASE OffsetRefused(p)
      BY <2>4, FileAfterOffset
    <2> QED
      BY <2>1, <2>2, <2>3, <2>4
  <1>4. CASE WriteTrailer
    <2>1. CASE TrailerDirect
      BY <2>1, FileAfterDirect
    <2>2. CASE TrailerRefused
      BY <2>2, FileAfterTrailerRefused
    <2>3. CASE PatchFails
      BY <2>3, FileAfterPatchFails
    <2>4. CASE MoovFails
      BY <2>4, FileAfterMoovFails
    <2>5. CASE TrailerFaststart
      BY <2>5, FileAfterFaststart
    <2>6. CASE FaststartFails
      BY <2>6, FileAfterRewriteFails
    <2> QED
      BY <1>4, <2>1, <2>2, <2>3, <2>4, <2>5, <2>6 DEF WriteTrailer
  <1>5. CASE UNCHANGED vars
    BY <1>5, FileUnchanged
  <1> QED
    BY <1>1, <1>2, <1>3, <1>4, <1>5 DEF Next

(***************************************************************************)
(* A finished file.                                                        *)
(***************************************************************************)
LEMMA DeliveredIs ==
    ASSUME NEW t
    PROVE  LET s == ExpandSamples(MoovRead.stbl[t])
               got == Delivered(t)
           IN  /\ DOMAIN got = DOMAIN s
               /\ \A k \in DOMAIN s :
                    /\ got[k].offset = s[k].offset /\ got[k].size = s[k].size
                    /\ got[k].duration = s[k].duration /\ got[k].key = s[k].key
                    /\ got[k].cts = s[k].cts
  <1> DEFINE s == ExpandSamples(MoovRead.stbl[t])
             map(x) == DeltaForCts(MoovRead.elst[t], opts.scale[t], x.dts + x.cts)
             pts(x) == x.dts + x.cts + map(x).delta
             dts(x) == x.dts + map(x).delta
             discard(x) == ~map(x).presented
             one(x) == [offset |-> x.offset, size |-> x.size, duration |-> x.duration,
                        key |-> x.key, cts |-> x.cts, pts |-> pts(x), dts |-> dts(x),
                        discard |-> discard(x)]
  <1>1. Delivered(t) = [k \in DOMAIN s |-> one(s[k])]
    BY DEF Delivered
  <1> HIDE DEF s, pts, dts, discard
  <1>2. DOMAIN Delivered(t) = DOMAIN s /\ \A k \in DOMAIN s : Delivered(t)[k] = one(s[k])
    BY <1>1
  <1>3. \A x : /\ one(x).offset = x.offset /\ one(x).size = x.size
               /\ one(x).duration = x.duration /\ one(x).key = x.key /\ one(x).cts = x.cts
    OBVIOUS
  <1> HIDE DEF one
  <1>4. \A k \in DOMAIN s :
          /\ Delivered(t)[k].offset = s[k].offset /\ Delivered(t)[k].size = s[k].size
          /\ Delivered(t)[k].duration = s[k].duration /\ Delivered(t)[k].key = s[k].key
          /\ Delivered(t)[k].cts = s[k].cts
    BY <1>2, <1>3
  <1> QED
    BY <1>2, <1>4 DEF s

LEMMA MoovReadIs ==
    ASSUME ProgInv, ChunkInv, FileInv, Finished
    PROVE  /\ Some(MoovBox)
           /\ \A t \in Track :
                /\ MoovRead.stbl[t] = StblOf(track[t]) /\ IsSeq(log[t])
                /\ MoovRead.elst[t] = EditsOf(opts, track[t], t)
                /\ Reads(opts, t, StblOf(track[t]), log[t], Intact)
  <1>1. trailerWritten /\ Undamaged
    BY DEF Finished
  <1>2. headerWritten
    BY <1>1 DEF FileInv, Untouched
  <1>3. Closing /\ \A t \in Track : Tabled(opts, track[t], log[t])
    BY <1>1, <1>2 DEF FileInv
  <1>4. PICK x \in IntactOf(writes) :
          /\ MoovsOf(writes) = {x}
          /\ x.holds.stbl = Tables(track) /\ x.holds.elst = TrackEdits(opts, track)
    BY <1>3 DEF Closing
  <1>5. MoovBox = {x} /\ Intact = IntactOf(writes)
    BY <1>4, WalkedIs
  <1>6. MoovRead = x.holds
    BY <1>5 DEF MoovRead
  <1>7. \A t \in Track : /\ MoovRead.stbl[t] = StblOf(track[t])
                         /\ MoovRead.elst[t] = EditsOf(opts, track[t], t)
    BY <1>4, <1>6 DEF Tables, TrackEdits
  <1>8. Settling
    BY <1>1 DEF ChunkInv
  <1>9. ASSUME NEW t \in Track
        PROVE  IsSeq(log[t]) /\ Reads(opts, t, StblOf(track[t]), log[t], Intact)
    <2>1. /\ Timed(track[t]) /\ Shaped(track[t]) /\ IsSeq(log[t])
          /\ track[t].currentChunkSamples = 0
      BY <1>1, <1>8, LogIs
    <2>2. Laid(track[t], t, Intact, 0) /\ Tabled(opts, track[t], log[t])
      BY <1>3, <1>5 DEF Closing
    <2>3. Reads(opts, t, StblOf(track[t]), log[t], Intact)
      BY <2>1, <2>2, TrackReads
    <2> QED
      BY <2>1, <2>3
  <1> QED
    BY <1>5, <1>7, <1>9 DEF Some

LEMMA FileImplies ==
    ASSUME ProgInv, ChunkInv, FileInv
    PROVE  TablesReadBack
  <1> SUFFICES ASSUME Finished
               PROVE  /\ Readable
                      /\ \A t \in Track :
                          LET got == Delivered(t)
                              given(k) == log[t][k].packet
                              synced == \E k \in DOMAIN log[t] : given(k).key
                          IN  /\ DOMAIN got = DOMAIN log[t]
                              /\ \A k \in DOMAIN got :
                                  /\ got[k].size = given(k).size
                                  /\ got[k].duration = log[t][k].delta
                                  /\ got[k].cts = CompositionOffset(given(k))
                                  /\ synced => got[k].key = given(k).key
                                  /\ HoldsAt(got[k], t, k)
    BY DEF TablesReadBack
  <1>1. /\ Some(MoovBox)
        /\ \A t \in Track :
             /\ MoovRead.stbl[t] = StblOf(track[t]) /\ IsSeq(log[t])
             /\ Reads(opts, t, StblOf(track[t]), log[t], Intact)
    BY MoovReadIs
  <1>2. \A t \in Track : Reads(opts, t, MoovRead.stbl[t], log[t], Intact)
    BY <1>1
  <1>3. Readable
    BY <1>1, <1>2 DEF Readable, Reads
  <1>4. ASSUME NEW t \in Track
        PROVE  LET got == Delivered(t)
                   given(k) == log[t][k].packet
                   synced == \E k \in DOMAIN log[t] : given(k).key
               IN  /\ DOMAIN got = DOMAIN log[t]
                   /\ \A k \in DOMAIN got :
                       /\ got[k].size = given(k).size
                       /\ got[k].duration = log[t][k].delta
                       /\ got[k].cts = CompositionOffset(given(k))
                       /\ synced => got[k].key = given(k).key
                       /\ HoldsAt(got[k], t, k)
    <2> DEFINE L == log[t]
               s == ExpandSamples(MoovRead.stbl[t])
               got == Delivered(t)
    <2>1. /\ DOMAIN s = 1..Len(L)
          /\ \A k \in 1..Len(L) :
               /\ s[k].size = L[k].packet.size /\ s[k].duration = L[k].delta
               /\ s[k].cts = Composed(opts, L[k].packet)
               /\ (\E j \in 1..Len(L) : L[j].packet.key) => s[k].key = L[k].packet.key
               /\ Stored(t, k, s[k].offset, s[k].size) \in Intact
      BY <1>2 DEF Reads
    <2>2. DOMAIN L = 1..Len(L)
      BY <1>1 DEF IsSeq
    <2>3. /\ DOMAIN got = DOMAIN s
          /\ \A k \in DOMAIN s :
               /\ got[k].offset = s[k].offset /\ got[k].size = s[k].size
               /\ got[k].duration = s[k].duration /\ got[k].key = s[k].key
               /\ got[k].cts = s[k].cts
      BY DeliveredIs
    <2> HIDE DEF L, s, got
    <2>4. ASSUME NEW k \in DOMAIN L
          PROVE  /\ got[k].size = L[k].packet.size /\ got[k].duration = L[k].delta
                 /\ got[k].cts = CompositionOffset(L[k].packet)
                 /\ (\E j \in DOMAIN L : L[j].packet.key) => got[k].key = L[k].packet.key
                 /\ HoldsAt(got[k], t, k)
      <3>1. k \in 1..Len(L) /\ k \in DOMAIN s
        BY <2>1, <2>2
      <3>2. CompositionOffset(L[k].packet) = Composed(opts, L[k].packet)
        BY ComposedIs
      <3>3. HoldsAt(got[k], t, k)
        <4> DEFINE z == Stored(t, k, s[k].offset, s[k].size)
        <4>1. /\ z.at = s[k].offset /\ z.size = s[k].size
              /\ z.holds = [kind |-> "sample", track |-> t, id |-> k]
          BY DEF Stored, Extent
        <4>2. z \in Intact
          BY <2>1, <3>1
        <4>3. got[k].offset = s[k].offset /\ got[k].size = s[k].size
          BY <2>3, <3>1
        <4> HIDE DEF z
        <4> QED
          BY <4>1, <4>2, <4>3 DEF HoldsAt
      <3>4. got[k].size = L[k].packet.size /\ got[k].duration = L[k].delta
            /\ got[k].cts = CompositionOffset(L[k].packet)
        BY <2>1, <2>3, <3>1, <3>2
      <3>5. (\E j \in DOMAIN L : L[j].packet.key) => got[k].key = L[k].packet.key
        BY <2>1, <2>2, <2>3, <3>1
      <3> QED
        BY <3>3, <3>4, <3>5
    <2>5. DOMAIN got = DOMAIN L
      BY <2>1, <2>2, <2>3
    <2> QED
      BY <2>4, <2>5 DEF L, got
  <1> QED
    BY <1>3, <1>4

(* A finished file gives every accepted packet back (TablesReadBack): the  *)
(* demuxer finds the moov, its tables expand to one sample per packet with *)
(* the packet's size, duration, composition offset and sync flag, and lead *)
(* to the packet's bytes, untouched by any later write; in both layouts,   *)
(* after failed headers, refused payloads and trailers that had to be      *)
(* written again.  FileInv follows the file through those stages.          *)
THEOREM FileGivesBack == Spec => []TablesReadBack
  <1>1. Init => FileInv
    BY FileInit
  <1>2. ProgInv /\ ChunkInv /\ BooksInv /\ FileInv /\ [Next]_vars => FileInv'
    BY FileStep
  <1>3. ProgInv /\ ChunkInv /\ FileInv => TablesReadBack
    BY FileImplies
  <1>4. Init => BooksInv
    BY BooksInit
  <1>5. BooksInv /\ [Next]_vars => BooksInv'
    BY BooksStep
  <1> QED
    BY <1>1, <1>2, <1>3, <1>4, <1>5, ProgInvAlways, ChunkInvAlways, PTL DEF Spec
=============================================================================
