---------------------------- MODULE FragFileProofs --------------------------
(***************************************************************************)
(* What holds of the file FragMuxer writes, for every number of tracks,    *)
(* every option, packet and request set and every bound.                   *)
(***************************************************************************)
EXTENDS FragMuxerProofs

(***************************************************************************)
(* The trafs of a track, box by box.                                       *)
(***************************************************************************)
TrafsIn(box, t) == IF box.kind = "moof" THEN Mine(box.trafs, t) ELSE <<>>
HasTrafs(S, f) == IsFile(f) /\ \A m \in 1..Len(f) : f[m].kind = "moof" => f[m].trafs \in Seq(S)

LEMMA TrafsOfIs ==
    ASSUME NEW f, NEW t
    PROVE  TrafsOf(f, t) = FlattenSeq([m \in DOMAIN f |-> TrafsIn(f[m], t)])
  BY DEF TrafsOf, TrafsIn

LEMMA TrafsInTyped ==
    ASSUME NEW S, NEW f, HasTrafs(S, f), NEW t
    PROVE  /\ [m \in DOMAIN f |-> TrafsIn(f[m], t)] \in Seq(Seq(S))
           /\ Len([m \in DOMAIN f |-> TrafsIn(f[m], t)]) = Len(f)
           /\ TrafsOf(f, t) \in Seq(S)
  <1> DEFINE parts == [m \in DOMAIN f |-> TrafsIn(f[m], t)]
  <1>1. DOMAIN f = 1..Len(f) /\ Len(f) \in Nat
    BY DEF HasTrafs, IsFile
  <1>2. ASSUME NEW m \in 1..Len(f) PROVE TrafsIn(f[m], t) \in Seq(S)
    <2>1. CASE f[m].kind = "moof"
      <3>1. f[m].trafs \in Seq(S)
        BY <2>1 DEF HasTrafs
      <3>2. Mine(f[m].trafs, t) \in Seq(S)
        BY <3>1, SelectedTyped DEF Mine
      <3> QED
        BY <2>1, <3>2 DEF TrafsIn
    <2>2. CASE f[m].kind # "moof"
      BY <2>2 DEF TrafsIn
    <2> QED
      BY <2>1, <2>2
  <1>3. parts \in Seq(Seq(S)) /\ Len(parts) = Len(f)
    BY <1>1, <1>2
  <1> HIDE DEF parts
  <1>4. FlattenSeq(parts) \in Seq(S)
    BY <1>3, FlattenTyped
  <1> QED
    BY <1>3, <1>4, TrafsOfIs DEF parts

LEMMA TrafsJoin ==
    ASSUME NEW S, NEW f, NEW g, HasTrafs(S, f), HasTrafs(S, g), NEW t
    PROVE  HasTrafs(S, f \o g) /\ TrafsOf(f \o g, t) = TrafsOf(f, t) \o TrafsOf(g, t)
  <1> DEFINE aa == [m \in DOMAIN f |-> TrafsIn(f[m], t)]
             bb == [m \in DOMAIN g |-> TrafsIn(g[m], t)]
             h == f \o g
             cc == [m \in DOMAIN h |-> TrafsIn(h[m], t)]
  <1>1. /\ IsFile(h) /\ Len(h) = Len(f) + Len(g)
        /\ \A k \in 1..Len(f) : h[k] = f[k]
        /\ \A k \in 1..Len(g) : h[Len(f) + k] = g[k]
    BY FileConcat DEF HasTrafs
  <1>2. /\ Len(f) \in Nat /\ Len(g) \in Nat /\ DOMAIN f = 1..Len(f) /\ DOMAIN g = 1..Len(g)
        /\ DOMAIN h = 1..Len(h)
    BY <1>1 DEF HasTrafs, IsFile
  <1>3. /\ aa \in Seq(Seq(S)) /\ Len(aa) = Len(f) /\ bb \in Seq(Seq(S)) /\ Len(bb) = Len(g)
    BY TrafsInTyped
  <1>4. TrafsOf(f, t) = FlattenSeq(aa) /\ TrafsOf(g, t) = FlattenSeq(bb)
        /\ TrafsOf(h, t) = FlattenSeq(cc)
    BY TrafsOfIs
  <1>5. HasTrafs(S, h)
    <2> SUFFICES ASSUME NEW m \in 1..Len(h), h[m].kind = "moof" PROVE h[m].trafs \in Seq(S)
      BY <1>1 DEF HasTrafs
    <2>1. CASE m <= Len(f)
      <3>1. m \in 1..Len(f)
        BY <1>2, <2>1
      <3> QED
        BY <1>1, <3>1 DEF HasTrafs
    <2>2. CASE ~(m <= Len(f))
      <3>1. m - Len(f) \in 1..Len(g) /\ Len(f) + (m - Len(f)) = m
        BY <1>1, <1>2, <2>2
      <3>2. h[Len(f) + (m - Len(f))] = g[m - Len(f)]
        BY <1>1, <3>1
      <3> QED
        BY <3>1, <3>2 DEF HasTrafs
    <2> QED
      BY <2>1, <2>2
  <1> HIDE DEF h
  <1>6. \A k \in 1..Len(aa) : cc[k] = aa[k]
    <2>1. \A k \in 1..Len(f) : k \in DOMAIN h /\ k \in DOMAIN f /\ h[k] = f[k]
      BY <1>1, <1>2
    <2> QED
      BY <1>3, <2>1
  <1>7. \A k \in 1..Len(bb) : cc[Len(aa) + k] = bb[k]
    <2>1. \A k \in 1..Len(g) : Len(f) + k \in DOMAIN h /\ k \in DOMAIN g /\ h[Len(f) + k] = g[k]
      BY <1>1, <1>2
    <2> QED
      BY <1>3, <2>1
  <1>8. cc = [k \in 1..(Len(aa) + Len(bb)) |-> cc[k]]
    BY <1>1, <1>2, <1>3
  <1> HIDE DEF aa, bb, cc
  <1>9. FlattenSeq(cc) = FlattenSeq(aa) \o FlattenSeq(bb)
    BY <1>3, <1>6, <1>7, <1>8, FlattenJoin, ZenonT(60), SMTT(30)
  <1> QED
    BY <1>4, <1>5, <1>9 DEF h

(* Boxes other than a moof hold no traf.                                   *)
(* r is p, then q.                                                         *)
Joined(r, p, q) == r = p \o q

LEMMA TrafsConcat ==
    ASSUME NEW S, NEW f, NEW g, HasTrafs(S, f), HasTrafs(S, g)
    PROVE  /\ HasTrafs(S, f \o g)
           /\ \A t : Joined(TrafsOf(f \o g, t), TrafsOf(f, t), TrafsOf(g, t))
  <1>1. ASSUME NEW t
        PROVE  HasTrafs(S, f \o g) /\ TrafsOf(f \o g, t) = TrafsOf(f, t) \o TrafsOf(g, t)
    BY TrafsJoin
  <1> QED
    BY <1>1 DEF Joined

LEMMA QuietTrafs ==
    ASSUME NEW S, NEW g, IsFile(g), \A m \in 1..Len(g) : g[m].kind # "moof", NEW t
    PROVE  HasTrafs(S, g) /\ TrafsOf(g, t) = <<>>
  <1>1. HasTrafs(S, g)
    BY DEF HasTrafs
  <1> DEFINE parts == [m \in DOMAIN g |-> TrafsIn(g[m], t)]
  <1>2. parts \in Seq(Seq(S)) /\ Len(parts) = Len(g)
    BY <1>1, TrafsInTyped
  <1>3. DOMAIN g = 1..Len(g)
    BY DEF IsFile
  <1>4. \A m \in 1..Len(g) : TrafsIn(g[m], t) = <<>>
    BY DEF TrafsIn
  <1>5. \A m \in 1..Len(parts) : parts[m] = <<>>
    BY <1>2, <1>3, <1>4
  <1> HIDE DEF parts
  <1>6. FlattenSeq(parts) = <<>>
    BY <1>2, <1>5, FlattenNone
  <1> QED
    BY <1>1, <1>6, TrafsOfIs DEF parts

(* One moof.                                                               *)
LEMMA MoofTrafs ==
    ASSUME NEW S, NEW moof, Only({"moof"}, <<moof>>), moof.trafs \in Seq(S), NEW t
    PROVE  HasTrafs(S, <<moof>>) /\ TrafsOf(<<moof>>, t) = Mine(moof.trafs, t)
  <1> DEFINE g == <<moof>>
             parts == [m \in DOMAIN g |-> TrafsIn(g[m], t)]
             mine == Mine(moof.trafs, t)
  <1>1. Len(g) = 1 /\ g[1] = moof /\ DOMAIN g = 1..1 /\ g[1].kind = "moof"
    BY DEF Only
  <1>2. HasTrafs(S, g)
    <2>1. \A m \in 1..Len(g) : g[m] = moof
      BY <1>1
    <2> QED
      BY <2>1 DEF HasTrafs, Only
  <1>3. parts = <<mine>>
    <2>1. TrafsIn(moof, t) = mine
      BY <1>1 DEF TrafsIn
    <2> HIDE DEF mine
    <2>2. \A m \in DOMAIN g : TrafsIn(g[m], t) = mine
      BY <1>1, <2>1
    <2>3. <<mine>> = [m \in 1..1 |-> mine]
      OBVIOUS
    <2> HIDE DEF g
    <2> QED
      BY <1>1, <2>2, <2>3
  <1>4. mine \in Seq(S)
    BY SelectedTyped DEF Mine
  <1> HIDE DEF parts, mine
  <1>5. FlattenSeq(parts) = mine
    BY <1>3, <1>4, FlattenOne
  <1> QED
    BY <1>2, <1>5, TrafsOfIs DEF parts, mine

(* The patch of the moov changes no traf.                                  *)
LEMMA AlikeTrafs ==
    ASSUME NEW S, NEW f, NEW h, HasTrafs(S, f), Alike(f, h), NEW t
    PROVE  HasTrafs(S, h) /\ TrafsOf(h, t) = TrafsOf(f, t)
  <1>1. IsFile(h)
    BY AlikeFile DEF HasTrafs
  <1>2. DOMAIN f = 1..Len(f) /\ DOMAIN h = 1..Len(f) /\ Len(h) = Len(f)
    BY <1>1 DEF HasTrafs, IsFile, Alike
  <1>3. ASSUME NEW m \in 1..Len(f)
        PROVE  TrafsIn(h[m], t) = TrafsIn(f[m], t) /\ (h[m].kind = "moof" => h[m] = f[m])
    <2>1. h[m].kind = f[m].kind
      BY DEF Alike
    <2>2. CASE f[m].kind = "moof"
      <3>1. h[m] = f[m]
        BY <2>2 DEF Alike
      <3> QED
        BY <3>1
    <2>3. CASE f[m].kind # "moof"
      BY <2>1, <2>3 DEF TrafsIn
    <2> QED
      BY <2>2, <2>3
  <1>4. HasTrafs(S, h)
    BY <1>1, <1>2, <1>3 DEF HasTrafs
  <1>5. [m \in DOMAIN h |-> TrafsIn(h[m], t)] = [m \in DOMAIN f |-> TrafsIn(f[m], t)]
    BY <1>2, <1>3
  <1> QED
    BY <1>4, <1>5, TrafsOfIs

(***************************************************************************)
(* The trafs of a batch: one for each track that has samples.              *)
(***************************************************************************)
LEMMA BatchTrafs ==
    ASSUME NEW b, BatchTyped(b.pending, b.senc, b.seig)
    PROVE  LET moof == BuildMoof(b)
               r == Contributing(b)
           IN  /\ \E S : moof.trafs \in Seq(S)
               /\ Len(moof.trafs) = Len(r)
               /\ \A n \in 1..Len(r) :
                    \E at : moof.trafs[n]
                              = BuildTraf(b, r[n], at, moof.size + 8 + DataBefore(b, n))
  <1> DEFINE moof == BuildMoof(b)
             r == Contributing(b)
             start == moof.size + 8
             f == moof.trafs
  <1>1. IsTrafs(b, start, f, Len(r))
    BY MoofIs
  <1>2. r \in Seq(Track)
    BY ContributingIs
  <1> HIDE DEF start, f
  <1>3. /\ DOMAIN f = 1..Len(r) /\ f = [k \in DOMAIN f |-> f[k]]
        /\ \A k \in DOMAIN f : f[k] = TrafAfter(b, start, f, k)
    BY <1>1, TrafsWeigh, ZenonT(60), SMTT(30)
  <1> HIDE DEF r
  <1>4. Len(r) \in Nat
    BY <1>2
  <1> DEFINE S == {f[k] : k \in 1..Len(r)}
  <1>5. f \in Seq(S) /\ Len(f) = Len(r)
    <2>1. \A k \in 1..Len(r) : f[k] \in S
      OBVIOUS
    <2> HIDE DEF S
    <2> QED
      BY <1>3, <1>4, <2>1
  <1>6. \A n \in 1..Len(r) : \E at : f[n] = BuildTraf(b, r[n], at, start + DataBefore(b, n))
    BY <1>3 DEF TrafAfter, r
  <1> QED
    BY <1>5, <1>6 DEF f, start, r

LEMMA TrafIs ==
    ASSUME NEW b, NEW t, NEW at, NEW off
    PROVE  LET traf == BuildTraf(b, t, at, off)
           IN  /\ traf.at = at /\ traf.bmdt = nextBmdt[t]
               /\ traf.tfhd = BuildTfhd(t, b.pending[t])
               /\ traf.tfhd.track = t /\ ~traf.tfhd.empty
               /\ traf.trun = {BuildTrun(b.pending[t], off)}
               /\ ValueOf(traf.trun, {}) = BuildTrun(b.pending[t], off)
               /\ traf.cenc = CencBoxes(b.senc[t], at + 8 + TfhdBytes(traf.tfhd) + 20)
               /\ traf.groups = SeigGroups(b.seig[t])
  <1> DEFINE traf == BuildTraf(b, t, at, off)
             tfhd == BuildTfhd(t, b.pending[t])
             trun == BuildTrun(b.pending[t], off)
  <1>1. tfhd.track = t /\ ~tfhd.empty
    BY DEF BuildTfhd, TfhdWith
  <1> HIDE DEF trun
  <1>2. ValueOf({trun}, {}) = trun
    BY ValueOfSome
  <1> HIDE DEF tfhd
  <1>3. /\ traf.at = at /\ traf.bmdt = nextBmdt[t] /\ traf.tfhd = tfhd
        /\ traf.trun = {trun}
        /\ traf.cenc = CencBoxes(b.senc[t], at + 8 + TfhdBytes(tfhd) + 20)
        /\ traf.groups = SeigGroups(b.seig[t])
    BY DEF BuildTraf, tfhd, trun
  <1> QED
    BY <1>1, <1>2, <1>3 DEF tfhd, trun

(* The demuxer's sum of a packed run is the muxer's.                       *)
LEMMA RunTicks ==
    ASSUME NEW q \in Seq(Sample), NEW t, NEW off, NEW base, NEW dts
    PROVE  LET run == ReadRun(BuildTfhd(t, q), BuildTrun(q, off), Trex, base, dts)
           IN  /\ DOMAIN run = DOMAIN q
               /\ \A k \in DOMAIN q :
                    run[k] = [offset   |-> base + off + Bytes(SubSeq(q, 1, k - 1)),
                              dts      |-> dts + Ticks(SubSeq(q, 1, k - 1)),
                              duration |-> q[k].duration, size |-> q[k].size,
                              key      |-> q[k].key, cts |-> q[k].cts]
               /\ Ticks(run) = Ticks(q)
  <1> DEFINE run == ReadRun(BuildTfhd(t, q), BuildTrun(q, off), Trex, base, dts)
  <1>1. \A x \in Sample : IsSample(x)
    BY DEF Sample, IsSample
  <1>2. /\ DOMAIN run = DOMAIN q
        /\ \A k \in DOMAIN q :
             run[k] = [offset   |-> base + off + Bytes(SubSeq(q, 1, k - 1)),
                       dts      |-> dts + Ticks(SubSeq(q, 1, k - 1)),
                       duration |-> q[k].duration, size |-> q[k].size,
                       key      |-> q[k].key, cts |-> q[k].cts]
    BY <1>1, RunReadsBack
  <1> HIDE DEF run
  <1>3. \A k \in DOMAIN q : run[k]["duration"] = q[k]["duration"]
    BY <1>2
  <1>4. Fields(run, "duration") = Fields(q, "duration")
    BY <1>2, <1>3 DEF Fields
  <1>5. Ticks(run) = Ticks(q)
    BY <1>4, SumsOfFields
  <1> QED
    BY <1>2, <1>5 DEF run

LEMMA TrafEnds ==
    ASSUME NEW b, NEW t, b.pending[t] \in Seq(Sample), NEW at, NEW off
    PROVE  TrafEnd(BuildTraf(b, t, at, off)) = nextBmdt[t] + Ticks(b.pending[t])
  <1> DEFINE traf == BuildTraf(b, t, at, off)
             q == b.pending[t]
  <1>1. /\ traf.bmdt = nextBmdt[t] /\ traf.tfhd = BuildTfhd(t, q)
        /\ ~traf.tfhd.empty /\ ValueOf(traf.trun, {}) = BuildTrun(q, off)
    BY TrafIs
  <1> HIDE DEF traf, q
  <1>2. Ticks(ReadRun(BuildTfhd(t, q), BuildTrun(q, off), Trex, 0, 0)) = Ticks(q)
    BY RunTicks DEF q
  <1>3. TrafEnd(traf) = traf.bmdt + Ticks(ReadRun(traf.tfhd, ValueOf(traf.trun, {}), Trex, 0, 0))
    BY <1>1 DEF TrafEnd
  <1> QED
    BY <1>1, <1>2, <1>3 DEF traf, q

(* The trafs of a track in the segment of a batch.                         *)
LEMMA MineOfBatch ==
    ASSUME NEW b, BatchTyped(b.pending, b.senc, b.seig), NEW t \in Track
    PROVE  LET mine == Mine(BuildMoof(b).trafs, t)
           IN  /\ b.pending[t] = <<>> => mine = <<>>
               /\ b.pending[t] # <<>> =>
                    \E n \in 1..Len(Contributing(b)) :
                        /\ Contributing(b)[n] = t
                        /\ mine = <<BuildMoof(b).trafs[n]>>
  <1> DEFINE s == BuildMoof(b).trafs
             r == Contributing(b)
             K == {n \in DOMAIN s : s[n].tfhd.track = t}
  <1>1. (\E S : s \in Seq(S)) /\ Len(s) = Len(r)
        /\ \A n \in 1..Len(r) : \E at, off : s[n] = BuildTraf(b, r[n], at, off)
    BY BatchTrafs
  <1>2. PICK S : s \in Seq(S)
    BY <1>1
  <1>3. \A n \in 1..Len(s) : s[n].tfhd.track = r[n]
    <2> SUFFICES ASSUME NEW n \in 1..Len(s) PROVE s[n].tfhd.track = r[n]
      OBVIOUS
    <2>1. PICK at, off : s[n] = BuildTraf(b, r[n], at, off)
      <3>1. n \in 1..Len(r)
        BY <1>1, Zenon
      <3> QED
        BY <1>1, <3>1, Zenon
    <2>2. BuildTraf(b, r[n], at, off).tfhd.track = r[n]
      BY TrafIs
    <2> QED
      BY <2>1, <2>2, Zenon
  <1>4. /\ r \in Seq(Track)
        /\ \A n \in 1..Len(r) : b.pending[r[n]] # <<>>
        /\ \A j, n \in 1..Len(r) : j < n => r[j] < r[n]
        /\ (b.pending[t] # <<>> => \E n \in 1..Len(r) : r[n] = t)
    BY ContributingIs
  <1>5. Mine(s, t) = Selected(s, K)
    BY DEF Mine
  <1> HIDE DEF s, r
  <1>6. \A n \in 1..Len(s) : n \in K <=> r[n] = t
    BY <1>2, <1>3
  <1> HIDE DEF K
  <1>7. CASE b.pending[t] = <<>>
    <2>1. \A n \in 1..Len(s) : n \notin K
      BY <1>1, <1>4, <1>6, <1>7
    <2>2. Selected(s, K) = <<>>
      BY <1>2, <2>1, SelectedNone
    <2> QED
      BY <1>5, <1>7, <2>2 DEF s
  <1>8. CASE b.pending[t] # <<>>
    <2>1. PICK n \in 1..Len(r) : r[n] = t
      BY <1>4, <1>8
    <2>2. \A j \in 1..Len(r) : r[j] = t => j = n
      <3> SUFFICES ASSUME NEW j \in 1..Len(r), r[j] = t, j # n PROVE FALSE
        OBVIOUS
      <3>1. r[j] < r[n] \/ r[n] < r[j]
        <4>1. j < n \/ n < j
          OBVIOUS
        <4> QED
          BY <1>4, <4>1
      <3>2. t \in Nat
        BY NumTracksAssumption DEF Track
      <3> QED
        BY <2>1, <3>1, <3>2
    <2>3. \A j \in 1..Len(s) : j \in K <=> j = n
      BY <1>1, <1>6, <2>1, <2>2
    <2>4. n \in 1..Len(s)
      BY <1>1
    <2>5. Selected(s, K) = <<s[n]>>
      BY <1>2, <2>3, <2>4, SelectedOne
    <2>6. \E i \in 1..Len(r) : r[i] = t /\ Mine(s, t) = <<s[i]>>
      BY <1>5, <2>1, <2>5
    <2> QED
      BY <1>8, <2>6 DEF s, r
  <1> QED
    BY <1>7, <1>8

(***************************************************************************)
(* The decode timeline of a track: each traf starts where the one before   *)
(* it ended, and `end` is where the last one ends.                         *)
(***************************************************************************)
Timeline(s, end) ==
    /\ \A k \in 1..Len(s) : s[k].bmdt = IF k = 1 THEN 0 ELSE TrafEnd(s[k - 1])
    /\ end = IF s = <<>> THEN 0 ELSE TrafEnd(s[Len(s)])

LEMMA TimelineGrows ==
    ASSUME NEW S, NEW s \in Seq(S), NEW x, NEW end, Timeline(s, end), x.bmdt = end
    PROVE  Timeline(s \o <<x>>, TrafEnd(x))
  <1> DEFINE T == S \cup {x}
             r == s \o <<x>>
  <1>1. s \in Seq(T) /\ <<x>> \in Seq(T) /\ Len(<<x>>) = 1 /\ <<x>>[1] = x
    OBVIOUS
  <1>2. /\ r \in Seq(T) /\ Len(r) = Len(s) + 1
        /\ \A k \in 1..Len(s) : r[k] = s[k]
        /\ r[Len(s) + 1] = x
    BY <1>1
  <1> HIDE DEF T, r
  <1>3. ASSUME NEW k \in 1..Len(r)
        PROVE  r[k].bmdt = IF k = 1 THEN 0 ELSE TrafEnd(r[k - 1])
    <2>1. CASE k <= Len(s)
      <3>1. k \in 1..Len(s) /\ r[k] = s[k] /\ (k # 1 => r[k - 1] = s[k - 1])
        BY <1>1, <1>2, <2>1
      <3> QED
        BY <3>1 DEF Timeline
    <2>2. CASE k > Len(s)
      <3>1. k = Len(s) + 1 /\ r[k] = x
        BY <1>1, <1>2, <2>2
      <3>2. CASE s = <<>>
        <4>1. k = 1 /\ end = 0
          BY <3>1, <3>2 DEF Timeline
        <4> QED
          BY <3>1, <4>1
      <3>3. CASE s # <<>>
        <4>1. k # 1 /\ r[k - 1] = s[Len(s)]
          BY <1>1, <1>2, <3>1, <3>3
        <4>2. end = TrafEnd(s[Len(s)])
          BY <3>3 DEF Timeline
        <4> QED
          BY <3>1, <4>1, <4>2
      <3> QED
        BY <3>2, <3>3
    <2> QED
      BY <2>1, <2>2
  <1>4. r # <<>> /\ r[Len(r)] = x
    BY <1>1, <1>2
  <1>5. Timeline(r, TrafEnd(x))
    BY <1>3, <1>4 DEF Timeline
  <1> QED
    BY <1>5 DEF r

LEMMA HasTrafsWidens ==
    ASSUME NEW S, NEW T, NEW f, HasTrafs(S, f), S \subseteq T
    PROVE  HasTrafs(T, f)
  BY DEF HasTrafs

(* The trafs of a segment are those of its moof.                           *)
LEMMA SegmentTrafs ==
    ASSUME FileInv, NEW b, BatchInv(b), NEW S, BuildMoof(b).trafs \in Seq(S), NEW t
    PROVE  /\ HasTrafs(S, Segment(b))
           /\ TrafsOf(Segment(b), t) = Mine(BuildMoof(b).trafs, t)
  <1>1. BatchTyped(b.pending, b.senc, b.seig)
    BY DEF BatchInv
  <1>2. QueueTypes /\ RequestsInv
    BY DEF FileInv, QueueInv
  <1>3. Only(PreludeKinds, Prelude(b))
    BY <1>2, PreludeIs
  <1>4. /\ BuildMoof(b).size \in Nat \ {0} /\ BuildMoof(b).kind = "moof"
        /\ BuildMdat(b).size \in Nat \ {0} /\ BuildMdat(b).kind = "mdat"
    BY <1>1, <1>2, BoxesSized
  <1> DEFINE head == Prelude(b)
             moof == BuildMoof(b)
             mdat == BuildMdat(b)
  <1>5. Segment(b) = head \o <<moof, mdat>>
    BY <1>1, <1>2, SegmentIs DEF Pair
  <1> HIDE DEF head, moof, mdat
  <1>6. Only({"moof"}, <<moof>>) /\ Only({"mdat"}, <<mdat>>)
    BY <1>4, OnlyOne DEF moof, mdat
  <1>7. HasTrafs(S, <<moof>>) /\ TrafsOf(<<moof>>, t) = Mine(moof.trafs, t)
    BY <1>6, MoofTrafs DEF moof
  <1>8. HasTrafs(S, <<mdat>>) /\ TrafsOf(<<mdat>>, t) = <<>>
    <2>1. IsFile(<<mdat>>) /\ \A m \in 1..Len(<<mdat>>) : <<mdat>>[m].kind # "moof"
      BY <1>6 DEF Only
    <2> QED
      BY <2>1, QuietTrafs
  <1>9. HasTrafs(S, head) /\ TrafsOf(head, t) = <<>>
    <2>1. IsFile(head) /\ \A m \in 1..Len(head) : head[m].kind # "moof"
      BY <1>3 DEF Only, PreludeKinds, head
    <2> QED
      BY <2>1, QuietTrafs
  <1>10. <<moof, mdat>> = <<moof>> \o <<mdat>>
    BY PairIs
  <1>11. TrafsOf(<<moof>>, t) \in Seq(S)
    BY <1>7, TrafsInTyped
  <1>12. HasTrafs(S, <<moof, mdat>>) /\ TrafsOf(<<moof, mdat>>, t) = Mine(moof.trafs, t)
    <2> DEFINE aa == <<moof>>
               bb == <<mdat>>
    <2>0. HasTrafs(S, aa) /\ HasTrafs(S, bb)
      BY <1>7, <1>8
    <2> HIDE DEF aa, bb
    <2>1. /\ HasTrafs(S, aa \o bb)
          /\ Joined(TrafsOf(aa \o bb, t), TrafsOf(aa, t), TrafsOf(bb, t))
      BY <2>0, TrafsConcat
    <2>2. TrafsOf(<<moof>>, t) \o <<>> = TrafsOf(<<moof>>, t)
      BY <1>11, ConcatEmptySeq
    <2> QED
      BY <1>7, <1>8, <1>10, <2>1, <2>2 DEF aa, bb, Joined
  <1>13. /\ HasTrafs(S, head \o <<moof, mdat>>)
         /\ TrafsOf(head \o <<moof, mdat>>, t) = <<>> \o TrafsOf(<<moof, mdat>>, t)
    <2> DEFINE bb == <<moof, mdat>>
               aa == head
    <2>1. HasTrafs(S, bb) /\ HasTrafs(S, aa)
      BY <1>9, <1>12
    <2> HIDE DEF aa, bb
    <2>2. /\ HasTrafs(S, aa \o bb)
          /\ Joined(TrafsOf(aa \o bb, t), TrafsOf(aa, t), TrafsOf(bb, t))
      BY <2>1, TrafsConcat
    <2> QED
      BY <1>9, <2>2 DEF aa, bb, Joined
  <1>14. <<>> \o TrafsOf(<<moof, mdat>>, t) = TrafsOf(<<moof, mdat>>, t)
    BY <1>7, <1>11, <1>12, ConcatEmptySeq
  <1> QED
    BY <1>5, <1>12, <1>13, <1>14 DEF moof

(* A batch carries the timeline on to where BmdtAfter says.                *)
LEMMA SegmentTimeline ==
    ASSUME FileInv, NEW b, BatchInv(b), NEW t \in Track, NEW S, NEW s \in Seq(S),
           Timeline(s, nextBmdt[t])
    PROVE  Timeline(s \o Mine(BuildMoof(b).trafs, t), BmdtAfter(b)[t])
  <1>1. BatchTyped(b.pending, b.senc, b.seig)
    BY DEF BatchInv
  <1>2. b.pending[t] \in Seq(Sample) /\ nextBmdt[t] \in Nat
    BY <1>1 DEF BatchTyped, FileInv
  <1>3. BmdtAfter(b)[t] = nextBmdt[t] + Ticks(b.pending[t])
    BY DEF BmdtAfter
  <1>4. CASE b.pending[t] = <<>>
    <2>1. Mine(BuildMoof(b).trafs, t) = <<>>
      BY <1>1, <1>4, MineOfBatch
    <2>2. Ticks(<<>>) = 0
      BY DEF Ticks, SumOf, Total
    <2>3. BmdtAfter(b)[t] = nextBmdt[t]
      BY <1>2, <1>3, <1>4, <2>2
    <2>4. s \o <<>> = s
      BY ConcatEmptySeq
    <2> QED
      BY <2>1, <2>3, <2>4
  <1>5. CASE b.pending[t] # <<>>
    <2>1. PICK n \in 1..Len(Contributing(b)) :
             /\ Contributing(b)[n] = t
             /\ Mine(BuildMoof(b).trafs, t) = <<BuildMoof(b).trafs[n]>>
      BY <1>1, <1>5, MineOfBatch
    <2> DEFINE x == BuildMoof(b).trafs[n]
    <2>2. PICK at : x = BuildTraf(b, t, at, BuildMoof(b).size + 8 + DataBefore(b, n))
      BY <1>1, <2>1, BatchTrafs
    <2> HIDE DEF x
    <2>3. x.bmdt = nextBmdt[t]
      BY <2>2, TrafIs
    <2>4. TrafEnd(x) = nextBmdt[t] + Ticks(b.pending[t])
      BY <1>2, <2>2, TrafEnds
    <2>5. Timeline(s \o <<x>>, TrafEnd(x))
      BY <2>3, TimelineGrows
    <2> QED
      BY <1>3, <2>1, <2>4, <2>5 DEF x
  <1> QED
    BY <1>4, <1>5

(* The one traf of a gap fragment.                                         *)
LEMMA GapTraf ==
    ASSUME NEW seq, NEW t, NEW start, NEW d
    PROVE  LET box == GapMoof(seq, t, start, d)
           IN  /\ 1 \in 1..Len(box.trafs) /\ \A n \in 1..Len(box.trafs) : n = 1
               /\ box.trafs[1].tfhd = GapTfhd(t, d)
               /\ box.trafs[1].bmdt = start /\ box.trafs[1].trun = {}
               /\ \E S : box.trafs \in Seq(S)
  <1> DEFINE traf == [at |-> 24, tfhd |-> GapTfhd(t, d), bmdt |-> start,
                      cenc |-> {}, groups |-> {}, trun |-> {}]
             trafs == <<traf>>
             box == GapMoof(seq, t, start, d)
  <1>1. box.trafs = trafs
    BY DEF GapMoof, MoofBox
  <1>2. /\ trafs \in Seq({traf}) /\ 1 \in 1..Len(trafs) /\ trafs[1] = traf
        /\ \A n \in 1..Len(trafs) : n = 1
    OBVIOUS
  <1>3. traf.tfhd = GapTfhd(t, d) /\ traf.bmdt = start /\ traf.trun = {}
    OBVIOUS
  <1> HIDE DEF traf, trafs, box
  <1> QED
    BY <1>1, <1>2, <1>3 DEF box

(* What follows a segment carries it on too: the mfra says nothing, a gap  *)
(* fragment lasts as long as it was asked to.                              *)
LEMMA ExtraTimeline ==
    ASSUME FileInv, NEW b, BatchInv(b), NEW extra, NEW bmdt, Ends(b, extra, bmdt)
    PROVE  \E T : /\ HasTrafs(T, extra)
                  /\ \A t \in Track :
                       \A S : \A s \in Seq(S) :
                          Timeline(s, BmdtAfter(b)[t])
                            => Timeline(s \o TrafsOf(extra, t), bmdt[t])
  <1>1. BatchTyped(b.pending, b.senc, b.seig)
    BY DEF BatchInv
  <1>2. CASE bmdt = BmdtAfter(b) /\ extra \in {<<>>, Index(TfraAfter(b))}
    <2>1. Only({"mfra", "moof"}, extra)
      BY EndsTyped
    <2>2. \A m \in 1..Len(extra) : extra[m].kind # "moof"
      <3>1. CASE extra = <<>>
        BY <3>1
      <3>2. CASE extra = Index(TfraAfter(b))
        <4>1. TfraAfter(b) \in [Track -> Seq(Entry)]
          BY TfraTyped
        <4>2. Only({"mfra"}, extra)
          BY <3>2, <4>1, IndexIs
        <4> QED
          BY <4>2 DEF Only
      <3> QED
        BY <1>2, <3>1, <3>2
    <2>3. \A t : HasTrafs({}, extra) /\ TrafsOf(extra, t) = <<>>
      BY <2>1, <2>2, QuietTrafs DEF Only
    <2>4. \A t \in Track : \A S : \A s \in Seq(S) : s \o TrafsOf(extra, t) = s
      BY <2>3, ConcatEmptySeq
    <2> QED
      BY <1>2, <2>3, <2>4
  <1>3. ASSUME NEW u \in Track, NEW d \in GapDurations, NEW seq, d > 0,
               extra = <<GapMoof(seq, u, BmdtAfter(b)[u], d)>>,
               bmdt = [BmdtAfter(b) EXCEPT ![u] = @ + d]
        PROVE  \E T : /\ HasTrafs(T, extra)
                  /\ \A t \in Track :
                       \A S : \A s \in Seq(S) :
                          Timeline(s, BmdtAfter(b)[t])
                            => Timeline(s \o TrafsOf(extra, t), bmdt[t])
    <2> DEFINE start == BmdtAfter(b)[u]
               box == GapMoof(seq, u, start, d)
               x == box.trafs[1]
    <2> HIDE DEF start
    <2>1. /\ Only({"moof"}, <<box>>)
          /\ 1 \in 1..Len(box.trafs) /\ \A n \in 1..Len(box.trafs) : n = 1
          /\ x.tfhd = GapTfhd(u, d) /\ x.bmdt = start
          /\ \E S : box.trafs \in Seq(S)
      <3>1. Only({"moof"}, <<box>>)
        BY GapIs
      <3>2. /\ 1 \in 1..Len(box.trafs) /\ \A n \in 1..Len(box.trafs) : n = 1
            /\ \E S : box.trafs \in Seq(S)
        BY GapTraf
      <3>3. x.tfhd = GapTfhd(u, d) /\ x.bmdt = start
        BY GapTraf
      <3> QED
        BY <3>1, <3>2, <3>3
    <2>1a. PICK S : box.trafs \in Seq(S)
      BY <2>1
    <2>2. BmdtAfter(b) \in [Track -> Nat] /\ d \in Int
      BY <1>1, BmdtTyped, GapsAssumption DEF FileInv
    <2> HIDE DEF box
    <2>3. \A t : HasTrafs(S, <<box>>) /\ TrafsOf(<<box>>, t) = Mine(box.trafs, t)
      BY <2>1, <2>1a, MoofTrafs
    <2>4. /\ x.tfhd = GapTfhd(u, d) /\ x.bmdt = BmdtAfter(b)[u]
      BY <2>1 DEF start
    <2>5. GapTfhd(u, d).track = u /\ GapTfhd(u, d).empty /\ GapTfhd(u, d).duration = {d}
      BY DEF GapTfhd
    <2>6. TrafEnd(x) = BmdtAfter(b)[u] + d
      BY <2>4, <2>5, ValueOfSome, ZenonT(60), SMTT(30) DEF TrafEnd
    <2>7. ASSUME NEW t \in Track, NEW Q, NEW s \in Seq(Q), Timeline(s, BmdtAfter(b)[t])
          PROVE  Timeline(s \o TrafsOf(<<box>>, t), bmdt[t])
      <3> DEFINE K == {n \in DOMAIN box.trafs : box.trafs[n].tfhd.track = t}
      <3>1. Mine(box.trafs, t) = Selected(box.trafs, K)
        BY DEF Mine
      <3>2. CASE t = u
        <4>1. \A n \in 1..Len(box.trafs) : n \in K <=> n = 1
          BY <2>1, <2>4, <2>5, <3>2
        <4> HIDE DEF K
        <4> DEFINE s1 == box.trafs
        <4>2a. s1 \in Seq(S) /\ 1 \in 1..Len(s1) /\ \A n \in 1..Len(s1) : n \in K <=> n = 1
          BY <2>1, <2>1a, <4>1
        <4> HIDE DEF s1
        <4>2b. Selected(s1, K) = <<s1[1]>>
          BY <4>2a, SelectedOne
        <4>2. Selected(box.trafs, K) = <<x>>
          BY <4>2b DEF s1
        <4>3. bmdt[t] = TrafEnd(x) /\ x.bmdt = BmdtAfter(b)[t]
          BY <1>3, <2>2, <2>4, <2>6, <3>2
        <4>4. Timeline(s \o <<x>>, TrafEnd(x))
          BY <2>7, <4>3, TimelineGrows
        <4> QED
          BY <2>3, <3>1, <4>2, <4>3, <4>4
      <3>3. CASE t # u
        <4>1. \A n \in 1..Len(box.trafs) : n \notin K
          BY <2>1, <2>4, <2>5, <3>3
        <4> HIDE DEF K
        <4>2. Selected(box.trafs, K) = <<>>
          BY <2>1a, <4>1, SelectedNone
        <4>3. bmdt[t] = BmdtAfter(b)[t]
          BY <1>3, <2>2, <3>3
        <4>4. s \o <<>> = s
          BY ConcatEmptySeq
        <4> QED
          BY <2>3, <2>7, <3>1, <4>2, <4>3, <4>4
      <3> QED
        BY <3>2, <3>3
    <2> QED
      BY <1>3, <2>3, <2>7 DEF box, start
  <1>4. \/ bmdt = BmdtAfter(b) /\ extra \in {<<>>, Index(TfraAfter(b))}
        \/ \E u \in Track, d \in GapDurations : \E seq :
              /\ d > 0 /\ extra = <<GapMoof(seq, u, BmdtAfter(b)[u], d)>>
              /\ bmdt = [BmdtAfter(b) EXCEPT ![u] = @ + d]
    BY DEF Ends
  <1> QED
    BY <1>2, <1>3, <1>4

(***************************************************************************)
(* Each track's timeline, while no write fails: a failing write may leave  *)
(* a moof behind whose decode times are used again.                        *)
(***************************************************************************)
TimelineInv ==
    ~opts.io => /\ \E S : HasTrafs(S, file)
                /\ \A t \in Track : Timeline(TrafsOf(file, t), nextBmdt[t])

(* Boxes that carry the timelines on keep it.                              *)
LEMMA TimelineKept ==
    ASSUME TimelineInv, UNCHANGED opts, NEW g, Alike(file \o g, file'),
           NEW T, HasTrafs(T, g),
           \A t \in Track : \A S : \A s \in Seq(S) :
              Timeline(s, nextBmdt[t]) => Timeline(s \o TrafsOf(g, t), nextBmdt'[t])
    PROVE  TimelineInv'
  <1> SUFFICES ASSUME ~opts.io
               PROVE  /\ \E S : HasTrafs(S, file')
                      /\ \A t \in Track : Timeline(TrafsOf(file', t), nextBmdt'[t])
    BY DEF TimelineInv, TrafsOf, HasTrafs
  <1>1. PICK S : HasTrafs(S, file)
    BY DEF TimelineInv
  <1> DEFINE Q == S \cup T
             f == file
             h == file'
  <1>2. HasTrafs(Q, f) /\ HasTrafs(Q, g)
    BY <1>1, HasTrafsWidens
  <1>3. Alike(f \o g, h) /\ \A t \in Track : Timeline(TrafsOf(f, t), nextBmdt[t])
    BY DEF TimelineInv
  <1> HIDE DEF Q, f, h
  <1>4. HasTrafs(Q, f \o g)
    BY <1>2, TrafsConcat
  <1>5. ASSUME NEW t \in Track PROVE Timeline(TrafsOf(h, t), nextBmdt'[t])
    <2>1. TrafsOf(f, t) \in Seq(Q)
      BY <1>2, TrafsInTyped
    <2>2. Timeline(TrafsOf(f, t) \o TrafsOf(g, t), nextBmdt'[t])
      BY <1>3, <2>1
    <2>3. Joined(TrafsOf(f \o g, t), TrafsOf(f, t), TrafsOf(g, t))
      BY <1>2, TrafsConcat
    <2>4. TrafsOf(h, t) = TrafsOf(f \o g, t)
      BY <1>3, <1>4, AlikeTrafs
    <2> QED
      BY <2>2, <2>3, <2>4 DEF Joined
  <1>6. HasTrafs(Q, h)
    BY <1>3, <1>4, AlikeTrafs
  <1> QED
    BY <1>5, <1>6 DEF h

LEMMA QuietTimeline ==
    ASSUME TimelineInv, UNCHANGED <<opts, nextBmdt>>, IsFile(file),
           NEW g, IsFile(g), \A m \in 1..Len(g) : g[m].kind # "moof",
           Alike(file \o g, file')
    PROVE  TimelineInv'
  <1>1. \A t : HasTrafs({}, g) /\ TrafsOf(g, t) = <<>>
    <2>1. ASSUME NEW t PROVE HasTrafs({}, g) /\ TrafsOf(g, t) = <<>>
      BY QuietTrafs
    <2> QED
      BY <2>1
  <1>2. \A t \in Track : \A S : \A s \in Seq(S) : s \o TrafsOf(g, t) = s
    BY <1>1, ConcatEmptySeq
  <1> QED
    BY <1>1, <1>2, TimelineKept

(* A completed flush appends its chunk; the trailer may patch the moov.    *)
LEMMA CompletedFile ==
    ASSUME FileInv, headerWritten, NEW b, BatchInv(b), NEW extra, Completes(b, extra)
    PROVE  IsFile(Chunk(b, extra)) /\ Alike(file \o Chunk(b, extra), file')
  <1> DEFINE g == Chunk(b, extra)
             h == file \o g
  <1>1. IsFile(file) /\ Headed(file)
    BY DEF FileInv, HeaderInv
  <1>2. Ends(b, extra, nextBmdt')
    BY DEF Completes
  <1>3. IsFile(extra)
    BY <1>2, EndsTyped DEF Only
  <1>4. FileAfter(b) \o extra = h /\ IsFile(g)
    BY <1>3, ChunkIs
  <1>5. file' = h \/ file' = Seal(h, nextBmdt')
    BY <1>4 DEF Completes
  <1> HIDE DEF g
  <1>6. Headed(h) /\ IsFile(h)
    BY <1>1, <1>4, FileConcat, HeadedConcat
  <1> HIDE DEF h
  <1>7. Alike(h, file')
    BY <1>5, <1>6, AlikeSelf, SealIs
  <1> QED
    BY <1>4, <1>7 DEF g, h

LEMMA ChunkTimeline ==
    ASSUME FileInv, NEW b, BatchInv(b), NEW extra, NEW bmdt, Ends(b, extra, bmdt)
    PROVE  \E T : /\ HasTrafs(T, Chunk(b, extra))
                  /\ \A t \in Track : \A S : \A s \in Seq(S) :
                       Timeline(s, nextBmdt[t])
                         => Timeline(s \o TrafsOf(Chunk(b, extra), t), bmdt[t])
  <1>1. PICK T : /\ HasTrafs(T, extra)
                 /\ \A t \in Track : \A S : \A s \in Seq(S) :
                       Timeline(s, BmdtAfter(b)[t])
                         => Timeline(s \o TrafsOf(extra, t), bmdt[t])
    BY ExtraTimeline
  <1>2. BatchTyped(b.pending, b.senc, b.seig)
    BY DEF BatchInv
  <1>3. CASE Idle(b)
    <2>1. Chunk(b, extra) = extra
      BY <1>3 DEF Chunk
    <2>2. ASSUME NEW t \in Track PROVE BmdtAfter(b)[t] = nextBmdt[t]
      <3>1. Ticks(<<>>) = 0
        BY DEF Ticks, SumOf, Total
      <3>2. nextBmdt[t] \in Nat /\ b.pending[t] = <<>>
        BY <1>3 DEF FileInv, Idle
      <3> QED
        BY <3>1, <3>2 DEF BmdtAfter
    <2> QED
      BY <1>1, <2>1, <2>2
  <1>4. CASE ~Idle(b)
    <2> DEFINE g == Segment(b)
    <2>1. Chunk(b, extra) = g \o extra
      BY <1>4 DEF Chunk
    <2>2. PICK U : BuildMoof(b).trafs \in Seq(U)
      BY <1>2, BatchTrafs
    <2> DEFINE Q == U \cup T
    <2>3. BuildMoof(b).trafs \in Seq(Q)
      BY <2>2
    <2>4. HasTrafs(Q, extra)
      BY <1>1, HasTrafsWidens
    <2> HIDE DEF Q
    <2>5. HasTrafs(Q, g) /\ \A t : TrafsOf(g, t) = Mine(BuildMoof(b).trafs, t)
      BY <2>3, SegmentTrafs
    <2> HIDE DEF g
    <2>6. /\ HasTrafs(Q, g \o extra)
          /\ \A t : Joined(TrafsOf(g \o extra, t), TrafsOf(g, t), TrafsOf(extra, t))
      BY <2>4, <2>5, TrafsConcat
    <2>7. ASSUME NEW t \in Track, NEW S, NEW s \in Seq(S), Timeline(s, nextBmdt[t])
          PROVE  Timeline(s \o TrafsOf(g \o extra, t), bmdt[t])
      <3> DEFINE R == S \cup Q
                 p == TrafsOf(g, t)
                 q == TrafsOf(extra, t)
      <3>1. p \in Seq(Q) /\ q \in Seq(Q)
        BY <2>4, <2>5, TrafsInTyped
      <3>2. Timeline(s \o p, BmdtAfter(b)[t])
        BY <2>5, <2>7, SegmentTimeline
      <3> HIDE DEF p, q
      <3>3. s \in Seq(R) /\ p \in Seq(R) /\ q \in Seq(R)
        BY <3>1
      <3> HIDE DEF R
      <3>4. s \o p \in Seq(R) /\ (s \o p) \o q = s \o (p \o q)
        BY <3>3, ConcatProperties, ConcatAssociative
      <3>5. Timeline((s \o p) \o q, bmdt[t])
        BY <1>1, <3>2, <3>4 DEF q
      <3> QED
        BY <2>6, <3>4, <3>5 DEF p, q, Joined
    <2> QED
      BY <2>1, <2>6, <2>7
  <1> QED
    BY <1>3, <1>4

LEMMA OptsFixed ==
    ASSUME [Next]_vars
    PROVE  UNCHANGED opts
  BY DEF Next, vars, WriteHeader, HeaderFails, QueuePacket, FlushFragment,
         SetStyp, SetPrft, SetPssh, SetEmsg, Ask, InsertEmptyTime, WriteTrailer

LEMMA TimelineNext ==
    ASSUME FileInv, TimelineInv, UNCHANGED opts, FileStep
    PROVE  TimelineInv'
  <1>0. IsFile(file)
    BY DEF FileInv
  <1>1. CASE UNCHANGED output
    BY <1>1 DEF output, TimelineInv, TrafsOf, HasTrafs
  <1>2. CASE Opens
    <2>1. PICK g : Only({"ftyp", "moov"}, g) /\ file' = file \o g
      BY <1>2, HeaderFile DEF Opens
    <2>2. nextBmdt' = nextBmdt
      BY <1>2 DEF Opens
    <2>3. IsFile(g) /\ \A m \in 1..Len(g) : g[m].kind # "moof"
      BY <2>1 DEF Only
    <2>4. IsFile(file \o g)
      BY <1>0, <2>3, FileConcat
    <2>5. Alike(file \o g, file')
      BY <2>1, <2>4, AlikeSelf
    <2> QED
      BY <1>0, <2>2, <2>3, <2>5, QuietTimeline
  <1>3. ASSUME NEW b, BatchInv(b), FlushBreaks(b)
        PROVE  TimelineInv'
    <2> SUFFICES ASSUME ~opts.io PROVE TimelineInv'
      BY DEF TimelineInv
    <2>1. PICK g : /\ file' = file \o g
                   /\ Only(PreludeKinds, g)
                   /\ nextBmdt' = nextBmdt
      BY <1>3, BrokenIs
    <2>3. IsFile(g) /\ \A m \in 1..Len(g) : g[m].kind # "moof"
      BY <2>1 DEF Only, PreludeKinds
    <2>4. IsFile(file \o g)
      BY <1>0, <2>3, FileConcat
    <2>5. Alike(file \o g, file')
      BY <2>1, <2>4, AlikeSelf
    <2> QED
      BY <1>0, <2>1, <2>3, <2>5, QuietTimeline
  <1>4. ASSUME headerWritten, NEW b, BatchInv(b), NEW extra, Completes(b, extra)
        PROVE  TimelineInv'
    <2> DEFINE g == Chunk(b, extra)
               bmdt == nextBmdt'
    <2>1. Ends(b, extra, bmdt)
      BY <1>4 DEF Completes
    <2>2. IsFile(g) /\ Alike(file \o g, file')
      BY <1>4, CompletedFile
    <2> HIDE DEF bmdt
    <2>3. \E T : HasTrafs(T, g) /\
            \A t \in Track : \A S : \A s \in Seq(S) :
              Timeline(s, nextBmdt[t]) => Timeline(s \o TrafsOf(g, t), bmdt[t])
      BY <1>4, <2>1, ChunkTimeline
    <2> HIDE DEF g
    <2> QED
      BY <2>2, <2>3, TimelineKept DEF bmdt
  <1> QED
    BY <1>1, <1>2, <1>3, <1>4 DEF FileStep

THEOREM TimelinesContiguous == Spec => [](~opts.io => Contiguous)
  <1>1. Init => TimelineInv
    <2> SUFFICES ASSUME Init PROVE TimelineInv
      OBVIOUS
    <2>1. IsFile(file) /\ file = <<>> /\ nextBmdt = [t \in Track |-> 0]
      BY DEF Init, IsFile
    <2>2. \A t : HasTrafs({}, file) /\ TrafsOf(file, t) = <<>>
      <3> DEFINE f == file
      <3>1. IsFile(f) /\ \A m \in 1..Len(f) : f[m].kind # "moof"
        BY <2>1
      <3> HIDE DEF f
      <3>2. ASSUME NEW t PROVE HasTrafs({}, f) /\ TrafsOf(f, t) = <<>>
        BY <3>1, QuietTrafs
      <3> QED
        BY <3>2 DEF f
    <2> QED
      BY <2>1, <2>2 DEF TimelineInv, Timeline
  <1>2. FileInv /\ TimelineInv /\ [Next]_vars => TimelineInv'
    <2> SUFFICES ASSUME FileInv, TimelineInv, [Next]_vars PROVE TimelineInv'
      OBVIOUS
    <2>1. FileStep
      BY EveryStep DEF FileInv
    <2>2. UNCHANGED opts
      BY OptsFixed
    <2> QED
      BY <2>1, <2>2, TimelineNext
  <1>3. TimelineInv => (~opts.io => Contiguous)
    <2> SUFFICES ASSUME TimelineInv, ~opts.io, NEW t \in Track
                 PROVE  LET trafs == TrafsOf(file, t)
                        IN  /\ \A k \in DOMAIN trafs :
                                 trafs[k].bmdt = IF k = 1 THEN 0 ELSE TrafEnd(trafs[k - 1])
                            /\ nextBmdt[t] = TrackEnd(file, t)
      BY DEF Contiguous
    <2> DEFINE s == TrafsOf(file, t)
    <2>1. PICK S : HasTrafs(S, file)
      BY DEF TimelineInv
    <2>2. s \in Seq(S) /\ Timeline(s, nextBmdt[t])
      BY <2>1, TrafsInTyped DEF TimelineInv
    <2> HIDE DEF s
    <2>3. /\ \A k \in DOMAIN s : s[k].bmdt = IF k = 1 THEN 0 ELSE TrafEnd(s[k - 1])
          /\ nextBmdt[t] = IF s = <<>> THEN 0 ELSE TrafEnd(s[Len(s)])
      BY <2>2 DEF Timeline
    <2> QED
      BY <2>3 DEF TrackEnd, s
  <1> QED
    BY <1>1, <1>2, <1>3, FileInvAlways, PTL DEF Spec

(***************************************************************************)
(* The samples of a track among those of a file.                           *)
(***************************************************************************)

LEMMA OfTrackTyped ==
    ASSUME NEW S, NEW s \in Seq(S), NEW t
    PROVE  OfTrack(s, t) \in Seq(S)
  BY SelectedTyped DEF OfTrack

LEMMA OfTrackConcat ==
    ASSUME NEW S, NEW p \in Seq(S), NEW q \in Seq(S), NEW t
    PROVE  OfTrack(p \o q, t) = OfTrack(p, t) \o OfTrack(q, t)
  <1> DEFINE r == p \o q
             I == {k \in DOMAIN p : p[k].track = t}
             J == {k \in DOMAIN q : q[k].track = t}
             K == {k \in DOMAIN r : r[k].track = t}
  <1>1. /\ r \in Seq(S) /\ Len(r) = Len(p) + Len(q)
        /\ \A k \in 1..Len(p) : r[k] = p[k]
        /\ \A k \in 1..Len(q) : r[Len(p) + k] = q[k]
        /\ Len(p) \in Nat /\ Len(q) \in Nat
    BY ConcatProperties
  <1>2. \A k \in 1..Len(q) : k \in J <=> Len(p) + k \in K
    <2> SUFFICES ASSUME NEW k \in 1..Len(q) PROVE k \in J <=> Len(p) + k \in K
      OBVIOUS
    <2> HIDE DEF r
    <2>1. k \in DOMAIN q /\ Len(p) + k \in DOMAIN r /\ r[Len(p) + k] = q[k]
      BY <1>1
    <2> QED
      BY <2>1
  <1>3. \A k \in DOMAIN p : k \in I <=> k \in K
    <2> SUFFICES ASSUME NEW k \in DOMAIN p PROVE k \in I <=> k \in K
      OBVIOUS
    <2> HIDE DEF r
    <2>1. k \in 1..Len(p) /\ k \in DOMAIN r /\ r[k] = p[k]
      BY <1>1
    <2> QED
      BY <2>1
  <1>4. OfTrack(r, t) = Selected(r, K) /\ OfTrack(p, t) = Selected(p, I)
        /\ OfTrack(q, t) = Selected(q, J)
    BY DEF OfTrack
  <1> HIDE DEF I, J, K
  <1>5. Selected(r, K) = Selected(p, K) \o Selected(q, J)
    BY <1>2, SelectedConcat
  <1>6. Selected(p, I) = Selected(p, K)
    BY <1>3, SelectedSame
  <1> QED
    BY <1>4, <1>5, <1>6

LEMMA OfTrackWhole ==
    ASSUME NEW S, NEW s \in Seq(S), NEW t, NEW u, \A k \in 1..Len(s) : s[k].track = u
    PROVE  OfTrack(s, t) = IF u = t THEN s ELSE <<>>
  <1> DEFINE K == {k \in DOMAIN s : s[k].track = t}
  <1>1. CASE u = t
    <2>1. \A k \in 1..Len(s) : k \in K
      BY <1>1
    <2> HIDE DEF K
    <2>2. Selected(s, K) = s
      BY <2>1, SelectedAll
    <2> QED
      BY <1>1, <2>2 DEF OfTrack, K
  <1>2. CASE u # t
    <2>1. \A k \in 1..Len(s) : k \notin K
      BY <1>2
    <2> HIDE DEF K
    <2>2. Selected(s, K) = <<>>
      BY <2>1, SelectedNone
    <2> QED
      BY <1>2, <2>2 DEF OfTrack, K
  <1> QED
    BY <1>1, <1>2

LEMMA OfTrackFlatten ==
    ASSUME NEW S, NEW ss \in Seq(Seq(S)), NEW t
    PROVE  /\ [n \in DOMAIN ss |-> OfTrack(ss[n], t)] \in Seq(Seq(S))
           /\ OfTrack(FlattenSeq(ss), t) = FlattenSeq([n \in DOMAIN ss |-> OfTrack(ss[n], t)])
  <1> DEFINE Parted(aa) == [n \in DOMAIN aa |-> OfTrack(aa[n], t)]
             T == {aa \in Seq(Seq(S)) : OfTrack(FlattenSeq(aa), t) = FlattenSeq(Parted(aa))}
  <1>0. ASSUME NEW aa \in Seq(Seq(S))
        PROVE  Parted(aa) \in Seq(Seq(S)) /\ Len(Parted(aa)) = Len(aa)
    <2> DEFINE V == Seq(S)
    <2>1. \A n \in 1..Len(aa) : OfTrack(aa[n], t) \in V
      BY OfTrackTyped
    <2>2. DOMAIN aa = 1..Len(aa) /\ Len(aa) \in Nat
      OBVIOUS
    <2> HIDE DEF V
    <2>3. Parted(aa) \in Seq(V) /\ Len(Parted(aa)) = Len(aa)
      BY <2>1, <2>2
    <2> QED
      BY <2>3 DEF V
  <1>1. <<>> \in T
    <2>1. <<>> \in Seq(Seq(S)) /\ <<>> \in Seq(S)
      OBVIOUS
    <2>2. FlattenSeq(<<>>) = <<>>
      <3> DEFINE e == <<>>
      <3>1. e \in Seq(Seq(S)) /\ \A k \in 1..Len(e) : e[k] = <<>>
        OBVIOUS
      <3> HIDE DEF e
      <3>2. FlattenSeq(e) = <<>>
        BY <3>1, FlattenNone
      <3> QED
        BY <3>2 DEF e
    <2>3. OfTrack(<<>>, t) = <<>>
      <3> DEFINE e == <<>>
                 K == {k \in DOMAIN e : e[k].track = t}
      <3>1. e \in Seq(S) /\ \A k \in 1..Len(e) : k \notin K
        OBVIOUS
      <3>2. OfTrack(<<>>, t) = Selected(e, K)
        BY DEF OfTrack
      <3> HIDE DEF e, K
      <3>3. Selected(e, K) = <<>>
        BY <3>1, SelectedNone
      <3> QED
        BY <3>2, <3>3
    <2>4. Parted(<<>>) = <<>>
      OBVIOUS
    <2> QED
      BY <2>1, <2>2, <2>3, <2>4
  <1>2. ASSUME NEW aa \in Seq(Seq(S)), NEW x \in Seq(S), aa \in T
        PROVE  Append(aa, x) \in T
    <2> DEFINE bb == Append(aa, x)
    <2>1. bb \in Seq(Seq(S))
      OBVIOUS
    <2>2. FlattenSeq(bb) = FlattenSeq(aa) \o x
      BY FlattenAppend
    <2>3. FlattenSeq(aa) \in Seq(S)
      BY FlattenTyped
    <2>4. OfTrack(FlattenSeq(aa) \o x, t) = OfTrack(FlattenSeq(aa), t) \o OfTrack(x, t)
      BY <2>3, OfTrackConcat
    <2>5. Parted(bb) = Append(Parted(aa), OfTrack(x, t))
      <3> DEFINE V == Seq(S)
                 pa == Parted(aa)
                 pb == Parted(bb)
                 y == OfTrack(x, t)
      <3>1. pa \in Seq(V) /\ Len(pa) = Len(aa) /\ pb \in Seq(V) /\ Len(pb) = Len(bb)
        BY <1>0, <2>1
      <3>2. y \in V
        BY OfTrackTyped
      <3>3. Len(bb) = Len(aa) + 1 /\ Len(aa) \in Nat
        OBVIOUS
      <3>4. \A k \in 1..Len(aa) : pb[k] = pa[k]
        OBVIOUS
      <3>5. pb[Len(aa) + 1] = y
        OBVIOUS
      <3> HIDE DEF V, pa, pb, y, bb
      <3>6. Append(pa, y) \in Seq(V) /\ Len(Append(pa, y)) = Len(aa) + 1
            /\ \A k \in 1..Len(aa) : Append(pa, y)[k] = pa[k]
            /\ Append(pa, y)[Len(aa) + 1] = y
        BY <3>1, <3>2, <3>3
      <3>7. pb = Append(pa, y)
        BY <3>1, <3>3, <3>4, <3>5, <3>6, SeqEqual
      <3> QED
        BY <3>7 DEF pa, pb, y
    <2>6. Parted(aa) \in Seq(Seq(S)) /\ OfTrack(x, t) \in Seq(S)
      BY <1>0, OfTrackTyped
    <2>7. FlattenSeq(Append(Parted(aa), OfTrack(x, t)))
            = FlattenSeq(Parted(aa)) \o OfTrack(x, t)
      <3> DEFINE pa == Parted(aa)
                 y == OfTrack(x, t)
      <3>1. pa \in Seq(Seq(S)) /\ y \in Seq(S)
        BY <2>6
      <3> HIDE DEF pa, y
      <3>2. FlattenSeq(Append(pa, y)) = FlattenSeq(pa) \o y
        BY <3>1, FlattenAppend
      <3> QED
        BY <3>2 DEF pa, y
    <2>8. OfTrack(FlattenSeq(aa), t) = FlattenSeq(Parted(aa))
      BY <1>2
    <2> QED
      BY <2>1, <2>2, <2>4, <2>5, <2>7, <2>8
  <1> HIDE DEF T
  <1>3. Seq(Seq(S)) \subseteq T
    <2> DEFINE V == Seq(S)
    <2>1. <<>> \in T /\ \A s \in Seq(V), x \in V : s \in T => Append(s, x) \in T
      BY <1>1, <1>2
    <2> HIDE DEF V
    <2>2. Seq(V) \subseteq T
      BY <2>1, SeqInduction
    <2> QED
      BY <2>2 DEF V
  <1> QED
    BY <1>0, <1>3 DEF T

(***************************************************************************)
(* The samples of a file lie in the order the moofs list them, so sorting  *)
(* them by offset changes nothing.                                         *)
(***************************************************************************)
Rising(s, lo, hi) ==
    /\ \A k \in 1..Len(s) : s[k].offset \in Nat /\ lo <= s[k].offset /\ s[k].offset <= hi
    /\ \A j, k \in 1..Len(s) : j < k => s[j].offset <= s[k].offset

LEMMA RisingConcat ==
    ASSUME NEW S, NEW p \in Seq(S), NEW q \in Seq(S),
           NEW a \in Nat, NEW b \in Nat, NEW c \in Nat, a <= b, b <= c,
           Rising(p, a, b), Rising(q, b, c)
    PROVE  Rising(p \o q, a, c)
  <1> DEFINE r == p \o q
  <1>1. /\ r \in Seq(S) /\ Len(r) = Len(p) + Len(q)
        /\ \A k \in 1..Len(p) : r[k] = p[k]
        /\ \A k \in 1..Len(q) : r[Len(p) + k] = q[k]
        /\ Len(p) \in Nat /\ Len(q) \in Nat
    BY ConcatProperties
  <1> HIDE DEF r
  <1>2. \A k \in 1..Len(r) :
           \/ k \in 1..Len(p) /\ r[k] = p[k]
           \/ k - Len(p) \in 1..Len(q) /\ k > Len(p) /\ r[k] = q[k - Len(p)]
    <2> SUFFICES ASSUME NEW k \in 1..Len(r), k > Len(p)
                 PROVE  k - Len(p) \in 1..Len(q) /\ r[k] = q[k - Len(p)]
      BY <1>1
    <2> DEFINE i == k - Len(p)
    <2>1. i \in 1..Len(q) /\ k = Len(p) + i
      BY <1>1
    <2> HIDE DEF i
    <2>2. r[k] = q[i]
      BY <1>1, <2>1
    <2> QED
      BY <2>1, <2>2 DEF i
  <1>3. \A k \in 1..Len(r) : r[k].offset \in Nat /\ a <= r[k].offset /\ r[k].offset <= c
    <2> SUFFICES ASSUME NEW k \in 1..Len(r)
                 PROVE  r[k].offset \in Nat /\ a <= r[k].offset /\ r[k].offset <= c
      OBVIOUS
    <2>1. CASE k \in 1..Len(p) /\ r[k] = p[k]
      BY <2>1 DEF Rising
    <2>2. CASE k - Len(p) \in 1..Len(q) /\ k > Len(p) /\ r[k] = q[k - Len(p)]
      BY <2>2 DEF Rising
    <2> QED
      BY <1>2, <2>1, <2>2
  <1>4. \A j, k \in 1..Len(r) : j < k => r[j].offset <= r[k].offset
    <2> SUFFICES ASSUME NEW j \in 1..Len(r), NEW k \in 1..Len(r), j < k
                 PROVE  r[j].offset <= r[k].offset
      OBVIOUS
    <2>1. CASE k \in 1..Len(p)
      <3>1. j \in 1..Len(p) /\ r[j] = p[j] /\ r[k] = p[k]
        BY <1>1, <2>1
      <3> QED
        BY <2>1, <3>1 DEF Rising
    <2>2. CASE j \notin 1..Len(p)
      <3>1. /\ j - Len(p) \in 1..Len(q) /\ r[j] = q[j - Len(p)]
            /\ k - Len(p) \in 1..Len(q) /\ r[k] = q[k - Len(p)]
            /\ j - Len(p) < k - Len(p)
        BY <1>1, <1>2, <2>2
      <3> QED
        BY <3>1 DEF Rising
    <2>3. CASE j \in 1..Len(p) /\ k \notin 1..Len(p)
      <3>1. r[j] = p[j] /\ k - Len(p) \in 1..Len(q) /\ r[k] = q[k - Len(p)]
        BY <1>1, <1>2, <2>3
      <3>2. p[j].offset \in Nat /\ p[j].offset <= b
        BY <2>3 DEF Rising
      <3>3. q[k - Len(p)].offset \in Nat /\ b <= q[k - Len(p)].offset
        BY <3>1 DEF Rising
      <3> QED
        BY <3>1, <3>2, <3>3
    <2> QED
      BY <2>1, <2>2, <2>3
  <1>5. Rising(r, a, c)
    BY <1>3, <1>4 DEF Rising
  <1> QED
    BY <1>5 DEF r

LEMMA RisingWidens ==
    ASSUME NEW s, NEW a \in Nat, NEW b \in Nat, NEW c \in Nat, NEW d \in Nat,
           a <= b, c <= d, Rising(s, b, c)
    PROVE  Rising(s, a, d)
  BY DEF Rising

LEMMA RisingFlatten ==
    ASSUME NEW S, NEW ss \in Seq(Seq(S)), NEW at \in [1..(Len(ss) + 1) -> Nat],
           \A n \in 1..Len(ss) : at[n] <= at[n + 1] /\ Rising(ss[n], at[n], at[n + 1])
    PROVE  Rising(FlattenSeq(ss), at[1], at[Len(ss) + 1]) /\ at[1] <= at[Len(ss) + 1]
  <1> DEFINE P(n) == FlattenSeq(SubSeq(ss, 1, n))
             V == Seq(S)
             T == {n \in Nat : n <= Len(ss) =>
                                  Rising(P(n), at[1], at[n + 1]) /\ at[1] <= at[n + 1]}
  <1>0. Len(ss) \in Nat /\ 1 \in 1..(Len(ss) + 1) /\ ss \in Seq(V)
    OBVIOUS
  <1>1. 0 \in T
    <2>1. SubSeq(ss, 1, 0) = <<>>
      <3> HIDE DEF V
      <3> QED
        BY <1>0, PrefixIs
    <2>2. P(0) = <<>>
      <3> DEFINE e == <<>>
      <3>1. e \in Seq(Seq(S)) /\ \A k \in 1..Len(e) : e[k] = <<>>
        OBVIOUS
      <3> HIDE DEF e
      <3>2. FlattenSeq(e) = <<>>
        BY <3>1, FlattenNone
      <3> QED
        BY <2>1, <3>2 DEF e
    <2>3. Rising(<<>>, at[1], at[0 + 1]) /\ at[1] <= at[0 + 1]
      BY <1>0 DEF Rising
    <2> QED
      BY <2>2, <2>3
  <1>2. ASSUME NEW n \in Nat, n \in T PROVE n + 1 \in T
    <2> SUFFICES ASSUME n + 1 <= Len(ss)
                 PROVE  /\ Rising(P(n + 1), at[1], at[n + 1 + 1]) /\ at[1] <= at[n + 1 + 1]
      OBVIOUS
    <2>1. n + 1 \in 1..Len(ss) /\ n + 1 \in 0..Len(ss) /\ n \in 0..Len(ss)
      BY <1>0
    <2>2. Rising(P(n), at[1], at[n + 1]) /\ at[1] <= at[n + 1]
      BY <1>2, <2>1
    <2>3. at[1] \in Nat /\ at[n + 1] \in Nat /\ at[n + 1 + 1] \in Nat
      <3> DEFINE N == Len(ss) + 1
                 m == n + 1 + 1
      <3>1. 1 \in 1..N /\ n + 1 \in 1..N /\ m \in 1..N /\ at \in [1..N -> Nat]
        BY <1>0, <2>1
      <3> HIDE DEF N, m
      <3>2. at[1] \in Nat /\ at[n + 1] \in Nat /\ at[m] \in Nat
        BY <3>1
      <3> QED
        BY <3>2 DEF m
    <2>4. at[n + 1] <= at[n + 1 + 1] /\ Rising(ss[n + 1], at[n + 1], at[n + 1 + 1])
      BY <2>1
    <2> DEFINE x == SubSeq(ss, 1, n)
               m == n + 1
    <2>5. x \in Seq(V) /\ SubSeq(ss, 1, m) = Append(x, ss[m])
      <3>1. m \in 0..Len(ss) /\ m > 0 /\ m - 1 = n
        BY <2>1
      <3> HIDE DEF V, m
      <3>2. SubSeq(ss, 1, m) = Append(SubSeq(ss, 1, m - 1), ss[m])
        BY <1>0, <3>1, PrefixIs
      <3>3. x \in Seq(V)
        BY <1>0, <2>1, PrefixIs
      <3> QED
        BY <3>1, <3>2, <3>3
    <2>6. ss[m] \in Seq(S)
      BY <2>1
    <2> HIDE DEF x
    <2>7. FlattenSeq(Append(x, ss[m])) = FlattenSeq(x) \o ss[m] /\ FlattenSeq(x) \in Seq(S)
      BY <2>5, <2>6, FlattenAppend, FlattenTyped
    <2>8. Rising(FlattenSeq(x), at[1], at[n + 1])
      BY <2>2 DEF x
    <2> DEFINE y == FlattenSeq(x)
               z == ss[m]
               a == at[1]
               b == at[n + 1]
               c == at[n + 1 + 1]
    <2>9. y \in Seq(S) /\ z \in Seq(S) /\ Rising(y, a, b) /\ Rising(z, b, c)
          /\ a \in Nat /\ b \in Nat /\ c \in Nat /\ a <= b /\ b <= c
      BY <2>2, <2>3, <2>4, <2>6, <2>7, <2>8
    <2> HIDE DEF y, z, a, b, c
    <2>10. Rising(y \o z, a, c) /\ a <= c
      BY <2>9, RisingConcat
    <2> QED
      BY <2>5, <2>7, <2>10 DEF y, z, a, c
  <1> HIDE DEF T
  <1>3. Nat \subseteq T
    BY <1>1, <1>2, NumberInduction
  <1>4. Rising(P(Len(ss)), at[1], at[Len(ss) + 1]) /\ at[1] <= at[Len(ss) + 1]
    BY <1>0, <1>3 DEF T
  <1>5. SubSeq(ss, 1, Len(ss)) = ss
    <2> HIDE DEF V
    <2>1. Len(ss) \in 0..Len(ss)
      BY <1>0
    <2> QED
      BY <1>0, <2>1, PrefixIs
  <1> QED
    BY <1>4, <1>5

LEMMA RisingSorted ==
    ASSUME NEW S, NEW s \in Seq(S), NEW a, NEW b, Rising(s, a, b)
    PROVE  SortedBy(s, [k \in DOMAIN s |-> s[k].offset]) = s
  <1> DEFINE key == [k \in DOMAIN s |-> s[k].offset]
  <1>1. DOMAIN s = 1..Len(s)
    OBVIOUS
  <1>2. key \in [1..Len(s) -> Int] /\ \A j, k \in 1..Len(s) : j < k => key[j] <= key[k]
    BY <1>1 DEF Rising
  <1> HIDE DEF key
  <1>3. SortedBy(s, key) = s
    BY <1>2, SortedStays
  <1> QED
    BY <1>3 DEF key

(***************************************************************************)
(* What a sample table says stays as it is when boxes are appended, or     *)
(* when the moov is patched.                                               *)
(***************************************************************************)
Rows(f, m) == IF f[m].kind = "moof" THEN MoofSamples(f, m) ELSE <<>>
HasRows(S, f) == IsFile(f) /\ \A m \in 1..Len(f) : Rows(f, m) \in Seq(S)

LEMMA ListedIs ==
    ASSUME NEW f
    PROVE  Listed(f) = FlattenSeq([m \in DOMAIN f |-> Rows(f, m)])
  BY DEF Listed, Rows

LEMMA ListedTyped ==
    ASSUME NEW S, NEW f, HasRows(S, f)
    PROVE  Listed(f) \in Seq(S)
  <1> DEFINE ss == [m \in DOMAIN f |-> Rows(f, m)]
             V == Seq(S)
  <1>1. DOMAIN f = 1..Len(f) /\ Len(f) \in Nat /\ \A m \in 1..Len(f) : Rows(f, m) \in V
    BY DEF HasRows, IsFile
  <1> HIDE DEF V
  <1>2. ss \in Seq(V)
    BY <1>1
  <1> HIDE DEF ss
  <1>3. FlattenSeq(ss) \in Seq(S)
    BY <1>2, FlattenTyped DEF V
  <1> QED
    BY <1>3, ListedIs DEF ss

LEMMA RowsSame ==
    ASSUME NEW f, NEW h, NEW m, NEW n, f[m] = h[n], m = n, Position(f, m) = Position(h, n)
    PROVE  Rows(f, m) = Rows(h, n)
  <1>1. ASSUME NEW i PROVE TrafSamples(f, m, i) = TrafSamples(h, m, i)
    <2> DEFINE x == f[m]
               p == Position(f, m)
    <2>1. h[m] = x /\ Position(h, m) = p
      OBVIOUS
    <2> HIDE DEF p
    <2> QED
      BY <2>1 DEF TrafSamples, p
  <1>2. MoofSamples(f, m) = MoofSamples(h, m)
    BY <1>1 DEF MoofSamples
  <1> QED
    BY <1>2 DEF Rows

LEMMA RowsConcat ==
    ASSUME NEW S, NEW f, NEW g, HasRows(S, f), IsFile(g),
           \A k \in 1..Len(g) : Rows(f \o g, Len(f) + k) \in Seq(S)
    PROVE  /\ HasRows(S, f \o g)
           /\ Joined(Listed(f \o g), Listed(f),
                     FlattenSeq([k \in 1..Len(g) |-> Rows(f \o g, Len(f) + k)]))
  <1> DEFINE h == f \o g
             V == Seq(S)
             aa == [m \in DOMAIN f |-> Rows(f, m)]
             bb == [k \in 1..Len(g) |-> Rows(h, Len(f) + k)]
             cc == [m \in DOMAIN h |-> Rows(h, m)]
  <1>1. /\ IsFile(h) /\ Len(h) = Len(f) + Len(g)
        /\ \A k \in 1..Len(f) : h[k] = f[k]
        /\ \A k \in 1..(Len(f) + 1) : Position(h, k) = Position(f, k)
    BY FileConcat DEF HasRows
  <1>2. /\ Len(f) \in Nat /\ Len(g) \in Nat /\ DOMAIN f = 1..Len(f) /\ DOMAIN h = 1..Len(h)
        /\ \A m \in 1..Len(f) : Rows(f, m) \in V
        /\ \A k \in 1..Len(g) : Rows(h, Len(f) + k) \in V
    BY <1>1 DEF HasRows, IsFile
  <1> HIDE DEF h, V
  <1>3. ASSUME NEW m \in 1..Len(f) PROVE Rows(h, m) = Rows(f, m)
    <2>1. m \in 1..(Len(f) + 1)
      BY <1>2
    <2>2. h[m] = f[m] /\ Position(h, m) = Position(f, m)
      BY <1>1, <2>1
    <2> QED
      BY <2>2, RowsSame
  <1>4. aa \in Seq(V) /\ Len(aa) = Len(f) /\ bb \in Seq(V) /\ Len(bb) = Len(g)
    BY <1>2
  <1>5. cc = [k \in 1..(Len(f) + Len(g)) |-> cc[k]]
    BY <1>1, <1>2
  <1>6. \A k \in 1..Len(f) : cc[k] = aa[k]
    <2> SUFFICES ASSUME NEW k \in 1..Len(f) PROVE cc[k] = aa[k]
      OBVIOUS
    <2>1. k \in DOMAIN h /\ k \in DOMAIN f
      BY <1>1, <1>2
    <2> QED
      BY <1>3, <2>1
  <1>7. \A k \in 1..Len(g) : cc[Len(f) + k] = bb[k]
    <2> SUFFICES ASSUME NEW k \in 1..Len(g) PROVE cc[Len(f) + k] = bb[k]
      OBVIOUS
    <2>1. Len(f) + k \in DOMAIN h
      BY <1>1, <1>2
    <2> QED
      BY <2>1
  <1>8. ASSUME NEW m \in 1..Len(h) PROVE Rows(h, m) \in V
    <2>1. CASE m \in 1..Len(f)
      BY <1>2, <1>3, <2>1
    <2>2. CASE m \notin 1..Len(f)
      <3> DEFINE k == m - Len(f)
      <3>1. k \in 1..Len(g) /\ m = Len(f) + k
        BY <1>1, <1>2, <2>2
      <3> HIDE DEF k
      <3> QED
        BY <1>2, <3>1
    <2> QED
      BY <2>1, <2>2
  <1>9. Listed(h) = FlattenSeq(cc) /\ Listed(f) = FlattenSeq(aa)
    BY ListedIs
  <1> HIDE DEF aa, bb, cc
  <1>10. FlattenSeq(cc) = FlattenSeq(aa) \o FlattenSeq(bb)
    <2>1. aa \in Seq(Seq(S)) /\ bb \in Seq(Seq(S)) /\ cc = [k \in 1..(Len(aa) + Len(bb)) |-> cc[k]]
          /\ (\A k \in 1..Len(aa) : cc[k] = aa[k])
          /\ (\A k \in 1..Len(bb) : cc[Len(aa) + k] = bb[k])
      BY <1>4, <1>5, <1>6, <1>7 DEF V
    <2> QED
      BY <2>1, FlattenJoin
  <1>11. HasRows(S, h)
    BY <1>1, <1>8 DEF HasRows, V
  <1> QED
    BY <1>9, <1>10, <1>11 DEF Joined, h, bb

LEMMA AlikePositions ==
    ASSUME NEW f, NEW h, IsFile(f), Alike(f, h)
    PROVE  /\ IsFile(h) /\ Len(h) = Len(f) /\ EndOf(h) = EndOf(f)
           /\ \A k \in 1..(Len(f) + 1) : Position(h, k) = Position(f, k)
  <1> DEFINE a == Fields(f, "size")
             b == Fields(h, "size")
  <1>1. IsFile(h)
    BY AlikeFile
  <1>2. PICK S : f \in Seq(S)
    BY DEF IsFile
  <1>3. PICK T : h \in Seq(T)
    BY <1>1 DEF IsFile
  <1>4. Len(f) \in Nat /\ Len(h) = Len(f) /\ DOMAIN f = 1..Len(f) /\ DOMAIN h = 1..Len(f)
    BY <1>2, <1>3 DEF Alike
  <1>5. \A k \in 1..Len(f) : h[k]["size"] = f[k]["size"]
    BY DEF Alike
  <1>6. a = b
    BY <1>4, <1>5 DEF Fields
  <1> HIDE DEF a, b
  <1>7. EndOf(h) = EndOf(f)
    BY <1>6, SumsOfFields DEF a, b
  <1>8. ASSUME NEW k \in 1..(Len(f) + 1) PROVE Position(h, k) = Position(f, k)
    <2> DEFINE n == k - 1
    <2>1. n \in 0..Len(f) /\ n \in 0..Len(h)
      BY <1>4
    <2> HIDE DEF n
    <2>2. Fields(SubSeq(f, 1, n), "size") = SubSeq(a, 1, n)
      BY <1>2, <2>1, FieldsPrefix DEF a
    <2>3. Fields(SubSeq(h, 1, n), "size") = SubSeq(b, 1, n)
      BY <1>3, <2>1, FieldsPrefix DEF b
    <2>4. EndOf(SubSeq(f, 1, n)) = EndOf(SubSeq(h, 1, n))
      BY <1>6, <2>2, <2>3, SumsOfFields
    <2> QED
      BY <2>4 DEF Position, EndOf, n
  <1> QED
    BY <1>1, <1>4, <1>7, <1>8

LEMMA AlikeRows ==
    ASSUME NEW S, NEW f, NEW h, HasRows(S, f), Alike(f, h)
    PROVE  HasRows(S, h) /\ Listed(h) = Listed(f)
  <1>1. /\ IsFile(f) /\ IsFile(h) /\ Len(h) = Len(f)
        /\ \A k \in 1..(Len(f) + 1) : Position(h, k) = Position(f, k)
    BY AlikePositions DEF HasRows
  <1>2. Len(f) \in Nat /\ DOMAIN f = 1..Len(f) /\ DOMAIN h = 1..Len(f)
    BY <1>1 DEF IsFile
  <1>3. ASSUME NEW m \in 1..Len(f) PROVE Rows(h, m) = Rows(f, m)
    <2>1. h[m].kind = f[m].kind /\ (f[m].kind # "moov" => h[m] = f[m])
      BY DEF Alike
    <2>2. CASE f[m].kind # "moof"
      BY <2>1, <2>2 DEF Rows
    <2>3. CASE f[m].kind = "moof"
      <3>1. h[m] = f[m]
        BY <2>1, <2>3
      <3>2. m \in 1..(Len(f) + 1)
        BY <1>2
      <3>3. Position(h, m) = Position(f, m)
        BY <1>1, <3>2
      <3> QED
        BY <3>1, <3>3, RowsSame
    <2> QED
      BY <2>2, <2>3
  <1>4. HasRows(S, h)
    BY <1>1, <1>3 DEF HasRows
  <1>5. [m \in DOMAIN f |-> Rows(f, m)] = [m \in DOMAIN h |-> Rows(h, m)]
    BY <1>2, <1>3
  <1> QED
    BY <1>4, <1>5, ListedIs

(* What is stored in a file stays where it is.                             *)
LEMMA OfKindIs ==
    ASSUME NEW f, IsFile(f), NEW kind
    PROVE  ToSet(OfKind(f, kind)) = {k \in 1..Len(f) : f[k].kind = kind}
  <1> DEFINE s == [k \in DOMAIN f |-> k]
             K == {k \in DOMAIN f : f[k].kind = kind}
             r == Selected(s, K)
  <1>1. DOMAIN f = 1..Len(f) /\ Len(f) \in Nat
    BY DEF IsFile
  <1>2. s \in Seq(Nat) /\ Len(s) = Len(f) /\ \A k \in 1..Len(f) : s[k] = k
    BY <1>1
  <1>3. OfKind(f, kind) = r
    BY DEF OfKind
  <1> HIDE DEF s, r
  <1>4. PICK h : Enumerates(r, s, K, h)
    BY <1>2, SelectedLists DEF r
  <1>5. r \in Seq(Nat)
    BY <1>2, SelectedTyped DEF r
  <1>6. DOMAIN r = 1..Len(r) /\ DOMAIN s = 1..Len(f)
    BY <1>2, <1>5
  <1>7. ASSUME NEW n \in 1..Len(r) PROVE r[n] \in 1..Len(f) /\ f[r[n]].kind = kind
    <2>1. h[n] \in DOMAIN s /\ h[n] \in K /\ r[n] = s[h[n]]
      BY <1>4 DEF Enumerates
    <2>2. h[n] \in 1..Len(f) /\ r[n] = h[n]
      BY <1>2, <1>6, <2>1
    <2> QED
      BY <2>1, <2>2
  <1>8. ASSUME NEW k \in 1..Len(f), f[k].kind = kind PROVE \E n \in 1..Len(r) : r[n] = k
    <2>1. k \in DOMAIN s /\ k \in K
      BY <1>1, <1>6, <1>8
    <2>2. PICK n \in 1..Len(r) : h[n] = k
      BY <1>4, <2>1 DEF Enumerates
    <2>3. r[n] = s[k]
      BY <1>4, <2>2 DEF Enumerates
    <2> QED
      BY <1>2, <2>3
  <1>9. ToSet(r) = {r[n] : n \in 1..Len(r)}
    BY <1>6 DEF ToSet
  <1> QED
    BY <1>3, <1>7, <1>8, <1>9

StockAt(f, m, j) ==
    [offset |-> Position(f, m) + 8 + Bytes(SubSeq(f[m].data, 1, j - 1)),
     size |-> f[m].data[j].size, track |-> f[m].data[j].track,
     id |-> f[m].data[j].id]

LEMMA StoredIs ==
    ASSUME NEW f, IsFile(f)
    PROVE  \A x : x \in Stored(f) <=> \E m \in 1..Len(f) :
              f[m].kind = "mdat" /\ \E j \in DOMAIN f[m].data : x = StockAt(f, m, j)
  <1> DEFINE K == {k \in 1..Len(f) : f[k].kind = "mdat"}
  <1>1. ToSet(OfKind(f, "mdat")) = K
    BY OfKindIs
  <1>2. Stored(f) = UNION {{StockAt(f, m, j) : j \in DOMAIN f[m].data} : m \in K}
    BY <1>1 DEF Stored, StockAt
  <1> QED
    BY <1>2

LEMMA StoredStays ==
    ASSUME NEW f, NEW h, IsFile(f), IsFile(h),
           \A m \in 1..Len(f) : f[m].kind = "mdat" =>
               m \in 1..Len(h) /\ h[m] = f[m] /\ Position(h, m) = Position(f, m)
    PROVE  Stored(f) \subseteq Stored(h)
  <1> SUFFICES ASSUME NEW x \in Stored(f) PROVE x \in Stored(h)
    OBVIOUS
  <1>1. PICK m \in 1..Len(f) :
           f[m].kind = "mdat" /\ \E j \in DOMAIN f[m].data : x = StockAt(f, m, j)
    BY StoredIs
  <1>2. PICK j \in DOMAIN f[m].data : x = StockAt(f, m, j)
    BY <1>1
  <1>3. m \in 1..Len(h) /\ h[m] = f[m] /\ Position(h, m) = Position(f, m)
    BY <1>1
  <1>4. StockAt(h, m, j) = StockAt(f, m, j)
    BY <1>3 DEF StockAt
  <1>5. h[m].kind = "mdat" /\ j \in DOMAIN h[m].data /\ x = StockAt(h, m, j)
    BY <1>1, <1>2, <1>3, <1>4
  <1> QED
    BY <1>3, <1>5, StoredIs

LEMMA StoredGrows ==
    ASSUME NEW f, NEW g, NEW h, IsFile(f), IsFile(g), Alike(f \o g, h)
    PROVE  Stored(f) \subseteq Stored(h)
  <1> DEFINE e == f \o g
  <1>1. /\ IsFile(e) /\ Len(e) = Len(f) + Len(g)
        /\ \A k \in 1..Len(f) : e[k] = f[k]
        /\ \A k \in 1..(Len(f) + 1) : Position(e, k) = Position(f, k)
    BY FileConcat
  <1> HIDE DEF e
  <1>2. /\ IsFile(h) /\ Len(h) = Len(e)
        /\ \A k \in 1..(Len(e) + 1) : Position(h, k) = Position(e, k)
    BY <1>1, AlikePositions DEF e
  <1>3. Len(f) \in Nat /\ Len(g) \in Nat
    BY DEF IsFile
  <1>4. ASSUME NEW m \in 1..Len(f), f[m].kind = "mdat"
        PROVE  m \in 1..Len(h) /\ h[m] = f[m] /\ Position(h, m) = Position(f, m)
    <2>1. m \in 1..Len(e) /\ m \in 1..(Len(f) + 1) /\ m \in 1..(Len(e) + 1) /\ m \in 1..Len(h)
      BY <1>1, <1>2, <1>3
    <2>2. e[m] = f[m] /\ h[m] = e[m]
      <3>1. e[m] = f[m]
        BY <1>1
      <3> QED
        BY <1>4, <2>1, <3>1 DEF Alike, e
    <2> QED
      BY <1>1, <1>2, <2>1, <2>2
  <1> QED
    BY <1>2, <1>4, StoredStays

(***************************************************************************)
(* Where the samples of a batch lie in its mdat: track by track, each      *)
(* after the bytes before it.                                              *)
(***************************************************************************)
Parcels(b) == [k \in DOMAIN Contributing(b) |-> Tagged(b, Contributing(b)[k])]

LEMMA StockBytes ==
    ASSUME NEW p \in Seq(Stock), NEW q \in Seq(Stock)
    PROVE  /\ Bytes(p) \in Nat /\ Bytes(p \o q) = Bytes(p) + Bytes(q)
  <1> DEFINE u == Fields(p, "size")
             v == Fields(q, "size")
  <1>1. \A x \in Stock : x["size"] \in Nat
    BY DEF Stock
  <1>2. u \in Seq(Nat) /\ v \in Seq(Nat)
    BY <1>1, FieldsTyped
  <1>3. Fields(p \o q, "size") = u \o v
    BY FieldsConcat
  <1> HIDE DEF u, v
  <1>4. u \in Seq(Int) /\ v \in Seq(Int)
    BY <1>2
  <1>5. Total(u \o v) = Total(u) + Total(v) /\ Total(u) \in Nat
    BY <1>2, <1>4, TotalConcat, TotalNat
  <1> QED
    BY <1>3, <1>5, SumsOfFields DEF u, v

LEMMA DataBeforeIs ==
    ASSUME NEW b, BatchTyped(b.pending, b.senc, b.seig)
    PROVE  LET r == Contributing(b)
           IN  /\ DataBefore(b, 1) = 0
               /\ \A n \in 1..(Len(r) + 1) : DataBefore(b, n) \in Nat
               /\ \A n \in 1..Len(r) :
                    DataBefore(b, n + 1) = DataBefore(b, n) + Bytes(b.pending[r[n]])
  <1> DEFINE r == Contributing(b)
             sizes == [k \in 1..Len(r) |-> Bytes(b.pending[r[k]])]
  <1>1. r \in Seq(Track)
    BY ContributingIs
  <1>2. ASSUME NEW t \in Track PROVE Bytes(b.pending[t]) \in Nat
    BY TaggedTyped, TimedSums
  <1> HIDE DEF r
  <1>3. sizes \in Seq(Nat) /\ Len(sizes) = Len(r) /\ Len(r) \in Nat /\ sizes \in Seq(Int)
    <2>1. \A k \in 1..Len(r) : r[k] \in Track
      BY <1>1
    <2>2. \A k \in 1..Len(r) : Bytes(b.pending[r[k]]) \in Nat
      BY <1>2, <2>1
    <2>3. Len(r) \in Nat
      BY <1>1
    <2> QED
      BY <2>2, <2>3
  <1>4. ASSUME NEW n \in 0..Len(r) PROVE DataBefore(b, n + 1) = Total(SubSeq(sizes, 1, n))
    <2> DEFINE p == SubSeq(r, 1, n)
               s == SubSeq(sizes, 1, n)
    <2>1. p \in Seq(Track) /\ Len(p) = n /\ \A k \in 1..n : p[k] = r[k]
      BY <1>1, PrefixIs
    <2>2. s \in Seq(Nat) /\ Len(s) = n /\ \A k \in 1..n : s[k] = sizes[k]
      <3> HIDE DEF sizes
      <3>1. n \in 0..Len(sizes)
        BY <1>3
      <3> QED
        BY <1>3, <3>1, PrefixIs
    <2>3. DataBefore(b, n + 1) = Total([k \in DOMAIN p |-> Bytes(b.pending[p[k]])])
      <3>1. n + 1 - 1 = n
        OBVIOUS
      <3> QED
        BY <3>1 DEF DataBefore, SumOf, r
    <2>4. \A k \in 1..n : sizes[k] = Bytes(b.pending[r[k]])
      <3>1. \A k \in 1..n : k \in 1..Len(r)
        BY <1>3
      <3> QED
        BY <3>1
    <2> HIDE DEF p, s, sizes
    <2>5. [k \in DOMAIN p |-> Bytes(b.pending[p[k]])] = s
      BY <2>1, <2>2, <2>4
    <2> QED
      BY <2>3, <2>5 DEF s
  <1> HIDE DEF sizes
  <1>5. \A n \in 0..Len(r) : DataBefore(b, n + 1) \in Nat
    BY <1>3, <1>4, TotalPrefixNat
  <1>6. DataBefore(b, 1) = 0
    <2>1. 0 \in 0..Len(r) /\ 0 \in 0..Len(sizes)
      BY <1>3
    <2>2. SubSeq(sizes, 1, 0) = <<>>
      BY <1>3, <2>1, PrefixIs
    <2>3. Total(<<>>) = 0
      BY DEF Total
    <2>4. DataBefore(b, 0 + 1) = 0
      BY <1>4, <2>1, <2>2, <2>3
    <2>5. 0 + 1 = 1
      OBVIOUS
    <2> QED
      BY <2>4, <2>5
  <1>7. ASSUME NEW n \in 1..Len(r)
        PROVE  DataBefore(b, n + 1) = DataBefore(b, n) + Bytes(b.pending[r[n]])
    <2>1. n \in 0..Len(r) /\ n - 1 \in 0..Len(r) /\ n - 1 + 1 = n /\ n \in 1..Len(sizes)
      BY <1>3
    <2>2. Total(SubSeq(sizes, 1, n)) = Total(SubSeq(sizes, 1, n - 1)) + sizes[n]
      BY <1>3, <2>1, TotalPrefix
    <2>3. sizes[n] = Bytes(b.pending[r[n]])
      BY DEF sizes
    <2>4. DataBefore(b, n - 1 + 1) = Total(SubSeq(sizes, 1, n - 1))
      BY <1>4, <2>1
    <2> QED
      BY <1>4, <2>1, <2>2, <2>3, <2>4
  <1>8. ASSUME NEW n \in 1..(Len(r) + 1) PROVE DataBefore(b, n) \in Nat
    <2> DEFINE m == n - 1
    <2>1. m \in 0..Len(r) /\ n = m + 1
      BY <1>3
    <2> QED
      BY <1>5, <2>1
  <1> QED
    BY <1>6, <1>7, <1>8 DEF r

LEMMA ParcelBytes ==
    ASSUME NEW b, BatchTyped(b.pending, b.senc, b.seig)
    PROVE  /\ Parcels(b) \in Seq(Seq(Stock)) /\ Len(Parcels(b)) = Len(Contributing(b))
           /\ \A n \in 0..Len(Contributing(b)) :
                /\ FlattenSeq(SubSeq(Parcels(b), 1, n)) \in Seq(Stock)
                /\ Bytes(FlattenSeq(SubSeq(Parcels(b), 1, n))) = DataBefore(b, n + 1)
  <1> DEFINE r == Contributing(b)
             ss == Parcels(b)
             V == Seq(Stock)
             P(n) == FlattenSeq(SubSeq(ss, 1, n))
             T == {n \in Nat : n <= Len(r) =>
                                  P(n) \in Seq(Stock) /\ Bytes(P(n)) = DataBefore(b, n + 1)}
  <1>1. r \in Seq(Track)
    BY ContributingIs
  <1>2. \A t \in Track : Tagged(b, t) \in V /\ Bytes(Tagged(b, t)) = Bytes(b.pending[t])
    BY TaggedTyped
  <1>3. Len(r) \in Nat /\ \A k \in 1..Len(r) : r[k] \in Track
    BY <1>1
  <1>4. ss = [k \in 1..Len(r) |-> Tagged(b, r[k])]
    <2>1. DOMAIN r = 1..Len(r)
      BY <1>1
    <2> QED
      BY <2>1 DEF Parcels
  <1>5. /\ DataBefore(b, 1) = 0
        /\ \A n \in 1..Len(r) :
             DataBefore(b, n + 1) = DataBefore(b, n) + Bytes(b.pending[r[n]])
    BY DataBeforeIs
  <1> HIDE DEF r, V, ss
  <1>6. ss \in Seq(V) /\ Len(ss) = Len(r)
    BY <1>2, <1>3, <1>4
  <1>7. 0 \in T
    <2>1. 0 \in 0..Len(ss)
      BY <1>3, <1>6
    <2>2. SubSeq(ss, 1, 0) = <<>>
      BY <1>6, <2>1, PrefixIs
    <2>3. FlattenSeq(<<>>) = <<>>
      <3> DEFINE e == <<>>
      <3>1. e \in Seq(Seq(Stock)) /\ \A k \in 1..Len(e) : e[k] = <<>>
        OBVIOUS
      <3> HIDE DEF e
      <3>2. FlattenSeq(e) = <<>>
        BY <3>1, FlattenNone
      <3> QED
        BY <3>2 DEF e
    <2>4. Bytes(<<>>) = 0
      BY DEF Bytes, SumOf, Total
    <2>5. <<>> \in Seq(Stock)
      OBVIOUS
    <2>6. FlattenSeq(SubSeq(ss, 1, 0)) = <<>>
      BY <2>2, <2>3, Zenon
    <2>7. 0 + 1 = 1 /\ 0 \in Nat
      OBVIOUS
    <2> DEFINE e == FlattenSeq(SubSeq(ss, 1, 0))
    <2>8. e \in Seq(Stock) /\ Bytes(e) = 0
      BY <2>4, <2>5, <2>6, Zenon
    <2> HIDE DEF e
    <2>9. e \in Seq(Stock) /\ Bytes(e) = DataBefore(b, 0 + 1)
      BY <1>5, <2>7, <2>8
    <2> QED
      BY <2>7, <2>9 DEF e
  <1>8. ASSUME NEW n \in Nat, n \in T PROVE n + 1 \in T
    <2> SUFFICES ASSUME n + 1 <= Len(r)
                 PROVE  /\ P(n + 1) \in Seq(Stock)
                        /\ Bytes(P(n + 1)) = DataBefore(b, n + 1 + 1)
      OBVIOUS
    <2> DEFINE m == n + 1
               x == SubSeq(ss, 1, n)
               y == ss[m]
    <2>1. m \in 1..Len(r) /\ m \in 0..Len(ss) /\ n \in 0..Len(ss) /\ m > 0 /\ m - 1 = n
          /\ n <= Len(r) /\ m \in 1..Len(ss)
      BY <1>3, <1>6
    <2>2. P(n) \in Seq(Stock) /\ Bytes(P(n)) = DataBefore(b, n + 1)
      BY <1>8, <2>1
    <2> HIDE DEF m
    <2>3. SubSeq(ss, 1, m) = Append(x, y) /\ x \in Seq(V)
      BY <1>6, <2>1, PrefixIs
    <2>4. y \in V /\ Bytes(y) = Bytes(b.pending[r[m]])
      <3>1. r[m] \in Track
        BY <1>3, <2>1
      <3>2. y = Tagged(b, r[m])
        BY <1>4, <2>1
      <3> QED
        BY <1>2, <3>1, <3>2
    <2> HIDE DEF x, y
    <2>5. FlattenSeq(Append(x, y)) = FlattenSeq(x) \o y /\ FlattenSeq(x) \in Seq(Stock)
      BY <2>3, <2>4, FlattenAppend, FlattenTyped DEF V
    <2> DEFINE z == FlattenSeq(x)
    <2>6. z \in Seq(Stock) /\ y \in Seq(Stock)
      BY <2>4, <2>5 DEF V
    <2> HIDE DEF z
    <2>7. z \o y \in Seq(Stock) /\ Bytes(z \o y) = Bytes(z) + Bytes(y)
      BY <2>6, StockBytes, ConcatProperties
    <2>8. Bytes(z) = DataBefore(b, n + 1)
      BY <2>2 DEF z, x
    <2>9. P(m) = z \o y
      BY <2>3, <2>5 DEF z
    <2>10. DataBefore(b, m + 1) = DataBefore(b, m) + Bytes(b.pending[r[m]])
      BY <1>5, <2>1
    <2> QED
      BY <2>4, <2>7, <2>8, <2>9, <2>10 DEF m
  <1> HIDE DEF T
  <1>9. Nat \subseteq T
    BY <1>7, <1>8, NumberInduction
  <1>10. \A n \in 0..Len(r) : P(n) \in Seq(Stock) /\ Bytes(P(n)) = DataBefore(b, n + 1)
    BY <1>3, <1>9 DEF T
  <1> QED
    BY <1>6, <1>10 DEF V, ss, r

LEMMA PayloadAt ==
    ASSUME NEW b, BatchTyped(b.pending, b.senc, b.seig),
           NEW n \in 1..Len(Contributing(b)), NEW q, q = b.pending[Contributing(b)[n]],
           NEW k \in 1..Len(q)
    PROVE  \E j \in 1..Len(Payload(b)) :
              /\ Payload(b)[j] = [track |-> Contributing(b)[n], id |-> q[k].id,
                                  size |-> q[k].size]
              /\ Bytes(SubSeq(Payload(b), 1, j - 1))
                   = DataBefore(b, n) + Bytes(SubSeq(q, 1, k - 1))
  <1> DEFINE r == Contributing(b)
             ss == Parcels(b)
             x == FlattenSeq(SubSeq(ss, 1, n - 1))
             y == ss[n]
             z == FlattenSeq(SubSeq(ss, n + 1, Len(ss)))
             data == Payload(b)
             t == r[n]
  <1>1. r \in Seq(Track) /\ t \in Track /\ Len(r) \in Nat
    BY ContributingIs, SMTT(30), ZenonT(60)
  <1>2. /\ ss \in Seq(Seq(Stock)) /\ Len(ss) = Len(r)
        /\ \A i \in 0..Len(r) :
                /\ FlattenSeq(SubSeq(ss, 1, i)) \in Seq(Stock)
                /\ Bytes(FlattenSeq(SubSeq(ss, 1, i))) = DataBefore(b, i + 1)
    BY ParcelBytes
  <1>3. data = FlattenSeq(ss)
    BY DEF Payload, Parcels
  <1>4. y = Tagged(b, t)
    <2>1. n \in DOMAIN r
      BY <1>1
    <2> QED
      BY <2>1 DEF Parcels
  <1>5. /\ y \in Seq(Stock) /\ Len(y) = Len(q)
        /\ \A m \in 1..Len(q) : y[m] = [track |-> t, id |-> q[m].id, size |-> q[m].size]
        /\ q \in Seq(Sample)
    <2>1. q = b.pending[t]
      OBVIOUS
    <2> HIDE DEF t, y
    <2>2. /\ Tagged(b, t) \in Seq(Stock) /\ Len(Tagged(b, t)) = Len(b.pending[t])
          /\ \A m \in 1..Len(b.pending[t]) :
                Tagged(b, t)[m] = [track |-> t, id |-> b.pending[t][m].id,
                                   size |-> b.pending[t][m].size]
          /\ b.pending[t] \in Seq(Sample)
      BY <1>1, TaggedTyped, ZenonT(60), SMTT(30) DEF BatchTyped
    <2> QED
      BY <1>4, <2>1, <2>2
  <1>6. x \in Seq(Stock) /\ Bytes(x) = DataBefore(b, n)
    <2>1. n - 1 \in 0..Len(r) /\ n - 1 + 1 = n
      BY <1>1
    <2> QED
      BY <1>2, <2>1
  <1> HIDE DEF r, ss, t, data
  <1>7. n \in 1..Len(ss)
    BY <1>2 DEF r
  <1>8. FlattenSeq(ss) = (x \o y) \o z /\ z \in Seq(Stock)
    <2>1. SubSeq(ss, n + 1, Len(ss)) \in Seq(Seq(Stock)) /\ FlattenSeq(ss) = (x \o y) \o z
      BY <1>2, <1>7, FlattenSplit
    <2> QED
      BY <2>1, FlattenTyped
  <1> HIDE DEF x, y, z
  <1> DEFINE w == x \o y
             j == Len(x) + k
             i == k - 1
  <1>9. /\ w \in Seq(Stock) /\ Len(w) = Len(x) + Len(y) /\ Len(x) \in Nat /\ Len(y) \in Nat
        /\ \A m \in 1..Len(y) : w[Len(x) + m] = y[m]
    <2>1. x \in Seq(Stock) /\ y \in Seq(Stock)
      BY <1>5, <1>6
    <2> QED
      BY <2>1, ConcatProperties
  <1>10. k \in 1..Len(y) /\ i \in 0..Len(y) /\ j - 1 = Len(x) + i /\ j \in 1..Len(w)
         /\ j - 1 \in 0..Len(w)
    <2> DEFINE X == Len(x)
               Y == Len(y)
               W == Len(w)
    <2>1. X \in Nat /\ Y \in Nat /\ W = X + Y /\ k \in 1..Y
      BY <1>5, <1>9
    <2>2. j = X + k /\ i = k - 1
      OBVIOUS
    <2> HIDE DEF X, Y, W, w, j, i
    <2>3. k \in 1..Y /\ i \in 0..Y /\ j - 1 = X + i /\ j \in 1..W /\ j - 1 \in 0..W
      BY <2>1, <2>2
    <2> QED
      BY <2>3 DEF X, Y, W
  <1> HIDE DEF w, j, i
  <1>11. /\ data = w \o z /\ Len(data) = Len(w) + Len(z) /\ Len(z) \in Nat
         /\ \A m \in 1..Len(w) : data[m] = w[m]
    BY <1>3, <1>8, <1>9, ConcatProperties DEF w
  <1>12. j \in 1..Len(data) /\ data[j] = y[k]
    <2>1. data[j] = w[j] /\ j \in 1..Len(data)
      BY <1>9, <1>10, <1>11
    <2>2. w[Len(x) + k] = y[k]
      BY <1>9, <1>10
    <2> QED
      BY <2>1, <2>2 DEF j
  <1>13. SubSeq(data, 1, j - 1) = x \o SubSeq(y, 1, i)
    <2>1. SubSeq(w \o z, 1, j - 1) = SubSeq(w, 1, j - 1)
      BY <1>8, <1>9, <1>10, PrefixOfConcat
    <2>2. SubSeq(x \o y, 1, Len(x) + i) = x \o SubSeq(y, 1, i)
      BY <1>5, <1>6, <1>10, PrefixPast
    <2> QED
      BY <1>10, <1>11, <2>1, <2>2 DEF w
  <1>14. SubSeq(y, 1, i) \in Seq(Stock)
    BY <1>5, <1>10, PrefixIs
  <1>15. Bytes(x \o SubSeq(y, 1, i)) = Bytes(x) + Bytes(SubSeq(y, 1, i))
    BY <1>6, <1>14, StockBytes
  <1>16. Bytes(SubSeq(y, 1, i)) = Bytes(SubSeq(q, 1, i))
    <2>1. i \in 0..Len(q) /\ i \in 0..Len(y)
      BY <1>5, <1>10
    <2>2. Fields(SubSeq(y, 1, i), "size") = SubSeq(Fields(y, "size"), 1, i)
      BY <1>5, <2>1, FieldsPrefix
    <2>3. Fields(SubSeq(q, 1, i), "size") = SubSeq(Fields(q, "size"), 1, i)
      BY <1>5, <2>1, FieldsPrefix
    <2>4. Fields(y, "size") = Fields(q, "size")
      <3>2. \A m \in 1..Len(q) : y[m]["size"] = q[m]["size"]
        <4> SUFFICES ASSUME NEW m \in 1..Len(q)
                     PROVE  y[m]["size"] = q[m]["size"]
          OBVIOUS
        <4> DEFINE e == q[m].size
                   d == q[m].id
        <4>1. y[m] = [track |-> t, id |-> d, size |-> e]
          BY <1>5
        <4> HIDE DEF e
        <4>2. y[m]["size"] = e
          BY <4>1
        <4> QED
          BY <4>2 DEF e
      <3>3. DOMAIN y = 1..Len(q) /\ DOMAIN q = 1..Len(q)
        BY <1>5
      <3> QED
        BY <3>2, <3>3 DEF Fields
    <2> QED
      BY <2>2, <2>3, <2>4, SumsOfFields
  <1> QED
    BY <1>5, <1>6, <1>12, <1>13, <1>15, <1>16 DEF data, t, r, i

(***************************************************************************)
(* What the moof of a batch says of a sample beside its run: its auxiliary *)
(* record, where the senc really is, and its key-rotation group.           *)
(***************************************************************************)
SencStart(box, n) ==
    24 + SumOf(box.pssh, BoxSize) + SumOf(SubSeq(box.trafs, 1, n - 1), TrafBytes)
      + 8 + TfhdBytes(box.trafs[n].tfhd) + 20
AuxMarked(box, s, p) ==
    LET boxes == box.trafs[s.traf].cenc
        b == ValueOf(boxes, {})
        given == ValueOf(p.given.senc, Silent)
    IN  IF boxes = {} THEN given.iv = 0 /\ given.subs = 0
        ELSE /\ p.given.senc # {}
             /\ b.saizCount = Len(ValueOf(box.trafs[s.traf].trun, {}).rows)
             /\ b.senc[s.nth] = [of |-> p.id, iv |-> given.iv, subs |-> given.subs]
             /\ SaizSize(b, s.nth) = AuxSize(b.senc, s.nth)
             /\ CellAt(b, s.nth) = RecordAt(b, SencStart(box, s.traf), s.nth)
Marked(box, s, p) ==
    /\ AuxMarked(box, s, p)
    /\ ReadGroup(box.trafs[s.traf].groups, s.nth) = p.given.seig

(* Each traf starts where the ones before it end.                          *)
LEMMA TrafSits ==
    ASSUME NEW b, BatchTyped(b.pending, b.senc, b.seig), MoofHead \in Nat,
           NEW n \in 1..Len(Contributing(b))
    PROVE  LET f == BuildMoof(b).trafs
           IN  \E off : f[n] = BuildTraf(b, Contributing(b)[n],
                                         MoofHead + SumOf(SubSeq(f, 1, n - 1), TrafBytes), off)
  <1> DEFINE r == Contributing(b)
             f == BuildMoof(b).trafs
             start == BuildMoof(b).size + 8
             W == Weights(b)
             before(k) == Total(SubSeq(W, 1, k - 1))
             at(k) == IF k = 1 THEN MoofHead ELSE f[k - 1].at + TrafBytes(f[k - 1])
  <1>1. IsTrafs(b, start, f, Len(r))
    BY MoofIs
  <1>2. (\E S : f \in Seq(S)) /\ Len(f) = Len(r)
    BY BatchTrafs
  <1> HIDE DEF f, start
  <1>3. /\ DOMAIN f = 1..Len(r)
        /\ \A k \in DOMAIN f : f[k] = TrafAfter(b, start, f, k)
        /\ \A k \in DOMAIN f : TrafBytes(f[k]) = Weight(b, r[k])
    <2>1. /\ DOMAIN f = 1..Len(Contributing(b)) /\ f = [k \in DOMAIN f |-> f[k]]
          /\ \A k \in DOMAIN f : f[k] = TrafAfter(b, start, f, k)
          /\ \A k \in DOMAIN f : TrafBytes(f[k]) = Weight(b, Contributing(b)[k])
          /\ SumOf(f, TrafBytes) = Total(Weights(b))
      BY <1>1, TrafsWeigh
    <2> QED
      BY <2>1
  <1>4. /\ W \in Seq(Nat) /\ Len(W) = Len(r) /\ Len(r) \in Nat
        /\ \A k \in 1..Len(r) : W[k] = Weight(b, r[k])
    <2>1. W \in Seq(Nat) /\ Len(W) = Len(r)
      BY WeightsTyped
    <2>2. \A k \in 1..Len(r) : W[k] = Weight(b, r[k])
      BY DEF Weights
    <2> HIDE DEF r, W
    <2> QED
      BY <2>1, <2>2
  <1> HIDE DEF W
  <1>5. \A k \in 1..Len(r) : f[k] = BuildTraf(b, r[k], at(k), start + DataBefore(b, k))
    BY <1>3 DEF TrafAfter
  <1>6. \A k \in 1..Len(r) : f[k].at = at(k)
    <2> SUFFICES ASSUME NEW k \in 1..Len(r) PROVE f[k].at = at(k)
      OBVIOUS
    <2> DEFINE a == at(k)
               o == start + DataBefore(b, k)
    <2>1. f[k] = BuildTraf(b, r[k], a, o)
      BY <1>5
    <2> HIDE DEF a, o
    <2>2. f[k].at = a
      BY <2>1, TrafIs
    <2> QED
      BY <2>2 DEF a
  <1>7. \A k \in 1..Len(r) : at(k) = MoofHead + before(k)
    <2> DEFINE N == {k \in Nat : k + 1 \in 1..Len(r) => at(k + 1) = MoofHead + before(k + 1)}
    <2>1. 0 \in N
      <3>1. SubSeq(W, 1, 0) = <<>> /\ 0 + 1 = 1 /\ 1 - 1 = 0
        BY <1>4
      <3>2. before(1) = 0
        BY <3>1, TotalEmpty
      <3>3. at(1) = MoofHead
        OBVIOUS
      <3> HIDE DEF before, at
      <3> QED
        BY <3>1, <3>2, <3>3
    <2>2. ASSUME NEW k \in Nat, k \in N PROVE k + 1 \in N
      <3> SUFFICES ASSUME k + 1 + 1 \in 1..Len(r)
                   PROVE  at(k + 1 + 1) = MoofHead + before(k + 1 + 1)
        OBVIOUS
      <3>1. /\ k + 1 \in 1..Len(r) /\ k + 1 + 1 # 1 /\ k + 1 + 1 - 1 = k + 1
            /\ k + 1 \in 1..Len(W) /\ k + 1 - 1 = k /\ W \in Seq(Int)
        BY <1>4
      <3>2. at(k + 1) = MoofHead + before(k + 1)
        BY <2>2, <3>1
      <3>3. before(k + 1 + 1) = before(k + 1) + W[k + 1] /\ before(k + 1) \in Int
        BY <3>1, TotalPrefix
      <3>4. at(k + 1 + 1) = f[k + 1].at + TrafBytes(f[k + 1])
        BY <3>1
      <3>5. TrafBytes(f[k + 1]) = W[k + 1] /\ W[k + 1] \in Nat /\ f[k + 1].at = at(k + 1)
        <4>1. k + 1 \in DOMAIN f
          BY <1>3, <3>1
        <4>2. TrafBytes(f[k + 1]) = Weight(b, r[k + 1])
          BY <1>3, <4>1
        <4>3. W[k + 1] = Weight(b, r[k + 1]) /\ W[k + 1] \in Nat
          BY <1>4, <3>1
        <4>4. f[k + 1].at = at(k + 1)
          BY <1>6, <3>1
        <4> QED
          BY <4>2, <4>3, <4>4
      <3> HIDE DEF at, before
      <3> QED
        BY <3>2, <3>3, <3>4, <3>5
    <2>3. Nat \subseteq N
      <3> HIDE DEF N
      <3> QED
        BY <2>1, <2>2, NumberInduction
    <2> SUFFICES ASSUME NEW k \in 1..Len(r) PROVE at(k) = MoofHead + before(k)
      OBVIOUS
    <2>4. k - 1 \in Nat /\ k - 1 + 1 = k
      BY <1>4
    <2> HIDE DEF at, before
    <2>5. k - 1 \in N
      BY <2>3, <2>4
    <2> QED
      BY <2>4, <2>5
  <1>8. SumOf(SubSeq(f, 1, n - 1), TrafBytes) = before(n)
    <2> DEFINE a == SubSeq(f, 1, n - 1)
               c == SubSeq(W, 1, n - 1)
    <2>1. n - 1 \in 0..Len(f) /\ n - 1 \in 0..Len(W)
      BY <1>2, <1>4
    <2>2. DOMAIN a = 1..(n - 1) /\ \A k \in 1..(n - 1) : a[k] = f[k]
      <3>1. PICK S : f \in Seq(S)
        BY <1>2
      <3>2. a \in Seq(S) /\ Len(a) = n - 1 /\ \A k \in 1..(n - 1) : a[k] = f[k]
        BY <2>1, <3>1, PrefixIs
      <3> HIDE DEF a
      <3> QED
        BY <3>2
    <2>3. c \in Seq(Nat) /\ Len(c) = n - 1 /\ \A k \in 1..(n - 1) : c[k] = W[k]
      BY <1>4, <2>1, PrefixIs
    <2> HIDE DEF a, c
    <2>4. \A k \in 1..(n - 1) : TrafBytes(a[k]) = c[k]
      <3>1. \A k \in 1..(n - 1) : k \in 1..Len(r)
        BY <1>4
      <3> QED
        BY <1>3, <1>4, <2>2, <2>3, <3>1
    <2>5. [k \in DOMAIN a |-> TrafBytes(a[k])] = c
      BY <2>2, <2>3, <2>4
    <2> QED
      BY <2>5 DEF SumOf, a, c
  <1>9. f[n] = BuildTraf(b, r[n], MoofHead + SumOf(SubSeq(f, 1, n - 1), TrafBytes),
                         start + DataBefore(b, n))
    <2> HIDE DEF at, before
    <2>1. at(n) = MoofHead + SumOf(SubSeq(f, 1, n - 1), TrafBytes)
      BY <1>7, <1>8
    <2> QED
      BY <1>5, <2>1
  <1> QED
    BY <1>9 DEF f

(* The records of a run are those its samples came with.                   *)
LEMMA AuxGiven ==
    ASSUME NEW t, NEW q \in Seq(Sample), NEW aux \in Seq(AuxRecord), NEW seig,
           TrackInStep(q, aux, seig), Given(t, q, aux), NEW k \in 1..Len(q)
    PROVE  LET given == ValueOf(q[k].given.senc, Silent)
           IN  /\ AuxOmitted(aux) => given.iv = 0 /\ given.subs = 0
               /\ ~AuxOmitted(aux) =>
                    /\ Len(aux) = Len(q) /\ q[k].given.senc # {}
                    /\ aux[k] = [of |-> q[k].id, iv |-> given.iv, subs |-> given.subs]
  <1> DEFINE given == ValueOf(q[k].given.senc, Silent)
             e == <<>>
  <1>0. Silent.iv = 0 /\ Silent.subs = 0
    BY DEF Silent
  <1>1. /\ aux # e => Len(aux) = Len(q)
        /\ \A i \in DOMAIN aux : aux[i].of = q[i].id
        /\ aux = e => q[k].given.senc = {}
        /\ \A i \in 1..Len(aux) : Says(t, q[i], aux[i])
    BY DEF TrackInStep, Given
  <1>2. CASE aux = e
    <2>1. given = Silent
      BY <1>1, <1>2, ValueOfSome
    <2>2. AuxOmitted(aux)
      BY <1>2 DEF AuxOmitted
    <2> QED
      BY <1>0, <2>1, <2>2
  <1>3. CASE aux # e
    <2>1. Len(aux) = Len(q) /\ k \in 1..Len(aux) /\ 1 \in 1..Len(aux) /\ k \in DOMAIN aux
      BY <1>1, <1>3
    <2>2. Says(t, q[k], aux[k]) /\ Says(t, q[1], aux[1]) /\ aux[k].of = q[k].id
      BY <1>1, <2>1
    <2>3. /\ q[k].given.senc # {} /\ aux[k].iv = given.iv /\ aux[k].subs = given.subs
          /\ aux[k].iv = aux[1].iv
      BY <2>2 DEF Says
    <2>4. aux[k] \in AuxRecord
      BY <2>1
    <2> HIDE DEF given
    <2>5. aux[k] = [of |-> q[k].id, iv |-> given.iv, subs |-> given.subs]
      BY <2>2, <2>3, <2>4 DEF AuxRecord
    <2>6. CASE AuxOmitted(aux)
      <3>1. aux[1].iv = 0 /\ ~AnySubsamples(aux)
        BY <1>3, <2>6 DEF AuxOmitted
      <3>2. ~(aux[k].subs > 0) /\ aux[k].subs \in Nat
        BY <2>1, <2>4, <3>1 DEF AnySubsamples, AuxRecord
      <3>3. given.iv = 0 /\ given.subs = 0
        BY <2>3, <3>1, <3>2
      <3> QED
        BY <2>6, <3>3 DEF given
    <2>7. CASE ~AuxOmitted(aux)
      BY <2>1, <2>3, <2>5, <2>7 DEF given
    <2> QED
      BY <2>6, <2>7
  <1> QED
    BY <1>2, <1>3

LEMMA GroupsGiven ==
    ASSUME NEW t, NEW q \in Seq(Sample), NEW aux \in Seq(AuxRecord),
           NEW seig \in Seq(SUBSET SeigGiven),
           TrackInStep(q, aux, seig), Given(t, q, aux), NEW k \in 1..Len(q)
    PROVE  ReadGroup(SeigGroups(seig), k) = q[k].given.seig
  <1> DEFINE e == <<>>
  <1>1. /\ Len(seig) = Len(aux) /\ aux # e => Len(aux) = Len(q)
        /\ \A i \in DOMAIN aux : seig[i] = q[i].given.seig
        /\ aux = e => q[k].given.seig = {}
        /\ \A i \in 1..Len(q) : \A x, y \in q[i].given.seig : x = y
    BY DEF TrackInStep, Given
  <1>2. Len(aux) = Len(seig)
    BY DEF TrackInStep
  <1>3. CASE aux = e
    <2>1. \A i \in DOMAIN seig : seig[i] = {}
      BY <1>2, <1>3
    <2>2. SeigGroups(seig) = {}
      BY <2>1, SeigGroupIs
    <2> QED
      BY <1>1, <1>3, <2>2 DEF ReadGroup
  <1>4. CASE aux # e
    <2>1. Len(aux) = Len(q)
      BY <1>4 DEF TrackInStep
    <2>2. k \in 1..Len(seig) /\ \A i \in 1..Len(seig) : i \in 1..Len(q) /\ i \in DOMAIN aux
      BY <1>2, <2>1
    <2>3. \A i \in 1..Len(seig) : seig[i] = q[i].given.seig
      BY <1>1, <2>2
    <2>4. \A i \in 1..Len(seig) : \A x, y \in seig[i] : x = y
      BY <1>1, <2>2, <2>3
    <2>5. ReadGroup(SeigGroups(seig), k) = seig[k]
      BY <2>2, <2>4, GroupsRead
    <2> QED
      BY <2>2, <2>3, <2>5
  <1> QED
    BY <1>3, <1>4

LEMMA BatchMarked ==
    ASSUME NEW b, BatchInv(b), MoofHead \in Nat,
           NEW n \in 1..Len(Contributing(b)),
           NEW k \in 1..Len(b.pending[Contributing(b)[n]]), NEW s, s.traf = n, s.nth = k
    PROVE  Marked(BuildMoof(b), s, b.pending[Contributing(b)[n]][k])
  <1> DEFINE box == BuildMoof(b)
             f == box.trafs
             t == Contributing(b)[n]
             q == b.pending[t]
             aux == b.senc[t]
             seig == b.seig[t]
             tfhd == BuildTfhd(t, q)
             here == MoofHead + SumOf(SubSeq(f, 1, n - 1), TrafBytes)
             at == here + 8 + TfhdBytes(tfhd) + 20
             boxes == CencBoxes(aux, at)
             p == q[k]
             given == ValueOf(p.given.senc, Silent)
  <1>1. BatchTyped(b.pending, b.senc, b.seig)
    BY DEF BatchInv
  <1>2. t \in Track
    BY ContributingIs
  <1>3. /\ q \in Seq(Sample) /\ aux \in Seq(AuxRecord) /\ seig \in Seq(SUBSET SeigGiven)
        /\ TrackInStep(q, aux, seig) /\ Given(t, q, aux) /\ k \in 1..Len(q)
    <2> HIDE DEF t
    <2>1. /\ q \in Seq(Sample) /\ aux \in Seq(AuxRecord) /\ seig \in Seq(SUBSET SeigGiven)
      BY <1>1, <1>2 DEF BatchTyped
    <2>2. TrackInStep(q, aux, seig)
      BY <1>2 DEF BatchInv, InStep
    <2>3. Given(t, q, aux)
      BY <1>2 DEF BatchInv, Annotated
    <2>4. k \in 1..Len(q)
      BY DEF t
    <2> QED
      BY <2>1, <2>2, <2>3, <2>4
  <1>4. PICK off : f[n] = BuildTraf(b, t, here, off)
    BY <1>1, TrafSits
  <1>5. box.pssh = pendingMoofPssh
    BY MoofIs
  <1> DEFINE traf == f[n]
             rows == ValueOf(traf.trun, {}).rows
  <1> HIDE DEF t, here, f, q, aux, seig
  <1>6. /\ traf.tfhd = tfhd /\ traf.cenc = boxes /\ traf.groups = SeigGroups(seig)
        /\ ValueOf(traf.trun, {}) = BuildTrun(q, off)
    <2> HIDE DEF traf
    <2>1. traf = BuildTraf(b, t, here, off)
      BY <1>4 DEF traf
    <2> QED
      BY <2>1, TrafIs DEF q, aux, seig
  <1>7. Len(rows) = Len(q)
    <2>1. DOMAIN BuildTrun(q, off).rows = DOMAIN q
      BY DEF BuildTrun, TrunWith
    <2>2. BuildTrun(q, off).rows = [i \in 1..Len(q) |-> BuildTrun(q, off).rows[i]]
      BY <1>3 DEF BuildTrun, TrunWith
    <2>3. Len(q) \in Nat
      BY <1>3
    <2> QED
      BY <1>6, <2>2, <2>3
  <1>8. SencStart(box, n) = at
    BY <1>5, <1>6 DEF SencStart, MoofHead, here, f
  <1>9. /\ AuxOmitted(aux) => given.iv = 0 /\ given.subs = 0
        /\ ~AuxOmitted(aux) =>
             /\ Len(aux) = Len(q) /\ p.given.senc # {}
             /\ aux[k] = [of |-> p.id, iv |-> given.iv, subs |-> given.subs]
    BY <1>3, AuxGiven
  <1>10. boxes = {} <=> AuxOmitted(aux)
    BY CencBoxIs
  <1> HIDE DEF at, given, p
  <1>11. AuxMarked(box, s, p)
    <2> DEFINE c == ValueOf(boxes, {})
    <2>1. CASE AuxOmitted(aux)
      BY <1>6, <1>9, <1>10, <2>1 DEF AuxMarked, given, f
    <2>2. CASE ~AuxOmitted(aux)
      <3>1. c = CencBox(aux, at)
        BY <1>10, <2>2, CencBoxIs
      <3>2. k \in 1..Len(aux)
        BY <1>3, <1>9, <2>2
      <3>3. \A x \in AuxRecord : IsAux(x)
        BY DEF IsAux, AuxRecord
      <3>4. /\ CencBox(aux, at).senc = aux /\ CencBox(aux, at).saizCount = Len(aux)
            /\ SaizSize(CencBox(aux, at), k) = AuxSize(aux, k)
            /\ CellAt(CencBox(aux, at), k) = RecordAt(CencBox(aux, at), at, k)
        BY <1>3, <2>2, <3>2, <3>3, CencReads
      <3> HIDE DEF c
      <3>5. /\ c.senc = aux /\ c.saizCount = Len(rows)
            /\ SaizSize(c, k) = AuxSize(c.senc, k)
            /\ CellAt(c, k) = RecordAt(c, SencStart(box, n), k)
        BY <1>7, <1>8, <1>9, <2>2, <3>1, <3>4
      <3>6. ValueOf(box.trafs[s.traf].cenc, {}) = c /\ box.trafs[s.traf].cenc # {}
        BY <1>6, <1>10, <2>2 DEF c, f
      <3>7. rows = ValueOf(box.trafs[s.traf].trun, {}).rows
        BY DEF f
      <3>8. p.given.senc # {} /\ aux[k] = [of |-> p.id, iv |-> given.iv, subs |-> given.subs]
        BY <1>9, <2>2
      <3> HIDE DEF rows, box
      <3> QED
        BY <3>5, <3>6, <3>7, <3>8 DEF AuxMarked, given
    <2> QED
      BY <2>1, <2>2
  <1>12. ReadGroup(box.trafs[s.traf].groups, s.nth) = p.given.seig
    <2>1. ReadGroup(SeigGroups(seig), k) = q[k].given.seig
      BY <1>3, GroupsGiven
    <2> QED
      BY <1>6, <2>1 DEF f, p
  <1> QED
    BY <1>11, <1>12 DEF Marked, p, q, t

(***************************************************************************)
(* What the demuxer lists of the moof of a batch: one row for each sample, *)
(* in the order of the mdat.                                               *)
(***************************************************************************)
Found == [track : Track, moof : Nat, traf : Nat, nth : Nat, offset : Nat, size : Nat,
          dts : Nat, duration : Nat, key : BOOLEAN, cts : Int]
RunOf(b, n) == b.pending[Contributing(b)[n]]
RowAt(b, M, base, n, k) ==
    [track |-> Contributing(b)[n], moof |-> M, traf |-> n, nth |-> k,
     offset |-> base + (BuildMoof(b).size + 8 + DataBefore(b, n))
                  + Bytes(SubSeq(RunOf(b, n), 1, k - 1)),
     size |-> RunOf(b, n)[k].size,
     dts |-> nextBmdt[Contributing(b)[n]] + Ticks(SubSeq(RunOf(b, n), 1, k - 1)),
     duration |-> RunOf(b, n)[k].duration,
     key |-> RunOf(b, n)[k].key, cts |-> RunOf(b, n)[k].cts]

LEMMA RunOfIs ==
    ASSUME NEW b, BatchTyped(b.pending, b.senc, b.seig), NEW n \in 1..Len(Contributing(b))
    PROVE  /\ Contributing(b)[n] \in Track /\ RunOf(b, n) \in Seq(Sample)
           /\ DOMAIN RunOf(b, n) = 1..Len(RunOf(b, n)) /\ Timed(RunOf(b, n))
  <1> DEFINE t == Contributing(b)[n]
  <1>1. t \in Track
    BY ContributingIs
  <1>2. RunOf(b, n) = b.pending[t]
    BY DEF RunOf
  <1> HIDE DEF t
  <1>3. b.pending[t] \in Seq(Sample) /\ Timed(b.pending[t])
    BY <1>1, TaggedTyped DEF BatchTyped
  <1> QED
    BY <1>1, <1>2, <1>3 DEF t

LEMMA RowTyped ==
    ASSUME FileInv, NEW b, BatchTyped(b.pending, b.senc, b.seig), NEW M \in Nat,
           NEW base \in Nat, NEW n \in 1..Len(Contributing(b)), NEW k \in 1..Len(RunOf(b, n))
    PROVE  RowAt(b, M, base, n, k) \in Found
  <1> DEFINE t == Contributing(b)[n]
             q == RunOf(b, n)
             x == q[k]
             size == BuildMoof(b).size
             before == DataBefore(b, n)
             bytes == Bytes(SubSeq(q, 1, k - 1))
             ticks == Ticks(SubSeq(q, 1, k - 1))
             start == nextBmdt[t]
  <1>1. t \in Track /\ q \in Seq(Sample) /\ Timed(q) /\ Len(q) \in Nat
    BY RunOfIs
  <1>2. size \in Nat
    BY BoxesSized DEF FileInv
  <1>3. before \in Nat
    <2>1. n \in 1..(Len(Contributing(b)) + 1)
      OBVIOUS
    <2> QED
      BY <2>1, DataBeforeIs
  <1> HIDE DEF q
  <1>4. bytes \in Nat /\ ticks \in Nat
    <2>1. k - 1 \in 0..Len(q)
      BY <1>1 DEF q
    <2> QED
      BY <1>1, <2>1, TimedSums
  <1>5. x \in Sample
    BY <1>1 DEF q
  <1>6. start \in Nat
    BY <1>1 DEF FileInv
  <1>7. n \in Nat /\ k \in Nat
    OBVIOUS
  <1>8. x.size \in Nat /\ x.duration \in Nat /\ x.key \in BOOLEAN /\ x.cts \in Int
    BY <1>5 DEF Sample
  <1>9. RowAt(b, M, base, n, k)
          = [track |-> t, moof |-> M, traf |-> n, nth |-> k,
             offset |-> base + (size + 8 + before) + bytes, size |-> x.size,
             dts |-> start + ticks, duration |-> x.duration, key |-> x.key, cts |-> x.cts]
    BY DEF RowAt, q
  <1> HIDE DEF t, x, size, before, bytes, ticks, start
  <1>10. base + (size + 8 + before) + bytes \in Nat /\ start + ticks \in Nat
    BY <1>2, <1>3, <1>4, <1>6
  <1> QED
    BY <1>1, <1>7, <1>8, <1>9, <1>10 DEF Found

LEMMA TrafRows ==
    ASSUME FileInv, NEW b, BatchTyped(b.pending, b.senc, b.seig), NEW h, NEW M \in Nat,
           h[M] = BuildMoof(b), Position(h, M) \in Nat,
           NEW n \in 1..Len(Contributing(b))
    PROVE  /\ TrafSamples(h, M, n) \in Seq(Found)
           /\ Len(TrafSamples(h, M, n)) = Len(RunOf(b, n))
           /\ \A k \in 1..Len(RunOf(b, n)) :
                TrafSamples(h, M, n)[k] = RowAt(b, M, Position(h, M), n, k)
  <1> DEFINE t == Contributing(b)[n]
             q == b.pending[t]
             base == Position(h, M)
             off == BuildMoof(b).size + 8 + DataBefore(b, n)
             traf == BuildMoof(b).trafs[n]
             run == ReadRun(BuildTfhd(t, q), BuildTrun(q, off), Trex, base, nextBmdt[t])
             rows == TrafSamples(h, M, n)
  <1>1. PICK at : traf = BuildTraf(b, t, at, off)
    BY BatchTrafs
  <1>2. q \in Seq(Sample) /\ Len(q) \in Nat /\ DOMAIN q = 1..Len(q) /\ q = RunOf(b, n)
        /\ Timed(q)
    <2>1. RunOf(b, n) = q
      BY DEF RunOf
    <2> QED
      BY <2>1, RunOfIs
  <1>3. /\ traf.tfhd = BuildTfhd(t, q) /\ traf.tfhd.track = t /\ ~traf.tfhd.empty
        /\ ValueOf(traf.trun, {}) = BuildTrun(q, off) /\ traf.bmdt = nextBmdt[t]
    <2> HIDE DEF traf, off
    <2> QED
      BY <1>1, TrafIs
  <1>4. h[M].trafs[n] = traf
    OBVIOUS
  <1> HIDE DEF traf, t, off
  <1>5. rows = [k \in DOMAIN run |->
                  [track |-> t, moof |-> M, traf |-> n, nth |-> k,
                   offset |-> run[k].offset, size |-> run[k].size,
                   dts |-> run[k].dts, duration |-> run[k].duration,
                   key |-> run[k].key, cts |-> run[k].cts]]
    <2>1. ReadRun(traf.tfhd, ValueOf(traf.trun, {}), Trex, Position(h, M), traf.bmdt) = run
      BY <1>3
    <2> HIDE DEF run
    <2> QED
      BY <1>3, <1>4, <2>1 DEF TrafSamples
  <1>6. /\ DOMAIN run = DOMAIN q
        /\ \A k \in DOMAIN q :
             run[k] = [offset   |-> base + off + Bytes(SubSeq(q, 1, k - 1)),
                       dts      |-> nextBmdt[t] + Ticks(SubSeq(q, 1, k - 1)),
                       duration |-> q[k].duration, size |-> q[k].size,
                       key      |-> q[k].key, cts |-> q[k].cts]
    BY <1>2, RunTicks
  <1> HIDE DEF run, q
  <1>7. rows = [k \in 1..Len(q) |-> rows[k]] /\ DOMAIN rows = 1..Len(q)
    BY <1>2, <1>5, <1>6
  <1>8. ASSUME NEW k \in 1..Len(q)
        PROVE  rows[k] = RowAt(b, M, base, n, k)
    <2> DEFINE o == base + off + Bytes(SubSeq(q, 1, k - 1))
               d == nextBmdt[t] + Ticks(SubSeq(q, 1, k - 1))
               x == q[k]
    <2>1. rows[k] = [track |-> t, moof |-> M, traf |-> n, nth |-> k,
                     offset |-> run[k].offset, size |-> run[k].size,
                     dts |-> run[k].dts, duration |-> run[k].duration,
                     key |-> run[k].key, cts |-> run[k].cts]
      BY <1>2, <1>5, <1>6
    <2>2. run[k] = [offset |-> o, dts |-> d, duration |-> x.duration, size |-> x.size,
                    key |-> x.key, cts |-> x.cts]
      BY <1>2, <1>6
    <2>3. RowAt(b, M, base, n, k)
            = [track |-> t, moof |-> M, traf |-> n, nth |-> k, offset |-> o,
               size |-> x.size, dts |-> d, duration |-> x.duration,
               key |-> x.key, cts |-> x.cts]
      BY <1>2 DEF RowAt, t, off
    <2> HIDE DEF o, d, x
    <2> QED
      BY <2>1, <2>2, <2>3
  <1>9. \A k \in 1..Len(q) : rows[k] \in Found
    BY <1>2, <1>8, RowTyped
  <1> HIDE DEF rows, base
  <1>10. rows \in Seq(Found) /\ Len(rows) = Len(q)
    BY <1>2, <1>7, <1>9
  <1> QED
    BY <1>2, <1>8, <1>10 DEF rows, base, q
(* The rows of a traf rise with the bytes of its run.                      *)
LEMMA TrafRising ==
    ASSUME FileInv, NEW b, BatchTyped(b.pending, b.senc, b.seig), NEW h, NEW M \in Nat,
           h[M] = BuildMoof(b), Position(h, M) \in Nat,
           NEW n \in 1..Len(Contributing(b)), NEW lo \in Nat,
           lo = Position(h, M) + (BuildMoof(b).size + 8 + DataBefore(b, n))
    PROVE  Rising(TrafSamples(h, M, n), lo, lo + Bytes(RunOf(b, n)))
  <1> DEFINE q == RunOf(b, n)
             rows == TrafSamples(h, M, n)
             upto(k) == Bytes(SubSeq(q, 1, k))
  <1>1. q \in Seq(Sample) /\ Timed(q) /\ Len(q) \in Nat
    BY RunOfIs
  <1>2. /\ Len(rows) = Len(q)
        /\ \A k \in 1..Len(q) : rows[k].offset = lo + upto(k - 1)
    <2>1. /\ Len(rows) = Len(q)
          /\ \A k \in 1..Len(q) : rows[k] = RowAt(b, M, Position(h, M), n, k)
      BY TrafRows
    <2> HIDE DEF rows
    <2>2. \A k \in 1..Len(q) : RowAt(b, M, Position(h, M), n, k).offset = lo + upto(k - 1)
      BY DEF RowAt
    <2> QED
      BY <2>1, <2>2
  <1> HIDE DEF q, rows
  <1>3. /\ \A k \in 0..Len(q) : upto(k) \in Nat
        /\ \A k \in 1..Len(q) : \A j \in 0..(k - 1) : upto(j) + q[k].size <= upto(k)
    BY <1>1, TimedSums
  <1>4. \A k \in 1..Len(q) : q[k].size \in Nat
    BY <1>1 DEF Timed
  <1>5. upto(Len(q)) = Bytes(q) /\ Bytes(q) \in Nat
    <2>1. Len(q) \in 0..Len(q)
      BY <1>1
    <2>2. SubSeq(q, 1, Len(q)) = q
      BY <1>1, <2>1, PrefixIs
    <2> QED
      BY <1>3, <2>1, <2>2
  <1> HIDE DEF upto
  <1>6. ASSUME NEW k \in 0..Len(q), NEW j \in 0..k PROVE upto(j) <= upto(k)
    <2>1. CASE j = k
      <3>1. upto(k) \in Nat
        BY <1>3
      <3> QED
        BY <2>1, <3>1
    <2>2. CASE j # k
      <3>1. k \in 1..Len(q) /\ j \in 0..(k - 1) /\ j \in 0..Len(q)
        BY <1>1, <2>2
      <3>2. upto(j) + q[k].size <= upto(k)
        BY <1>3, <3>1
      <3>3. upto(j) \in Nat /\ upto(k) \in Nat /\ q[k].size \in Nat
        BY <1>3, <1>4, <3>1
      <3> QED
        BY <3>2, <3>3
    <2> QED
      BY <2>1, <2>2
  <1>7. ASSUME NEW k \in 1..Len(rows)
        PROVE  rows[k].offset \in Nat /\ lo <= rows[k].offset
               /\ rows[k].offset <= lo + Bytes(q)
    <2>1. k \in 1..Len(q) /\ k - 1 \in 0..Len(q) /\ Len(q) \in 0..Len(q)
          /\ k - 1 \in 0..Len(q)
      BY <1>1, <1>2
    <2>2. rows[k].offset = lo + upto(k - 1) /\ upto(k - 1) \in Nat
      BY <1>2, <1>3, <2>1
    <2>3. upto(k - 1) <= upto(Len(q))
      BY <1>6, <2>1
    <2> QED
      BY <1>5, <2>2, <2>3, SMTT(30), ZenonT(60)
  <1>8. ASSUME NEW j \in 1..Len(rows), NEW k \in 1..Len(rows), j < k
        PROVE  rows[j].offset <= rows[k].offset
    <2>1. j \in 1..Len(q) /\ k \in 1..Len(q) /\ k - 1 \in 0..Len(q) /\ j - 1 \in 0..(k - 1)
          /\ j - 1 \in 0..Len(q)
      BY <1>1, <1>2, <1>8
    <2>2. rows[j].offset = lo + upto(j - 1) /\ rows[k].offset = lo + upto(k - 1)
      BY <1>2, <2>1
    <2>3. upto(j - 1) <= upto(k - 1) /\ upto(j - 1) \in Nat /\ upto(k - 1) \in Nat
      BY <1>3, <1>6, <2>1
    <2> QED
      BY <2>2, <2>3
  <1>9. Rising(rows, lo, lo + Bytes(q))
    BY <1>7, <1>8 DEF Rising
  <1> QED
    BY <1>9 DEF rows, q

(* The rows of the whole moof, and a track's rows among them.              *)
LEMMA BatchRows ==
    ASSUME FileInv, NEW b, BatchTyped(b.pending, b.senc, b.seig), NEW h, NEW M \in Nat,
           h[M] = BuildMoof(b), Position(h, M) \in Nat
    PROVE  LET rows == MoofSamples(h, M)
               start == Position(h, M) + BuildMoof(b).size
           IN  /\ rows \in Seq(Found)
               /\ Rising(rows, start, start + BuildMdat(b).size)
               /\ \A t \in Track : b.pending[t] = <<>> => OfTrack(rows, t) = <<>>
               /\ \A n \in 1..Len(Contributing(b)) :
                    OfTrack(rows, Contributing(b)[n]) = TrafSamples(h, M, n)
  <1> DEFINE r == Contributing(b)
             base == Position(h, M)
             size == BuildMoof(b).size
             ss == [n \in DOMAIN BuildMoof(b).trafs |-> TrafSamples(h, M, n)]
             at == [n \in 1..(Len(r) + 1) |-> base + (size + 8 + DataBefore(b, n))]
             rows == MoofSamples(h, M)
             V == Seq(Found)
  <1>1. r \in Seq(Track) /\ Len(r) \in Nat
        /\ (\A n \in 1..Len(r) : b.pending[r[n]] # <<>>)
        /\ \A j, n \in 1..Len(r) : j < n => r[j] < r[n]
    <2>1. /\ r \in Seq(Track)
          /\ (\A n \in 1..Len(r) : b.pending[r[n]] # <<>>)
          /\ \A j, n \in 1..Len(r) : j < n => r[j] < r[n]
      BY ContributingIs
    <2> HIDE DEF r
    <2> QED
      BY <2>1
  <1>2. (\E S : BuildMoof(b).trafs \in Seq(S)) /\ Len(BuildMoof(b).trafs) = Len(r)
    BY BatchTrafs
  <1>3. DOMAIN BuildMoof(b).trafs = 1..Len(r)
    BY <1>2
  <1>4. size \in Nat /\ BuildMdat(b).size = 8 + Bytes(Payload(b)) /\ Bytes(Payload(b)) \in Nat
    BY BoxesSized, MdatIs DEF FileInv
  <1>5. rows = FlattenSeq(ss)
    BY DEF MoofSamples
  <1> HIDE DEF rows
  <1>6. ASSUME NEW n \in 1..Len(r)
        PROVE  /\ ss[n] = TrafSamples(h, M, n)
               /\ ss[n] \in Seq(Found) /\ Len(ss[n]) = Len(RunOf(b, n))
               /\ \A k \in 1..Len(ss[n]) : ss[n][k].track = r[n]
    <2>1. ss[n] = TrafSamples(h, M, n)
      BY <1>3
    <2>2. /\ TrafSamples(h, M, n) \in Seq(Found)
          /\ Len(TrafSamples(h, M, n)) = Len(RunOf(b, n))
          /\ \A k \in 1..Len(RunOf(b, n)) :
               TrafSamples(h, M, n)[k] = RowAt(b, M, base, n, k)
      BY TrafRows
    <2> HIDE DEF ss
    <2>3. \A k \in 1..Len(RunOf(b, n)) : RowAt(b, M, base, n, k).track = r[n]
      BY DEF RowAt
    <2> QED
      BY <2>1, <2>2, <2>3
  <1>7. ss \in Seq(V) /\ Len(ss) = Len(r)
    <2>1. \A n \in 1..Len(r) : ss[n] \in V
      BY <1>6
    <2>2. ss = [n \in 1..Len(r) |-> ss[n]]
      BY <1>3
    <2> HIDE DEF ss, V
    <2> QED
      BY <1>1, <2>1, <2>2
  <1>8. rows \in Seq(Found)
    BY <1>5, <1>7, FlattenTyped
  <1>9. /\ at \in [1..(Len(r) + 1) -> Nat]
        /\ \A n \in 1..Len(r) : at[n + 1] = at[n] + Bytes(RunOf(b, n)) /\ Bytes(RunOf(b, n)) \in Nat
        /\ at[1] = base + size + 8
    <2> DEFINE before(n) == DataBefore(b, n)
    <2>1. /\ before(1) = 0 /\ (\A n \in 1..(Len(r) + 1) : before(n) \in Nat)
          /\ \A n \in 1..Len(r) : before(n + 1) = before(n) + Bytes(b.pending[r[n]])
      BY DataBeforeIs
    <2>2. \A n \in 1..Len(r) : Bytes(b.pending[r[n]]) \in Nat
      <3>1. \A n \in 1..Len(r) : r[n] \in Track
        BY <1>1
      <3> QED
        BY <3>1, TaggedTyped, TimedSums
    <2>3. \A n \in 1..Len(r) : RunOf(b, n) = b.pending[r[n]]
      BY DEF RunOf
    <2> HIDE DEF before, r, base, size
    <2>4. at \in [1..(Len(r) + 1) -> Nat]
      <3>1. \A n \in 1..(Len(r) + 1) : base + (size + 8 + before(n)) \in Nat
        BY <1>4, <2>1 DEF base
      <3> QED
        BY <3>1 DEF before
    <2>5. ASSUME NEW n \in 1..Len(r)
          PROVE  at[n + 1] = at[n] + Bytes(RunOf(b, n)) /\ Bytes(RunOf(b, n)) \in Nat
      <3>1. n \in 1..(Len(r) + 1) /\ n + 1 \in 1..(Len(r) + 1)
        BY <1>1
      <3>2. at[n] = base + (size + 8 + before(n)) /\ at[n + 1] = base + (size + 8 + before(n + 1))
        BY <3>1 DEF before
      <3>3. Bytes(RunOf(b, n)) \in Nat /\ before(n + 1) = before(n) + Bytes(RunOf(b, n))
        BY <2>1, <2>2, <2>3
      <3>4. base \in Nat /\ before(n) \in Nat
        BY <2>1, <3>1 DEF base
      <3> HIDE DEF at
      <3> QED
        BY <1>4, <3>2, <3>3, <3>4
    <2>6. at[1] = base + size + 8
      <3>1. 1 \in 1..(Len(r) + 1)
        BY <1>1
      <3>2. at[1] = base + (size + 8 + before(1))
        BY <3>1 DEF before
      <3>3. base \in Nat
        BY DEF base
      <3> HIDE DEF at
      <3> QED
        BY <1>4, <2>1, <3>2, <3>3
    <2> QED
      BY <2>4, <2>5, <2>6
  <1>10. ASSUME NEW n \in 1..Len(r)
         PROVE  at[n] <= at[n + 1] /\ Rising(ss[n], at[n], at[n + 1])
    <2> DEFINE lo == at[n]
    <2>1. n \in 1..(Len(r) + 1) /\ n + 1 \in 1..(Len(r) + 1)
      BY <1>1
    <2>2. lo \in Nat /\ lo = base + (size + 8 + DataBefore(b, n))
      BY <1>9, <2>1
    <2>3. at[n + 1] = lo + Bytes(RunOf(b, n)) /\ Bytes(RunOf(b, n)) \in Nat
      BY <1>9
    <2>4. ss[n] = TrafSamples(h, M, n)
      BY <1>6
    <2> HIDE DEF lo, ss, at
    <2>5. Rising(TrafSamples(h, M, n), lo, lo + Bytes(RunOf(b, n)))
      BY <2>2, TrafRising
    <2> QED
      BY <2>2, <2>3, <2>4, <2>5 DEF lo
  <1>11. at[Len(r) + 1] = base + size + BuildMdat(b).size
    <2>1. Bytes(Payload(b)) = DataBefore(b, Len(r) + 1)
      <3>1. /\ Parcels(b) \in Seq(Seq(Stock)) /\ Len(Parcels(b)) = Len(r)
            /\ \A i \in 0..Len(r) :
                 Bytes(FlattenSeq(SubSeq(Parcels(b), 1, i))) = DataBefore(b, i + 1)
        BY ParcelBytes
      <3>2. Len(r) \in 0..Len(r) /\ Len(Parcels(b)) \in 0..Len(Parcels(b))
        BY <1>1, <3>1
      <3>3. SubSeq(Parcels(b), 1, Len(Parcels(b))) = Parcels(b)
        BY <3>1, <3>2, PrefixIs
      <3>4. Payload(b) = FlattenSeq(Parcels(b))
        BY DEF Payload, Parcels
      <3> HIDE DEF r
      <3> QED
        BY <3>1, <3>2, <3>3, <3>4
    <2>2. Len(r) + 1 \in 1..(Len(r) + 1)
      BY <1>1
    <2>3. at[Len(r) + 1] = base + (size + 8 + DataBefore(b, Len(r) + 1))
      BY <2>2
    <2>4. base \in Nat
      OBVIOUS
    <2> DEFINE p == Bytes(Payload(b))
               d == DataBefore(b, Len(r) + 1)
               mdat == BuildMdat(b).size
    <2>5. p \in Nat /\ mdat = 8 + p /\ size \in Nat /\ d = p
      BY <1>4, <2>1
    <2>6. at[Len(r) + 1] = base + (size + 8 + d)
      BY <2>3
    <2> HIDE DEF at, base, size, p, d, mdat
    <2>7. at[Len(r) + 1] = base + size + mdat
      BY <2>4, <2>5, <2>6
    <2> QED
      BY <2>7 DEF mdat
  <1>12. Rising(rows, at[1], at[Len(r) + 1])
    <2>1. at \in [1..(Len(ss) + 1) -> Nat] /\ ss \in Seq(Seq(Found))
      BY <1>7, <1>9
    <2>2. \A n \in 1..Len(ss) : at[n] <= at[n + 1] /\ Rising(ss[n], at[n], at[n + 1])
      BY <1>7, <1>10
    <2>3. Len(ss) = Len(r)
      BY <1>7
    <2> HIDE DEF at, ss, r
    <2>4. Rising(FlattenSeq(ss), at[1], at[Len(ss) + 1])
      BY <2>1, <2>2, RisingFlatten
    <2> QED
      BY <1>5, <2>3, <2>4
  <1>13. Rising(rows, base + size, base + size + BuildMdat(b).size)
    <2>1. base + size \in Nat /\ base + size + 8 \in Nat
          /\ base + size + BuildMdat(b).size \in Nat /\ base + size <= base + size + 8
      BY <1>4
    <2>2. Rising(rows, base + size + 8, base + size + BuildMdat(b).size)
      BY <1>9, <1>11, <1>12
    <2>3. base + size + BuildMdat(b).size <= base + size + BuildMdat(b).size
      BY <2>1
    <2> HIDE DEF base, size, at
    <2> QED
      BY <2>1, <2>2, <2>3, RisingWidens
  <1>14. ASSUME NEW t \in Track
         PROVE  LET parts == [n \in DOMAIN ss |-> OfTrack(ss[n], t)]
                IN  /\ parts \in Seq(Seq(Found)) /\ Len(parts) = Len(r)
                    /\ OfTrack(rows, t) = FlattenSeq(parts)
                    /\ \A n \in 1..Len(r) : parts[n] = IF r[n] = t THEN ss[n] ELSE <<>>
    <2> DEFINE parts == [n \in DOMAIN ss |-> OfTrack(ss[n], t)]
    <2>1. parts \in Seq(Seq(Found)) /\ OfTrack(FlattenSeq(ss), t) = FlattenSeq(parts)
      BY <1>7, OfTrackFlatten
    <2>2. DOMAIN ss = 1..Len(r)
      BY <1>3
    <2>3. Len(parts) = Len(r)
      BY <1>1, <2>1, <2>2
    <2>4. ASSUME NEW n \in 1..Len(r) PROVE parts[n] = IF r[n] = t THEN ss[n] ELSE <<>>
      <3> DEFINE s == ss[n]
      <3>1. s \in Seq(Found) /\ \A k \in 1..Len(s) : s[k].track = r[n]
        BY <1>6
      <3>2. parts[n] = OfTrack(s, t)
        BY <2>2
      <3> HIDE DEF s, parts
      <3>3. OfTrack(s, t) = IF r[n] = t THEN s ELSE <<>>
        BY <3>1, OfTrackWhole
      <3> QED
        BY <3>2, <3>3 DEF s
    <2> HIDE DEF parts
    <2> QED
      BY <1>5, <2>1, <2>3, <2>4 DEF parts
  <1> HIDE DEF ss, at
  <1>15. ASSUME NEW t \in Track, b.pending[t] = <<>> PROVE OfTrack(rows, t) = <<>>
    <2>1. \A n \in 1..Len(r) : r[n] # t
      BY <1>1, <1>15
    <2> DEFINE parts == [n \in DOMAIN ss |-> OfTrack(ss[n], t)]
    <2>2. /\ parts \in Seq(Seq(Found)) /\ Len(parts) = Len(r)
          /\ OfTrack(rows, t) = FlattenSeq(parts)
          /\ \A n \in 1..Len(r) : parts[n] = IF r[n] = t THEN ss[n] ELSE <<>>
      BY <1>14
    <2> HIDE DEF parts, r
    <2>3. \A n \in 1..Len(parts) : parts[n] = <<>>
      BY <2>1, <2>2
    <2> QED
      BY <2>2, <2>3, FlattenNone
  <1>16. ASSUME NEW n \in 1..Len(r) PROVE OfTrack(rows, r[n]) = TrafSamples(h, M, n)
    <2> DEFINE t == r[n]
               parts == [i \in DOMAIN ss |-> OfTrack(ss[i], t)]
    <2>1. t \in Track
      BY <1>1
    <2>2. /\ parts \in Seq(Seq(Found)) /\ Len(parts) = Len(r)
          /\ OfTrack(rows, t) = FlattenSeq(parts)
          /\ \A i \in 1..Len(r) : parts[i] = IF r[i] = t THEN ss[i] ELSE <<>>
      BY <1>14, <2>1
    <2>3. \A i \in 1..Len(r) : i # n => r[i] # t
      <3> SUFFICES ASSUME NEW i \in 1..Len(r), i # n, r[i] = r[n] PROVE FALSE
        OBVIOUS
      <3>1. r[i] < r[n] \/ r[n] < r[i]
        <4>1. i < n \/ n < i
          OBVIOUS
        <4> QED
          BY <1>1, <4>1
      <3>2. r[n] \in Nat
        BY <2>1 DEF Track
      <3> HIDE DEF r
      <3> QED
        BY <1>16, <3>1, <3>2
    <2> HIDE DEF parts, r
    <2>4. n \in 1..Len(parts) /\ \A i \in 1..Len(parts) : i # n => parts[i] = <<>>
      BY <1>16, <2>2, <2>3
    <2>5. FlattenSeq(parts) = parts[n]
      BY <2>2, <2>4, FlattenOnly
    <2>6. parts[n] = TrafSamples(h, M, n)
      BY <1>6, <1>16, <2>2
    <2> QED
      BY <2>2, <2>5, <2>6
  <1> QED
    BY <1>8, <1>13, <1>15, <1>16 DEF rows, base, size, r
(***************************************************************************)
(* Every other box of a chunk lists nothing.                               *)
(***************************************************************************)
Mute(box) == \/ box.kind # "moof"
             \/ \E seq, t, start, d : box = GapMoof(seq, t, start, d)

LEMMA MuteRows ==
    ASSUME NEW h, NEW m, Mute(h[m])
    PROVE  Rows(h, m) = <<>>
  <1>1. CASE h[m].kind # "moof"
    BY <1>1 DEF Rows
  <1>2. ASSUME NEW seq, NEW t, NEW start, NEW d, h[m] = GapMoof(seq, t, start, d)
        PROVE  Rows(h, m) = <<>>
    <2> DEFINE box == GapMoof(seq, t, start, d)
               parts == [n \in DOMAIN box.trafs |-> TrafSamples(h, m, n)]
    <2>1. /\ 1 \in 1..Len(box.trafs) /\ \A n \in 1..Len(box.trafs) : n = 1
          /\ box.trafs[1].tfhd = GapTfhd(t, d) /\ \E S : box.trafs \in Seq(S)
      BY GapTraf
    <2>2. box.trafs[1].tfhd.empty
      BY <2>1 DEF GapTfhd
    <2>3. h[m] = box
      BY <1>2
    <2> HIDE DEF box
    <2>4. TrafSamples(h, m, 1) = <<>>
      BY <2>2, <2>3 DEF TrafSamples
    <2>5. DOMAIN box.trafs = 1..Len(box.trafs) /\ Len(box.trafs) \in Nat
      BY <2>1
    <2>6. \A n \in 1..Len(box.trafs) : parts[n] = <<>>
      BY <2>1, <2>4, <2>5
    <2>7. parts \in Seq(Seq(Found)) /\ Len(parts) = Len(box.trafs)
      <3>1. parts = [n \in 1..Len(box.trafs) |-> parts[n]]
        BY <2>5
      <3>2. \A n \in 1..Len(box.trafs) : parts[n] \in Seq(Found)
        <4>1. <<>> \in Seq(Found)
          OBVIOUS
        <4> HIDE DEF parts
        <4> QED
          BY <2>6, <4>1
      <3> DEFINE V == Seq(Found)
      <3>3. \A n \in 1..Len(box.trafs) : parts[n] \in V
        BY <3>2
      <3> HIDE DEF V, parts
      <3>4. parts \in Seq(V) /\ Len(parts) = Len(box.trafs)
        BY <2>5, <3>1, <3>3
      <3> QED
        BY <3>4 DEF V
    <2> HIDE DEF parts
    <2>8. FlattenSeq(parts) = <<>>
      BY <2>6, <2>7, FlattenNone
    <2>9. MoofSamples(h, m) = <<>>
      BY <2>3, <2>8 DEF MoofSamples, parts
    <2> QED
      BY <2>9 DEF Rows
  <1> QED
    BY <1>1, <1>2 DEF Mute

LEMMA ExtraMute ==
    ASSUME FileInv, NEW b, BatchInv(b), NEW extra, NEW bmdt, Ends(b, extra, bmdt)
    PROVE  IsFile(extra) /\ \A k \in 1..Len(extra) : Mute(extra[k])
  <1>1. IsFile(extra)
    BY EndsTyped DEF Only
  <1>2. CASE extra = <<>>
    BY <1>1, <1>2
  <1>3. CASE extra = Index(TfraAfter(b))
    <2>1. Only({"mfra"}, extra)
      BY <1>3, TfraTyped, IndexIs
    <2> QED
      BY <1>1, <2>1 DEF Only, Mute
  <1>4. ASSUME NEW t \in Track, NEW d \in GapDurations, NEW seq,
               extra = <<GapMoof(seq, t, BmdtAfter(b)[t], d)>>
        PROVE  \A k \in 1..Len(extra) : Mute(extra[k])
    <2> DEFINE box == GapMoof(seq, t, BmdtAfter(b)[t], d)
    <2>1. Mute(box)
      BY DEF Mute
    <2> HIDE DEF box
    <2>2. extra = <<box>>
      BY <1>4 DEF box
    <2> QED
      BY <2>1, <2>2
  <1> QED
    BY <1>1, <1>2, <1>3, <1>4 DEF Ends

(* The boxes of a chunk that is not idle.                                  *)
LEMMA ChunkBoxes ==
    ASSUME FileInv, NEW b, BatchInv(b), ~Idle(b), NEW extra, IsFile(extra)
    PROVE  LET g == Chunk(b, extra)
               n == Len(Prelude(b))
           IN  /\ n \in Nat /\ Len(g) = n + 2 + Len(extra)
               /\ \A k \in 1..n : g[k] = Prelude(b)[k] /\ g[k].kind \in PreludeKinds
               /\ g[n + 1] = BuildMoof(b) /\ g[n + 2] = BuildMdat(b)
               /\ \A k \in 1..Len(extra) : g[n + 2 + k] = extra[k]
  <1> DEFINE p == Prelude(b)
             q == Pair(b)
             s == Segment(b)
             n == Len(p)
             g == Chunk(b, extra)
  <1>1. BatchTyped(b.pending, b.senc, b.seig) /\ QueueTypes /\ RequestsInv
    BY DEF BatchInv, FileInv, QueueInv
  <1>2. /\ s = p \o q /\ IsFile(q) /\ IsFile(s) /\ Len(q) = 2
        /\ q[1] = BuildMoof(b) /\ q[2] = BuildMdat(b)
    BY <1>1, SegmentIs DEF Only
  <1>3. IsFile(p) /\ \A k \in 1..n : p[k].kind \in PreludeKinds
    BY <1>1, PreludeIs DEF Only
  <1>4. g = s \o extra
    BY DEF Chunk
  <1> HIDE DEF p, q, s, g
  <1>5. /\ Len(s) = n + 2 /\ \A k \in 1..n : s[k] = p[k]
    <2>1. Len(p \o q) = Len(p) + Len(q) /\ \A k \in 1..Len(p) : (p \o q)[k] = p[k]
      BY <1>2, <1>3, FileConcat, ZenonT(60), SMTT(30)
    <2> QED
      BY <1>2, <2>1
  <1>6. n \in Nat /\ Len(extra) \in Nat
    BY <1>3 DEF IsFile
  <1>7. s[n + 1] = q[1] /\ s[n + 2] = q[2]
    <2>1. PICK S : p \in Seq(S)
      BY <1>3 DEF IsFile
    <2>2. PICK T : q \in Seq(T)
      BY <1>2 DEF IsFile
    <2> DEFINE U == S \cup T
    <2>3. p \in Seq(U) /\ q \in Seq(U)
      BY <2>1, <2>2
    <2> HIDE DEF U
    <2>4. \A k \in 1..Len(q) : (p \o q)[Len(p) + k] = q[k]
      BY <2>3, ConcatProperties
    <2>5. 1 \in 1..Len(q) /\ 2 \in 1..Len(q)
      BY <1>2
    <2> QED
      BY <1>2, <2>4, <2>5
  <1>8. /\ Len(g) = Len(s) + Len(extra) /\ \A k \in 1..Len(s) : g[k] = s[k]
        /\ \A k \in 1..Len(extra) : g[Len(s) + k] = extra[k]
    <2>1. PICK S : s \in Seq(S)
      BY <1>2 DEF IsFile
    <2>2. PICK T : extra \in Seq(T)
      BY DEF IsFile
    <2> DEFINE U == S \cup T
    <2>3. s \in Seq(U) /\ extra \in Seq(U)
      BY <2>1, <2>2
    <2> HIDE DEF U
    <2> QED
      BY <1>4, <2>3, ConcatProperties
  <1> HIDE DEF n
  <1>9. /\ \A k \in 1..n : g[k] = p[k] /\ g[k].kind \in PreludeKinds
        /\ g[n + 1] = BuildMoof(b) /\ g[n + 2] = BuildMdat(b)
    <2>1. (\A k \in 1..n : k \in 1..Len(s)) /\ n + 1 \in 1..Len(s) /\ n + 2 \in 1..Len(s)
      BY <1>5, <1>6
    <2>2. \A k \in 1..n : g[k] = p[k]
      BY <1>5, <1>8, <2>1
    <2>3. g[n + 1] = s[n + 1] /\ g[n + 2] = s[n + 2]
      BY <1>8, <2>1
    <2> QED
      BY <1>2, <1>3, <1>7, <2>2, <2>3 DEF n
  <1>10. Len(g) = n + 2 + Len(extra) /\ \A k \in 1..Len(extra) : g[n + 2 + k] = extra[k]
    BY <1>5, <1>6, <1>8
  <1> QED
    BY <1>6, <1>9, <1>10 DEF n, p, g

LEMMA ChunkRows ==
    ASSUME FileInv, NEW b, BatchInv(b), NEW extra, NEW bmdt, Ends(b, extra, bmdt)
    PROVE  LET g == Chunk(b, extra)
               h == file \o g
               M == Len(file) + (Len(Prelude(b)) + 1)
               new == FlattenSeq([k \in 1..Len(g) |-> Rows(h, Len(file) + k)])
           IN  /\ \A k \in 1..Len(g) : Rows(h, Len(file) + k) \in Seq(Found)
               /\ Idle(b) => new = <<>>
               /\ ~Idle(b) =>
                    /\ M \in Nat /\ M \in 1..Len(h) /\ M + 1 \in 1..Len(h) /\ M > Len(file)
                    /\ h[M] = BuildMoof(b) /\ h[M + 1] = BuildMdat(b)
                    /\ Position(h, M) \in Nat /\ EndOf(file) <= Position(h, M)
                    /\ Position(h, M + 1) = Position(h, M) + BuildMoof(b).size
                    /\ Position(h, M + 1) + BuildMdat(b).size <= EndOf(h)
                    /\ new = MoofSamples(h, M)
  <1> DEFINE g == Chunk(b, extra)
             h == file \o g
             M == Len(file) + (Len(Prelude(b)) + 1)
             rows == [k \in 1..Len(g) |-> Rows(h, Len(file) + k)]
             L == Len(file)
  <1>1. IsFile(extra) /\ \A k \in 1..Len(extra) : Mute(extra[k])
    BY ExtraMute
  <1>2. IsFile(g) /\ IsFile(file)
    BY <1>1, ChunkIs DEF FileInv
  <1>3. L \in Nat /\ Len(g) \in Nat /\ Len(extra) \in Nat
    BY <1>1, <1>2 DEF IsFile
  <1> HIDE DEF g
  <1>4. /\ IsFile(h) /\ Len(h) = L + Len(g)
        /\ \A k \in 1..(L + 1) : Position(h, k) = Position(file, k)
    BY <1>2, FileConcat
  <1>5. \A k \in 1..Len(g) : h[L + k] = g[k]
    <2>1. PICK S : file \in Seq(S)
      BY <1>2 DEF IsFile
    <2>2. PICK T : g \in Seq(T)
      BY <1>2 DEF IsFile
    <2> DEFINE U == S \cup T
    <2>3. file \in Seq(U) /\ g \in Seq(U)
      BY <2>1, <2>2
    <2> HIDE DEF U
    <2> QED
      BY <2>3, ConcatProperties
  <1> HIDE DEF h
  <1>6. ASSUME NEW k \in 1..Len(g), Mute(g[k]) PROVE rows[k] = <<>>
    <2>1. Mute(h[L + k])
      BY <1>5, <1>6
    <2> QED
      BY <2>1, MuteRows
  <1> DEFINE V == Seq(Found)
  <1>7. <<>> \in V
    OBVIOUS
  <1>8. ASSUME NEW k \in 1..Len(g) PROVE rows[k] = Rows(h, L + k)
    OBVIOUS
  <1>9. DOMAIN rows = 1..Len(g) /\ rows = [k \in 1..Len(g) |-> rows[k]]
    OBVIOUS
  <1> HIDE DEF rows, V
  <1>10. CASE Idle(b)
    <2>1. g = extra
      BY <1>10 DEF g, Chunk
    <2>2. \A k \in 1..Len(g) : rows[k] = <<>>
      BY <1>1, <1>6, <2>1
    <2>3. \A k \in 1..Len(g) : rows[k] \in V
      BY <1>7, <2>2
    <2>4. rows \in Seq(V) /\ Len(rows) = Len(g)
      BY <1>3, <1>9, <2>3
    <2>5. FlattenSeq(rows) = <<>>
      <3>1. rows \in Seq(Seq(Found)) /\ \A k \in 1..Len(rows) : rows[k] = <<>>
        BY <2>2, <2>4 DEF V
      <3> QED
        BY <3>1, FlattenNone
    <2>6. \A k \in 1..Len(g) : Rows(h, L + k) \in Seq(Found)
      BY <1>8, <2>3 DEF V
    <2> QED
      BY <1>10, <2>5, <2>6 DEF g, h, rows
  <1>11. CASE ~Idle(b)
    <2> DEFINE n == Len(Prelude(b))
               i == n + 1
    <2>1. /\ n \in Nat /\ Len(g) = n + 2 + Len(extra)
          /\ \A k \in 1..n : g[k].kind \in PreludeKinds
          /\ g[n + 1] = BuildMoof(b) /\ g[n + 2] = BuildMdat(b)
          /\ \A k \in 1..Len(extra) : g[n + 2 + k] = extra[k]
      BY <1>1, <1>11, ChunkBoxes DEF g
    <2>2. /\ BuildMoof(b).size \in Nat \ {0} /\ BuildMdat(b).size \in Nat \ {0}
          /\ BuildMdat(b).kind = "mdat" /\ BuildMoof(b).kind = "moof"
      BY BoxesSized DEF BatchInv, FileInv
    <2>3. M = L + i
      OBVIOUS
    <2> HIDE DEF n, M
    <2>4. i \in 1..Len(g) /\ i + 1 \in 1..Len(g) /\ i + 1 = n + 2
      BY <1>3, <2>1
    <2>5. M \in Nat /\ M \in 1..Len(h) /\ M + 1 \in 1..Len(h) /\ M > L /\ M + 1 = L + (i + 1)
          /\ M \in 1..(Len(h) + 1) /\ L + 1 \in 1..M /\ M + 1 + 1 \in 1..(Len(h) + 1)
          /\ L + 1 \in 1..(L + 1)
      <3> DEFINE N == Len(h)
                 E == Len(extra)
      <3>1. N = L + (n + 2 + E) /\ E \in Nat /\ L \in Nat /\ n \in Nat /\ M = L + (n + 1)
        BY <1>3, <1>4, <2>1, <2>3
      <3> HIDE DEF N, E, L
      <3>2. /\ M \in Nat /\ M \in 1..N /\ M + 1 \in 1..N /\ M > L /\ M + 1 = L + (i + 1)
            /\ M \in 1..(N + 1) /\ L + 1 \in 1..M /\ M + 1 + 1 \in 1..(N + 1)
            /\ L + 1 \in 1..(L + 1)
        BY <3>1
      <3> QED
        BY <3>2 DEF N, L
    <2>6. h[M] = BuildMoof(b) /\ h[M + 1] = BuildMdat(b)
      <3>1. h[M] = g[i] /\ h[M + 1] = g[i + 1]
        BY <1>5, <2>3, <2>4, <2>5
      <3> QED
        BY <2>1, <2>4, <3>1
    <2>7. ASSUME NEW k \in 1..Len(g), k # i PROVE rows[k] = <<>>
      <3>1. CASE k \in 1..n
        <4>1. g[k].kind # "moof"
          BY <2>1, <3>1 DEF PreludeKinds
        <4>2. Mute(g[k])
          BY <4>1 DEF Mute
        <4> QED
          BY <1>6, <4>2
      <3>2. CASE k = n + 2
        <4>1. Mute(g[k])
          BY <2>1, <2>2, <3>2 DEF Mute
        <4> QED
          BY <1>6, <4>1
      <3>3. CASE k \notin 1..n /\ k # n + 2
        <4> DEFINE j == k - (n + 2)
        <4>1. j \in 1..Len(extra) /\ k = n + 2 + j
          <5> DEFINE E == Len(extra)
                     G == Len(g)
          <5>1. G = n + 2 + E /\ E \in Nat /\ n \in Nat /\ k \in 1..G /\ k # n + 1
            BY <1>3, <2>1, <2>7
          <5> HIDE DEF E, G
          <5>2. j \in 1..E /\ k = n + 2 + j
            BY <3>3, <5>1
          <5> QED
            BY <5>2 DEF E
        <4> HIDE DEF j
        <4>2. Mute(g[k])
          BY <1>1, <2>1, <4>1
        <4> QED
          BY <1>6, <4>2
      <3> QED
        BY <3>1, <3>2, <3>3
    <2>8. /\ Position(h, M) \in Nat /\ EndOf(file) <= Position(h, M)
          /\ Position(h, M + 1) = Position(h, M) + BuildMoof(b).size
          /\ Position(h, M + 1) + BuildMdat(b).size <= EndOf(h)
      <3>1. Position(h, L + 1) = EndOf(file) /\ EndOf(file) \in Nat
        BY <1>2, <1>4, <2>5, FilePositions
      <3>2. /\ \A k \in 1..(Len(h) + 1) : Position(h, k) \in Nat
            /\ \A k \in 1..Len(h) : Position(h, k + 1) = Position(h, k) + h[k].size
            /\ \A k \in 1..Len(h) : \A j \in 1..k : Position(h, j) + h[k].size <= Position(h, k + 1)
            /\ Position(h, Len(h) + 1) = EndOf(h)
        BY <1>4, FilePositions
      <3>3. Position(h, M) \in Nat /\ Position(h, M + 1) = Position(h, M) + BuildMoof(b).size
        BY <2>5, <2>6, <3>2
      <3>4. Position(h, L + 1) + BuildMoof(b).size <= Position(h, M + 1)
        BY <2>5, <2>6, <3>2
      <3>5. EndOf(file) <= Position(h, M)
        BY <2>2, <3>1, <3>3, <3>4
      <3>6. Position(h, M + 1) + BuildMdat(b).size <= EndOf(h)
        <4> DEFINE N == Len(h)
        <4>1. N \in 1..Len(h) /\ M + 1 \in 1..N
          BY <2>5
        <4>2. CASE M + 1 = N
          <5>1. Position(h, M + 1 + 1) = Position(h, M + 1) + BuildMdat(b).size
            BY <2>5, <2>6, <3>2
          <5>2. Position(h, M + 1) \in Nat
            BY <2>2, <3>3
          <5> QED
            BY <2>2, <3>2, <4>2, <5>1, <5>2
        <4>3. CASE M + 1 # N
          <5>1. M + 2 \in 1..N /\ M + 1 + 1 = M + 2 /\ M + 2 \in 1..(Len(h) + 1)
            BY <2>5, <4>1, <4>3
          <5>2. Position(h, M + 2) = Position(h, M + 1) + BuildMdat(b).size
            BY <2>5, <2>6, <3>2, <5>1
          <5>3. Position(h, M + 2) + h[N].size <= Position(h, N + 1)
            BY <3>2, <4>1, <5>1
          <5>4. h[N].size \in Nat
            BY <1>4, <4>1 DEF IsFile
          <5>5. Position(h, M + 2) \in Nat /\ Position(h, N + 1) \in Nat
            <6>1. N + 1 \in 1..(Len(h) + 1)
              BY <4>1
            <6> QED
              BY <3>2, <5>1, <6>1
          <5> QED
            BY <3>2, <5>2, <5>3, <5>4, <5>5
        <4> QED
          BY <4>2, <4>3
      <3> QED
        BY <3>3, <3>5, <3>6
    <2>9. rows[i] = MoofSamples(h, M) /\ MoofSamples(h, M) \in Seq(Found)
      <3>1. rows[i] = Rows(h, M)
        BY <1>8, <2>3, <2>4
      <3>2. Rows(h, M) = MoofSamples(h, M)
        BY <2>2, <2>6 DEF Rows
      <3>3. MoofSamples(h, M) \in Seq(Found)
        <4>1. BatchTyped(b.pending, b.senc, b.seig) /\ M \in Nat /\ Position(h, M) \in Nat
          BY <2>5, <2>8 DEF BatchInv
        <4> QED
          BY <2>6, <4>1, BatchRows
      <3> QED
        BY <3>1, <3>2, <3>3
    <2>10. \A k \in 1..Len(g) : rows[k] \in V
      BY <1>7, <2>7, <2>9 DEF V
    <2>11. rows \in Seq(V) /\ Len(rows) = Len(g)
      BY <1>3, <1>9, <2>10
    <2>12. FlattenSeq(rows) = rows[i]
      <3>1. rows \in Seq(Seq(Found)) /\ i \in 1..Len(rows)
            /\ \A k \in 1..Len(rows) : k # i => rows[k] = <<>>
        BY <2>4, <2>7, <2>11 DEF V
      <3> HIDE DEF i
      <3> QED
        BY <3>1, FlattenOnly
    <2>13. \A k \in 1..Len(g) : Rows(h, L + k) \in Seq(Found)
      BY <1>8, <2>10 DEF V
    <2> QED
      BY <1>11, <2>5, <2>6, <2>8, <2>9, <2>12, <2>13 DEF g, h, rows, M
  <1> QED
    BY <1>10, <1>11
(***************************************************************************)
(* A row of the list tells of a published sample what it was queued with.  *)
(***************************************************************************)
Told(c, f, t, s, p) ==
    /\ s.duration = p.duration /\ s.size = p.size /\ s.key = p.key /\ s.cts = p.cts
    /\ [offset |-> s.offset, size |-> s.size, track |-> t, id |-> p.id] \in Stored(f)
    /\ s.moof \in 1..Len(f) /\ f[s.moof].kind = "moof"
    /\ Marked(f[s.moof], s, p)
    /\ c = "keyframe" /\ t = Anchor /\ s.key => s.nth = 1
Matches(c, f, t, s, p) ==
    Len(s) = Len(p) /\ \A k \in 1..Len(s) : Told(c, f, t, s[k], p[k])

LEMMA ToldGrows ==
    ASSUME NEW c, NEW f, NEW g, NEW h, IsFile(f), IsFile(g), Alike(f \o g, h),
           NEW t, NEW s, NEW p, Told(c, f, t, s, p)
    PROVE  Told(c, h, t, s, p)
  <1> DEFINE e == f \o g
             m == s.moof
  <1>1. Stored(f) \subseteq Stored(h)
    BY StoredGrows
  <1>2. IsFile(e) /\ Len(e) = Len(f) + Len(g) /\ \A k \in 1..Len(f) : e[k] = f[k]
    BY FileConcat
  <1>3. Len(f) \in Nat /\ Len(g) \in Nat
    BY DEF IsFile
  <1>4. m \in 1..Len(f) /\ f[m].kind = "moof"
    BY DEF Told
  <1> HIDE DEF e, m
  <1>5. m \in 1..Len(e) /\ e[m] = f[m]
    BY <1>2, <1>3, <1>4
  <1>6. Len(h) = Len(e) /\ h[m] = e[m]
    BY <1>4, <1>5 DEF Alike, e
  <1>7. m \in 1..Len(h) /\ h[m] = f[m]
    BY <1>5, <1>6
  <1> QED
    BY <1>1, <1>4, <1>7 DEF Told, m

LEMMA MatchesGrows ==
    ASSUME NEW c, NEW f, NEW g, NEW h, IsFile(f), IsFile(g), Alike(f \o g, h),
           NEW t, NEW s, NEW p, Matches(c, f, t, s, p)
    PROVE  Matches(c, h, t, s, p)
  BY ToldGrows DEF Matches

LEMMA MatchesConcat ==
    ASSUME NEW c, NEW f, NEW t, NEW s \in Seq(Found), NEW r \in Seq(Found),
           NEW p \in Seq(Sample), NEW q \in Seq(Sample),
           Matches(c, f, t, s, p), Matches(c, f, t, r, q)
    PROVE  Matches(c, f, t, s \o r, p \o q)
  <1> DEFINE u == s \o r
             v == p \o q
  <1>1. /\ Len(u) = Len(s) + Len(r) /\ Len(s) \in Nat /\ Len(r) \in Nat
        /\ \A k \in 1..Len(s) : u[k] = s[k]
        /\ \A k \in 1..Len(r) : u[Len(s) + k] = r[k]
    BY ConcatProperties
  <1>2. /\ Len(v) = Len(p) + Len(q) /\ Len(p) = Len(s) /\ Len(q) = Len(r)
        /\ \A k \in 1..Len(p) : v[k] = p[k]
        /\ \A k \in 1..Len(q) : v[Len(p) + k] = q[k]
    BY ConcatProperties DEF Matches
  <1> HIDE DEF u, v
  <1>3. ASSUME NEW k \in 1..Len(u) PROVE Told(c, f, t, u[k], v[k])
    <2>1. CASE k \in 1..Len(s)
      BY <1>1, <1>2, <2>1 DEF Matches
    <2>2. CASE k \notin 1..Len(s)
      <3> DEFINE j == k - Len(s)
      <3>1. j \in 1..Len(r) /\ k = Len(s) + j
        BY <1>1, <2>2
      <3> HIDE DEF j
      <3>2. u[k] = r[j] /\ v[k] = q[j]
        BY <1>1, <1>2, <3>1
      <3> QED
        BY <3>1, <3>2 DEF Matches
    <2> QED
      BY <2>1, <2>2
  <1> QED
    BY <1>1, <1>2, <1>3 DEF Matches, u, v

LEMMA BatchTold ==
    ASSUME FileInv, NEW b, BatchInv(b), NEW h, IsFile(h), NEW M \in 1..Len(h),
           M + 1 \in 1..Len(h), h[M] = BuildMoof(b), h[M + 1] = BuildMdat(b),
           Position(h, M) \in Nat,
           Position(h, M + 1) = Position(h, M) + BuildMoof(b).size,
           NEW n \in 1..Len(Contributing(b)), NEW k \in 1..Len(RunOf(b, n))
    PROVE  Told(opts.cadence, h, Contributing(b)[n], RowAt(b, M, Position(h, M), n, k), RunOf(b, n)[k])
  <1> DEFINE q == RunOf(b, n)
             t == Contributing(b)[n]
             base == Position(h, M)
             size == BuildMoof(b).size
             o == base + (size + 8 + DataBefore(b, n)) + Bytes(SubSeq(q, 1, k - 1))
             x == q[k]
             data == Payload(b)
  <1>1. BatchTyped(b.pending, b.senc, b.seig)
    BY DEF BatchInv
  <1>2. size \in Nat /\ BuildMoof(b).kind = "moof" /\ BuildMdat(b).kind = "mdat"
        /\ BuildMdat(b).data = data
    BY <1>1, BoxesSized, MdatIs DEF FileInv
  <1>3. PICK j \in 1..Len(data) :
              /\ data[j] = [track |-> t, id |-> x.id, size |-> x.size]
              /\ Bytes(SubSeq(data, 1, j - 1))
                   = DataBefore(b, n) + Bytes(SubSeq(q, 1, k - 1))
    <2>1. q = b.pending[Contributing(b)[n]] /\ k \in 1..Len(q)
      BY DEF RunOf
    <2> HIDE DEF q
    <2> QED
      BY <1>1, <2>1, PayloadAt, SMTT(30), ZenonT(60)
  <1>4. DataBefore(b, n) \in Nat /\ Bytes(SubSeq(q, 1, k - 1)) \in Nat
    <2>1. n \in 1..(Len(Contributing(b)) + 1)
      OBVIOUS
    <2>2. q \in Seq(Sample) /\ Timed(q)
      BY <1>1, RunOfIs
    <2> HIDE DEF q
    <2>3. k - 1 \in 0..Len(q)
      BY <2>2 DEF q
    <2> QED
      BY <1>1, <2>1, <2>2, <2>3, DataBeforeIs, TimedSums
  <1>5. data \in Seq(Stock)
    BY <1>1, MdatIs
  <1> DEFINE st == StockAt(h, M + 1, j)
  <1>6. st = [offset |-> Position(h, M + 1) + 8 + Bytes(SubSeq(data, 1, j - 1)),
              size |-> data[j].size, track |-> data[j].track, id |-> data[j].id]
    BY <1>2 DEF StockAt
  <1> DEFINE row == RowAt(b, M, base, n, k)
  <1>7. row = [track |-> t, moof |-> M, traf |-> n, nth |-> k, offset |-> o, size |-> x.size,
               dts |-> nextBmdt[t] + Ticks(SubSeq(q, 1, k - 1)),
               duration |-> x.duration, key |-> x.key, cts |-> x.cts]
    BY DEF RowAt
  <1> DEFINE told == [offset |-> row.offset, size |-> row.size, track |-> t, id |-> x.id]
  <1> HIDE DEF st, data, row
  <1>8. j \in DOMAIN h[M + 1].data /\ h[M + 1].kind = "mdat"
    BY <1>2, <1>5
  <1>9. st \in Stored(h)
    BY <1>8, StoredIs DEF st
  <1>10. Position(h, M + 1) + 8 + Bytes(SubSeq(data, 1, j - 1)) = o
    <2> DEFINE B == DataBefore(b, n)
               C == Bytes(SubSeq(q, 1, k - 1))
               D == Bytes(SubSeq(data, 1, j - 1))
    <2>1. /\ Position(h, M + 1) = base + size /\ D = B + C /\ o = base + (size + 8 + B) + C
          /\ base \in Nat /\ size \in Nat /\ B \in Nat /\ C \in Nat
      BY <1>2, <1>3, <1>4
    <2> HIDE DEF B, C, D, o, base, size
    <2>2. Position(h, M + 1) + 8 + D = o
      BY <2>1
    <2> QED
      BY <2>2 DEF D
  <1> HIDE DEF o, q, t, base, size, x
  <1>11. st = told
    BY <1>3, <1>6, <1>7, <1>10
  <1>12. /\ row.duration = x.duration /\ row.size = x.size /\ row.key = x.key
         /\ row.cts = x.cts /\ row.moof = M
    BY <1>7
  <1>13. h[M].kind = "moof"
    BY <1>2
  <1>14. Marked(h[M], row, x)
    <2>1. MoofHead \in Nat
      BY <1>1, BoxesSized DEF FileInv
    <2>2. row.traf = n /\ row.nth = k
      BY <1>7
    <2>3. k \in 1..Len(b.pending[Contributing(b)[n]])
      BY DEF RunOf
    <2>4. Marked(BuildMoof(b), row, b.pending[Contributing(b)[n]][k])
      BY <2>1, <2>2, <2>3, BatchMarked
    <2> QED
      BY <2>4 DEF x, q, RunOf
  <1>15. opts.cadence = "keyframe" /\ t = Anchor /\ row.key => row.nth = 1
    <2>1. t \in Track /\ q = b.pending[t] /\ k \in 1..Len(q)
      BY ContributingIs DEF t, q, RunOf
    <2>2. KeysOpen(t, q)
      BY <2>1 DEF BatchInv, Annotated
    <2>3. row.key = q[k].key /\ row.nth = k
      BY <1>7 DEF x
    <2> QED
      BY <2>1, <2>2, <2>3 DEF KeysOpen
  <1> QED
    BY <1>9, <1>11, <1>12, <1>13, <1>14, <1>15 DEF Told, row, q, t, base, x

LEMMA BatchMatches ==
    ASSUME FileInv, NEW b, BatchInv(b), NEW h, IsFile(h), NEW M \in 1..Len(h),
           M + 1 \in 1..Len(h), h[M] = BuildMoof(b), h[M + 1] = BuildMdat(b),
           Position(h, M) \in Nat,
           Position(h, M + 1) = Position(h, M) + BuildMoof(b).size,
           NEW t \in Track
    PROVE  /\ OfTrack(MoofSamples(h, M), t) \in Seq(Found)
           /\ Matches(opts.cadence, h, t, OfTrack(MoofSamples(h, M), t), b.pending[t])
  <1> DEFINE rows == MoofSamples(h, M)
             r == Contributing(b)
  <1>1. BatchTyped(b.pending, b.senc, b.seig)
    BY DEF BatchInv
  <1>2. M \in Nat
    BY DEF IsFile
  <1>3. /\ rows \in Seq(Found)
        /\ \A u \in Track : b.pending[u] = <<>> => OfTrack(rows, u) = <<>>
        /\ \A n \in 1..Len(r) : OfTrack(rows, r[n]) = TrafSamples(h, M, n)
    BY <1>1, <1>2, BatchRows
  <1>4. OfTrack(rows, t) \in Seq(Found)
    BY <1>3, OfTrackTyped
  <1>5. CASE b.pending[t] = <<>>
    <2>1. OfTrack(rows, t) = <<>>
      BY <1>3, <1>5
    <2> DEFINE e == <<>>
    <2>2. Len(e) = 0 /\ \A k \in 1..Len(e) : FALSE
      OBVIOUS
    <2> HIDE DEF rows
    <2>3. OfTrack(rows, t) = e /\ b.pending[t] = e
      BY <1>5, <2>1
    <2> HIDE DEF e
    <2>4. Matches(opts.cadence, h, t, e, e)
      BY <2>2 DEF Matches
    <2> QED
      BY <1>4, <2>3, <2>4 DEF rows
  <1>6. CASE b.pending[t] # <<>>
    <2>1. PICK n \in 1..Len(r) : r[n] = t
      BY <1>6, ContributingIs
    <2>2. RunOf(b, n) = b.pending[t]
      BY <2>1 DEF RunOf
    <2>3. OfTrack(rows, t) = TrafSamples(h, M, n)
      BY <1>3, <2>1
    <2> DEFINE s == TrafSamples(h, M, n)
    <2>4. /\ Len(s) = Len(RunOf(b, n))
          /\ \A k \in 1..Len(RunOf(b, n)) : s[k] = RowAt(b, M, Position(h, M), n, k)
      BY <1>1, <1>2, TrafRows
    <2>5. \A k \in 1..Len(RunOf(b, n)) :
            Told(opts.cadence, h, r[n], RowAt(b, M, Position(h, M), n, k), RunOf(b, n)[k])
      BY BatchTold
    <2> HIDE DEF s, rows, r
    <2>6. Matches(opts.cadence, h, t, s, b.pending[t])
      BY <2>1, <2>2, <2>4, <2>5 DEF Matches
    <2> QED
      BY <1>4, <2>3, <2>6 DEF rows, s
  <1> QED
    BY <1>5, <1>6
(***************************************************************************)
(* The invariant of the rows, while no write fails.                        *)
(***************************************************************************)
RowsInv ==
    ~opts.io =>
        /\ HasRows(Found, file) /\ Rising(Listed(file), 0, EndOf(file))
        /\ \A t \in Track : Matches(opts.cadence, file, t, OfTrack(Listed(file), t), published[t])

LEMMA RowsKept ==
    ASSUME FileInv, HasRows(Found, file), Rising(Listed(file), 0, EndOf(file)),
           \A t \in Track : Matches(opts.cadence, file, t, OfTrack(Listed(file), t), published[t]),
           NEW g, IsFile(g), NEW h, h = file \o g, Alike(h, file'),
           NEW new \in Seq(Found), HasRows(Found, h),
           Joined(Listed(h), Listed(file), new),
           NEW lo \in Nat, NEW hi \in Nat, EndOf(file) <= lo, lo <= hi, hi <= EndOf(h),
           Rising(new, lo, hi), NEW more \in [Track -> Seq(Sample)],
           published' = [t \in Track |-> published[t] \o more[t]],
           \A t \in Track : Matches(opts.cadence, file', t, OfTrack(new, t), more[t])
    PROVE  /\ HasRows(Found, file') /\ Rising(Listed(file'), 0, EndOf(file'))
           /\ \A t \in Track : Matches(opts.cadence, file', t, OfTrack(Listed(file'), t), published'[t])
  <1> DEFINE f == file'
             old == Listed(file)
             A == EndOf(file)
             B == EndOf(h)
  <1>1. IsFile(file) /\ IsFile(h)
    BY FileConcat DEF FileInv
  <1>2. HasRows(Found, f) /\ Listed(f) = Listed(h)
    BY AlikeRows
  <1>3. IsFile(f) /\ EndOf(f) = B
    BY <1>1, AlikePositions
  <1>4. old \in Seq(Found) /\ Listed(h) = old \o new
    BY ListedTyped DEF Joined
  <1>5. A \in Nat /\ B \in Nat
    BY <1>1, FilePositions
  <1> HIDE DEF f, old, A, B
  <1>6. Rising(Listed(f), 0, B)
    <2>1. A <= lo /\ hi <= B
      BY DEF A, B
    <2>2. Rising(new, A, B)
      BY <1>5, <2>1, RisingWidens
    <2>3. A <= B /\ 0 <= A
      BY <1>5, <2>1
    <2>4. Rising(old, 0, A)
      BY DEF old, A
    <2>5. Rising(old \o new, 0, B)
      BY <1>4, <1>5, <2>2, <2>3, <2>4, RisingConcat
    <2> QED
      BY <1>2, <1>4, <2>5
  <1>7. ASSUME NEW t \in Track
        PROVE  Matches(opts.cadence, f, t, OfTrack(Listed(f), t), published'[t])
    <2>1. Matches(opts.cadence, file, t, OfTrack(old, t), published[t])
      BY DEF old
    <2>2. Matches(opts.cadence, f, t, OfTrack(old, t), published[t])
      BY <1>1, <2>1, MatchesGrows DEF f
    <2>3. OfTrack(old \o new, t) = OfTrack(old, t) \o OfTrack(new, t)
      BY <1>4, OfTrackConcat
    <2>4. OfTrack(old, t) \in Seq(Found) /\ OfTrack(new, t) \in Seq(Found)
      BY <1>4, OfTrackTyped
    <2>5. published[t] \in Seq(Sample) /\ more[t] \in Seq(Sample)
      BY DEF FileInv, QueueInv, QueueTypes
    <2>6. Matches(opts.cadence, f, t, OfTrack(new, t), more[t])
      BY DEF f
    <2>7. Matches(opts.cadence, f, t, OfTrack(old, t) \o OfTrack(new, t), published[t] \o more[t])
      BY <2>2, <2>4, <2>5, <2>6, MatchesConcat
    <2>8. published'[t] = published[t] \o more[t]
      OBVIOUS
    <2> QED
      BY <1>2, <1>4, <2>3, <2>7, <2>8
  <1> QED
    BY <1>2, <1>3, <1>6, <1>7 DEF f, B

LEMMA QuietRows ==
    ASSUME FileInv, RowsInv, UNCHANGED <<opts, published>>,
           NEW g, IsFile(g), \A m \in 1..Len(g) : g[m].kind # "moof",
           file' = file \o g
    PROVE  RowsInv'
  <1> SUFFICES ASSUME ~opts.io PROVE RowsInv'
    BY DEF RowsInv
  <1> DEFINE h == file \o g
             rows == [k \in 1..Len(g) |-> Rows(h, Len(file) + k)]
             L == Len(file)
  <1>1. /\ HasRows(Found, file) /\ Rising(Listed(file), 0, EndOf(file))
        /\ \A t \in Track : Matches(opts.cadence, file, t, OfTrack(Listed(file), t), published[t])
    BY DEF RowsInv
  <1>2. IsFile(file) /\ IsFile(h) /\ Len(g) \in Nat
    <2>1. IsFile(file)
      BY DEF FileInv
    <2>2. IsFile(h)
      BY <2>1, FileConcat
    <2>3. Len(g) \in Nat
      BY DEF IsFile
    <2> QED
      BY <2>1, <2>2, <2>3
  <1>3. \A k \in 1..Len(g) : h[L + k] = g[k]
    BY <1>2, FileConcat
  <1>4. Alike(h, file')
    BY <1>2, AlikeSelf
  <1> HIDE DEF h
  <1>5. \A k \in 1..Len(g) : Rows(h, L + k) = <<>>
    BY <1>3 DEF Rows
  <1>6. \A k \in 1..Len(g) : Rows(h, L + k) \in Seq(Found)
    <2>1. <<>> \in Seq(Found)
      OBVIOUS
    <2> QED
      BY <1>5, <2>1
  <1> DEFINE V == Seq(Found)
             new == FlattenSeq(rows)
  <1>7. rows \in Seq(V) /\ Len(rows) = Len(g) /\ \A k \in 1..Len(rows) : rows[k] = <<>>
    <2>1. \A k \in 1..Len(g) : rows[k] \in V /\ rows[k] = <<>>
      BY <1>5, <1>6
    <2>2. rows = [k \in 1..Len(g) |-> rows[k]]
      OBVIOUS
    <2> HIDE DEF rows, V
    <2> QED
      BY <1>2, <2>1, <2>2
  <1>8. HasRows(Found, h) /\ Joined(Listed(h), Listed(file), new)
    BY <1>1, <1>6, RowsConcat DEF h
  <1> HIDE DEF rows
  <1>9. new = <<>>
    BY <1>7, FlattenNone DEF V
  <1> DEFINE e == <<>>
             more == [t \in Track |-> e]
  <1>10. e \in Seq(Found) /\ e \in Seq(Sample) /\ Len(e) = 0 /\ Rising(e, EndOf(h), EndOf(h))
    BY DEF Rising
  <1>11. \A t : OfTrack(e, t) = e
    <2> SUFFICES ASSUME NEW t PROVE OfTrack(e, t) = e
      OBVIOUS
    <2>1. \A k \in 1..Len(e) : e[k].track = t
      BY <1>10
    <2> HIDE DEF e
    <2> QED
      BY <1>10, <2>1, OfTrackWhole
  <1>12. more \in [Track -> Seq(Sample)] /\ \A t \in Track : more[t] = e
    BY <1>10
  <1>13. published' = [t \in Track |-> published[t] \o more[t]]
    <2>1. published \in [Track -> Seq(Sample)]
      BY DEF FileInv, QueueInv, QueueTypes
    <2>2. \A t \in Track : published[t] \o e = published[t]
      BY <2>1, ConcatEmptySeq
    <2> HIDE DEF e, more
    <2>3. \A t \in Track : published[t] \o more[t] = published[t]
      BY <1>12, <2>2
    <2> QED
      BY <2>1, <2>3
  <1>14. EndOf(h) \in Nat /\ EndOf(file) \in Nat /\ EndOf(file) <= EndOf(h)
    <2>1. EndOf(h) = EndOf(file) + EndOf(g) /\ EndOf(g) \in Nat /\ EndOf(file) \in Nat
      BY <1>2, FileConcat, FilePositions DEF h
    <2> QED
      BY <2>1
  <1> HIDE DEF e, more
  <1>15. \A t \in Track : Matches(opts.cadence, file', t, OfTrack(e, t), more[t])
    BY <1>10, <1>11, <1>12 DEF Matches
  <1> HIDE DEF new
  <1>16. new = e
    BY <1>9 DEF e
  <1> DEFINE D == EndOf(h)
  <1>17. /\ Joined(Listed(h), Listed(file), e) /\ Rising(e, D, D)
         /\ D \in Nat /\ EndOf(file) <= D /\ D <= D /\ D <= EndOf(h) /\ h = file \o g
    BY <1>8, <1>10, <1>14, <1>16 DEF h
  <1> HIDE DEF D
  <1>18. /\ HasRows(Found, file') /\ Rising(Listed(file'), 0, EndOf(file'))
         /\ \A t \in Track : Matches(opts.cadence, file', t, OfTrack(Listed(file'), t), published'[t])
    BY <1>1, <1>4, <1>8, <1>10, <1>12, <1>13, <1>15, <1>17, RowsKept
  <1> QED
    BY <1>18 DEF RowsInv

LEMMA RowsNext ==
    ASSUME FileInv, RowsInv, UNCHANGED opts, FileStep
    PROVE  RowsInv'
  <1>0. IsFile(file)
    BY DEF FileInv
  <1>1. CASE UNCHANGED output
    BY <1>1 DEF output, RowsInv, HasRows, Rows, Matches, Told
  <1>2. CASE Opens
    <2>1. PICK g : Only({"ftyp", "moov"}, g) /\ file' = file \o g
      BY <1>2, HeaderFile DEF Opens
    <2>2. UNCHANGED published
      BY <1>2 DEF Opens
    <2>3. IsFile(g) /\ \A m \in 1..Len(g) : g[m].kind # "moof"
      BY <2>1 DEF Only
    <2> QED
      BY <2>1, <2>2, <2>3, QuietRows
  <1>3. ASSUME NEW b, BatchInv(b), FlushBreaks(b)
        PROVE  RowsInv'
    <2> SUFFICES ASSUME ~opts.io PROVE RowsInv'
      BY DEF RowsInv
    <2>1. PICK g : /\ file' = file \o g
                   /\ Only(PreludeKinds, g)
                   /\ UNCHANGED published
      BY <1>3, BrokenIs
    <2>2. IsFile(g) /\ \A m \in 1..Len(g) : g[m].kind # "moof"
      BY <2>1 DEF Only, PreludeKinds
    <2> QED
      BY <2>1, <2>2, QuietRows
  <1>4. ASSUME headerWritten, NEW b, BatchInv(b), NEW extra, Completes(b, extra)
        PROVE  RowsInv'
    <2> SUFFICES ASSUME ~opts.io PROVE RowsInv'
      BY DEF RowsInv
    <2> DEFINE g == Chunk(b, extra)
               h == file \o g
               M == Len(file) + (Len(Prelude(b)) + 1)
               new == FlattenSeq([k \in 1..Len(g) |-> Rows(h, Len(file) + k)])
               more == [t \in Track |-> b.pending[t]]
    <2>1. Ends(b, extra, nextBmdt')
      BY <1>4 DEF Completes
    <2>2. IsFile(g) /\ Alike(h, file') /\ h = file \o g
      BY <1>4, CompletedFile
    <2>3. /\ HasRows(Found, file) /\ Rising(Listed(file), 0, EndOf(file))
          /\ \A t \in Track : Matches(opts.cadence, file, t, OfTrack(Listed(file), t), published[t])
      BY DEF RowsInv
    <2>4. /\ \A k \in 1..Len(g) : Rows(h, Len(file) + k) \in Seq(Found)
          /\ Idle(b) => new = <<>>
          /\ ~Idle(b) =>
                    /\ M \in Nat /\ M \in 1..Len(h) /\ M + 1 \in 1..Len(h) /\ M > Len(file)
                    /\ h[M] = BuildMoof(b) /\ h[M + 1] = BuildMdat(b)
                    /\ Position(h, M) \in Nat /\ EndOf(file) <= Position(h, M)
                    /\ Position(h, M + 1) = Position(h, M) + BuildMoof(b).size
                    /\ Position(h, M + 1) + BuildMdat(b).size <= EndOf(h)
                    /\ new = MoofSamples(h, M)
      BY <1>4, <2>1, ChunkRows
    <2> HIDE DEF g
    <2>5. HasRows(Found, h) /\ Joined(Listed(h), Listed(file), new)
      BY <2>2, <2>3, <2>4, RowsConcat
    <2>6. IsFile(h)
      BY <1>0, <2>2, FileConcat
    <2> HIDE DEF h, M, new
    <2>7. more \in [Track -> Seq(Sample)]
          /\ published' = [t \in Track |-> published[t] \o more[t]]
      <3>1. b.pending \in [Track -> Seq(Sample)]
        BY <1>4 DEF BatchInv, BatchTyped
      <3> QED
        BY <1>4, <3>1 DEF Completes, PublishedAfter
    <2>8. \A t \in Track : more[t] = b.pending[t]
      OBVIOUS
    <2> HIDE DEF more
    <2> DEFINE e == <<>>
    <2>9. /\ EndOf(h) \in Nat /\ EndOf(file) \in Nat
          /\ e \in Seq(Found) /\ Len(e) = 0 /\ Rising(e, EndOf(h), EndOf(h))
      <3>1. EndOf(h) \in Nat /\ EndOf(file) \in Nat
        BY <1>0, <2>6, FilePositions
      <3> QED
        BY <3>1 DEF Rising
    <2>10. CASE Idle(b)
      <3>1. new = e
        BY <2>4, <2>10
      <3>2. OfTrack(e, 0) = e /\ \A t : OfTrack(e, t) = e
        <4>1. \A t : \A k \in 1..Len(e) : e[k].track = t
          BY <2>9
        <4> HIDE DEF e
        <4> QED
          BY <2>9, <4>1, OfTrackWhole
      <3> HIDE DEF e
      <3>3. \A t \in Track : Matches(opts.cadence, file', t, OfTrack(new, t), more[t])
        <4> SUFFICES ASSUME NEW t \in Track
                     PROVE  Matches(opts.cadence, file', t, OfTrack(new, t), more[t])
          OBVIOUS
        <4>1. b.pending[t] = e
          BY <2>10 DEF Idle, e
        <4>2. OfTrack(new, t) = e /\ more[t] = e
          BY <2>8, <3>1, <3>2, <4>1
        <4> QED
          BY <2>9, <4>2 DEF Matches
      <3> DEFINE D == EndOf(h)
      <3>4. EndOf(file) <= D
        <4>1. EndOf(h) = EndOf(file) + EndOf(g) /\ EndOf(g) \in Nat
          BY <1>0, <2>2, FileConcat, FilePositions
        <4> QED
          BY <2>9, <4>1
      <3>5. new \in Seq(Found) /\ Rising(new, D, D) /\ D \in Nat /\ D <= D /\ D <= EndOf(h)
        BY <2>9, <3>1
      <3> HIDE DEF D
      <3>6. /\ HasRows(Found, file') /\ Rising(Listed(file'), 0, EndOf(file'))
            /\ \A t \in Track : Matches(opts.cadence, file', t, OfTrack(Listed(file'), t), published'[t])
        BY <2>2, <2>3, <2>5, <2>7, <3>3, <3>4, <3>5, RowsKept DEF h
      <3> QED
        BY <3>6 DEF RowsInv
    <2>11. CASE ~Idle(b)
      <3> DEFINE lo == Position(h, M) + BuildMoof(b).size
                 hi == lo + BuildMdat(b).size
      <3>1. /\ M \in Nat /\ M \in 1..Len(h) /\ M + 1 \in 1..Len(h) /\ M > Len(file)
            /\ h[M] = BuildMoof(b) /\ h[M + 1] = BuildMdat(b)
            /\ Position(h, M) \in Nat /\ EndOf(file) <= Position(h, M)
            /\ Position(h, M + 1) = Position(h, M) + BuildMoof(b).size
            /\ Position(h, M + 1) + BuildMdat(b).size <= EndOf(h)
            /\ new = MoofSamples(h, M)
        BY <2>4, <2>11
      <3>2. BatchTyped(b.pending, b.senc, b.seig)
        BY <1>4 DEF BatchInv
      <3>3. MoofSamples(h, M) \in Seq(Found) /\ Rising(MoofSamples(h, M), lo, hi)
        BY <3>1, <3>2, BatchRows
      <3>4. BuildMoof(b).size \in Nat /\ BuildMdat(b).size \in Nat
        BY <3>2, BoxesSized DEF FileInv
      <3>5. /\ lo \in Nat /\ hi \in Nat /\ EndOf(file) <= lo /\ lo <= hi /\ hi <= EndOf(h)
        <4> DEFINE P == Position(h, M)
                   moof == BuildMoof(b).size
                   mdat == BuildMdat(b).size
                   A == EndOf(file)
                   B == EndOf(h)
        <4>1. /\ P \in Nat /\ moof \in Nat /\ mdat \in Nat /\ A \in Nat /\ B \in Nat
              /\ A <= P /\ P + moof + mdat <= B /\ lo = P + moof /\ hi = P + moof + mdat
          BY <2>9, <3>1, <3>4
        <4> HIDE DEF P, moof, mdat, A, B, lo, hi
        <4>2. lo \in Nat /\ hi \in Nat /\ A <= lo /\ lo <= hi /\ hi <= B
          BY <4>1
        <4> QED
          BY <4>2 DEF A, B
      <3>6. ASSUME NEW t \in Track
            PROVE  Matches(opts.cadence, file', t, OfTrack(new, t), more[t])
        <4>1. Matches(opts.cadence, h, t, OfTrack(new, t), more[t])
          BY <1>4, <2>6, <2>8, <3>1, BatchMatches
        <4> DEFINE e0 == <<>>
        <4>2. IsFile(e0) /\ h \o e0 = h
          <5>1. IsFile(e0)
            BY OnlyEmpty DEF Only
          <5>2. PICK S : h \in Seq(S)
            BY <2>6 DEF IsFile
          <5> QED
            BY <5>1, <5>2, ConcatEmptySeq
        <4>3. Alike(h \o e0, file')
          BY <2>2, <4>2
        <4> HIDE DEF e0
        <4> QED
          BY <2>6, <4>1, <4>2, <4>3, MatchesGrows
      <3> HIDE DEF lo, hi
      <3>7. new \in Seq(Found) /\ Rising(new, lo, hi)
        BY <3>1, <3>3
      <3>8. /\ HasRows(Found, file') /\ Rising(Listed(file'), 0, EndOf(file'))
            /\ \A t \in Track : Matches(opts.cadence, file', t, OfTrack(Listed(file'), t), published'[t])
        BY <2>2, <2>3, <2>5, <2>7, <3>5, <3>6, <3>7, RowsKept DEF h
      <3> QED
        BY <3>8 DEF RowsInv
    <2> QED
      BY <2>10, <2>11
  <1> QED
    BY <1>1, <1>2, <1>3, <1>4 DEF FileStep

LEMMA RowsInit == Init => RowsInv
  <1> SUFFICES ASSUME Init PROVE RowsInv
    OBVIOUS
  <1> DEFINE e == <<>>
  <1>1. file = e /\ \A t \in Track : published[t] = e
    BY DEF Init, Empty
  <1>2. e \in Seq(Found) /\ e \in Seq(Seq(Found)) /\ Len(e) = 0 /\ IsFile(e)
    BY OnlyEmpty DEF Only
  <1>3. \A k \in 1..Len(e) : e[k] = <<>>
    BY <1>2
  <1>4. [m \in DOMAIN e |-> Rows(e, m)] = e
    OBVIOUS
  <1>5. EndOf(e) \in Nat
    BY <1>2, FilePositions
  <1>6. \A t : \A k \in 1..Len(e) : e[k].track = t
    BY <1>2
  <1> HIDE DEF e
  <1>7. FlattenSeq(e) = e
    BY <1>2, <1>3, FlattenNone DEF e
  <1>8. Listed(e) = e
    BY <1>4, <1>7, ListedIs
  <1>9. \A t : OfTrack(e, t) = e
    BY <1>2, <1>6, OfTrackWhole
  <1>10. HasRows(Found, e) /\ Rising(e, 0, EndOf(e))
    BY <1>2 DEF HasRows, Rising
  <1>11. \A t \in Track : Matches(opts.cadence, e, t, e, e)
    BY <1>2 DEF Matches
  <1> QED
    BY <1>1, <1>8, <1>9, <1>10, <1>11 DEF RowsInv

LEMMA RowsAlways == Spec => []RowsInv
  <1>1. Init => RowsInv
    BY RowsInit
  <1>2. FileInv /\ RowsInv /\ [Next]_vars => RowsInv'
    <2> SUFFICES ASSUME FileInv, RowsInv, [Next]_vars PROVE RowsInv'
      OBVIOUS
    <2>1. FileStep
      BY EveryStep DEF FileInv
    <2>2. UNCHANGED opts
      BY OptsFixed
    <2> QED
      BY <2>1, <2>2, RowsNext
  <1> QED
    BY <1>1, <1>2, FileInvAlways, PTL DEF Spec

LEMMA RowsAreSamples ==
    ASSUME FileInv, RowsInv, ~opts.io, NEW t
    PROVE  SamplesOf(file, t) = OfTrack(Listed(file), t)
  <1> DEFINE all == Listed(file)
  <1>1. HasRows(Found, file) /\ Rising(all, 0, EndOf(file))
    BY DEF RowsInv
  <1>2. all \in Seq(Found)
    BY <1>1, ListedTyped
  <1>3. SortedBy(all, [k \in DOMAIN all |-> all[k].offset]) = all
    BY <1>1, <1>2, RisingSorted
  <1>4. Samples(file) = all
    BY <1>3 DEF Samples, ByOffset
  <1> HIDE DEF all
  <1> QED
    BY <1>4 DEF SamplesOf, OfTrack, all

LEMMA RowsTold ==
    ASSUME FileInv, RowsInv, ~opts.io, NEW t \in Track, NEW k \in DOMAIN SamplesOf(file, t)
    PROVE  Told(opts.cadence, file, t, SamplesOf(file, t)[k], published[t][k])
  <1> DEFINE read == SamplesOf(file, t)
  <1>1. read = OfTrack(Listed(file), t)
    BY RowsAreSamples
  <1>2. Matches(opts.cadence, file, t, read, published[t])
    BY <1>1 DEF RowsInv
  <1>3. Listed(file) \in Seq(Found)
    BY ListedTyped DEF RowsInv
  <1>4. OfTrack(Listed(file), t) \in Seq(Found)
    BY <1>3, OfTrackTyped
  <1> HIDE DEF read
  <1>5. DOMAIN read = 1..Len(read)
    BY <1>1, <1>4
  <1>6. k \in 1..Len(read)
    BY <1>5 DEF read
  <1> QED
    BY <1>2, <1>6 DEF Matches, read

(* A file no write of which failed reads back: the demuxer finds exactly   *)
(* the published samples of each track, in the order they were queued,     *)
(* each with its duration, size, sync flag and composition offset, and     *)
(* its bytes at the offset the demuxer computes.                           *)
THEOREM FileReadsBack == Spec => [](~opts.io => ReadsBack)
  <1>1. FileInv /\ RowsInv => (~opts.io => ReadsBack)
    <2> SUFFICES ASSUME FileInv, RowsInv, ~opts.io, NEW t \in Track
                 PROVE  LET read == SamplesOf(file, t)
                        IN  /\ Len(read) = Len(published[t])
                            /\ \A k \in DOMAIN read :
                                 SampleReads(t, read[k], published[t][k], Stored(file))
      BY DEF ReadsBack, SamplesOf
    <2> DEFINE read == SamplesOf(file, t)
    <2>1. read = OfTrack(Listed(file), t)
      BY RowsAreSamples
    <2>2. Matches(opts.cadence, file, t, read, published[t])
      BY <2>1 DEF RowsInv
    <2>3. Listed(file) \in Seq(Found)
      BY ListedTyped DEF RowsInv
    <2>4. OfTrack(Listed(file), t) \in Seq(Found)
      BY <2>3, OfTrackTyped
    <2> HIDE DEF read
    <2>5. DOMAIN read = 1..Len(read)
      BY <2>1, <2>4
    <2>6. \A k \in 1..Len(read) :
             SampleReads(t, read[k], published[t][k], Stored(file))
      BY <2>2 DEF Matches, Told, SampleReads
    <2> QED
      BY <2>2, <2>5, <2>6 DEF Matches, read
  <1> QED
    BY <1>1, FileInvAlways, RowsAlways, PTL

(* What the demuxer finds beside the samples is what they were queued with *)
(* as well.  No write having failed, every sample has its auxiliary record *)
(* in the senc and where saiz and saio point, ...                          *)
THEOREM FileAuxReads == Spec => []AuxReads
  <1>1. FileInv /\ RowsInv => AuxReads
    <2> SUFFICES ASSUME FileInv, RowsInv, ~opts.io, NEW t \in Track,
                        NEW k \in DOMAIN SamplesOf(file, t)
                 PROVE  AuxReadsAt(SamplesOf(file, t)[k], published[t][k])
      BY DEF AuxReads, SamplesOf
    <2> DEFINE s == SamplesOf(file, t)[k]
               p == published[t][k]
    <2>1. Told(opts.cadence, file, t, s, p)
      BY RowsTold
    <2> HIDE DEF s, p
    <2>2. AuxMarked(file[s.moof], s, p)
      BY <2>1 DEF Told, Marked
    <2>3. SencStart(file[s.moof], s.traf) = SencAt(s.moof, s.traf)
      BY DEF SencStart, SencAt, TrafAt
    <2>4. AuxReadsAt(s, p)
      BY <2>2, <2>3 DEF AuxMarked, AuxReadsAt, Silent
    <2> QED
      BY <2>4 DEF s, p
  <1> QED
    BY <1>1, FileInvAlways, RowsAlways, PTL

(* ... is in the key-rotation group it was written with, ...               *)
THEOREM FileGroupsRead == Spec => []GroupReads
  <1>1. FileInv /\ RowsInv => GroupReads
    <2> SUFFICES ASSUME FileInv, RowsInv, ~opts.io, NEW t \in Track,
                        NEW k \in DOMAIN SamplesOf(file, t)
                 PROVE  LET read == SamplesOf(file, t)
                        IN  ReadGroup(file[read[k].moof].trafs[read[k].traf].groups,
                                      read[k].nth) = published[t][k].given.seig
      BY DEF GroupReads, SamplesOf
    <2>1. Told(opts.cadence, file, t, SamplesOf(file, t)[k], published[t][k])
      BY RowsTold
    <2> QED
      BY <2>1 DEF Told, Marked
  <1> QED
    BY <1>1, FileInvAlways, RowsAlways, PTL

(* ... and, when every keyframe starts a fragment, a sync sample of the    *)
(* anchor track is the first of its run, and waits behind no other.        *)
THEOREM KeyframesOpen == Spec => [](~opts.io => KeyframeOpensFragment)
  <1>1. FileInv /\ RowsInv => (~opts.io => KeyframeOpensFragment)
    <2> SUFFICES ASSUME FileInv, RowsInv, ~opts.io, opts.cadence = "keyframe"
                 PROVE  /\ \A s \in ToSet(SamplesOf(file, Anchor)) : s.key => s.nth = 1
                        /\ \A k \in DOMAIN pending[Anchor] :
                              pending[Anchor][k].key => k = 1
      BY DEF KeyframeOpensFragment
    <2>1. Anchor \in Track
      BY AnchorTrack
    <2>2. ASSUME NEW s \in ToSet(SamplesOf(file, Anchor)), s.key PROVE s.nth = 1
      <3> DEFINE read == SamplesOf(file, Anchor)
      <3>1. PICK k \in DOMAIN read : s = read[k]
        BY DEF ToSet
      <3>2. Told(opts.cadence, file, Anchor, read[k], published[Anchor][k])
        BY <2>1, RowsTold
      <3> HIDE DEF read
      <3> QED
        BY <2>2, <3>1, <3>2 DEF Told
    <2>3. ASSUME NEW k \in DOMAIN pending[Anchor], pending[Anchor][k].key PROVE k = 1
      <3>1. pending[Anchor] \in Seq(Sample)
        BY <2>1 DEF FileInv, QueueInv, QueueTypes
      <3>2. KeysOpen(Anchor, pending[Anchor])
        BY <2>1 DEF FileInv, QueueInv, Annotated
      <3> QED
        BY <2>3, <3>1, <3>2 DEF KeysOpen
    <2> QED
      BY <2>2, <2>3
  <1> QED
    BY <1>1, FileInvAlways, RowsAlways, PTL

(***************************************************************************)
(* Calls whose flush does not fail.  A flush works on what is queued, or   *)
(* on what the cadence of a packet cuts off.                               *)
(***************************************************************************)
CallBatches ==
    {Queued} \cup
    {CadenceBatch(PendingWith(p), SencWith(p), SeigWith(p)) : p \in Packets}
Breaks == \E b \in CallBatches : FlushBreaks(b)

LEMMA UnbrokenPacket ==
    ASSUME QueueInv, NEW p \in Packets, QueuePacket(p), ~Breaks
    PROVE  LET w == WholeBatch(PendingWith(p), SencWith(p), SeigWith(p))
           IN  \/ ~ShouldFlush(PendingWith(p), p) /\ Joins(p) /\ Stays(p)
               \/ Publishes(w) /\ Stays(p)
               \/ p.track = Anchor /\ opts.cadence = "keyframe" /\ Publishes(HeldBatch(p))
  <1>1. Admissible(p)
    BY DEF QueuePacket
  <1>2. CASE ~ShouldFlush(PendingWith(p), p)
    BY <1>2 DEF QueuePacket, Joins, Keeps, WholeBatch, output, Stays
  <1>3. CASE ShouldFlush(PendingWith(p), p)
    <2> DEFINE b == CadenceBatch(PendingWith(p), SencWith(p), SeigWith(p))
               w == WholeBatch(PendingWith(p), SencWith(p), SeigWith(p))
    <2>1. Flush(b) /\ ~FlushBreaks(b)
      BY <1>3 DEF QueuePacket, Breaks, CallBatches
    <2>2. /\ (b = w /\ Stays(p)) \/ (p.track = Anchor /\ b = HeldBatch(p))
          /\ opts.cadence # "keyframe" => b = w /\ Stays(p)
      BY <1>1, <1>3, CadenceBatchIs DEF CadenceBatch, Stays
    <2>3. BatchInv(b)
      BY <1>1, <1>3, PacketBatch
    <2> HIDE DEF b, w
    <2>4. EmptyQueues(b) /\ published' = PublishedAfter(b)
      BY <2>1 DEF Flush, FlushDone
    <2>5. Publishes(b)
      BY <2>3, <2>4, EmptiedQueues
    <2> QED
      BY <2>2, <2>5 DEF w
  <1> QED
    BY <1>2, <1>3

LEMMA UnbrokenFlush ==
    ASSUME QueueInv, FlushingCall, ~Breaks
    PROVE  /\ Publishes(Queued)
           /\ UNCHANGED <<opts, headerWritten, prevPts, packetsTotal>>
  <1>1. BatchInv(Queued) /\ ~FlushBreaks(Queued)
    BY QueuedInv DEF Breaks, CallBatches
  <1>2. \A extra, seq, bmdt : FlushThen(extra, seq, bmdt) => Publishes(Queued)
    BY <1>1, EmptiedQueues DEF FlushThen
  <1>3. Flush(Queued) => Publishes(Queued)
    BY <1>1, EmptiedQueues DEF Flush, FlushDone
  <1>4. UNCHANGED <<opts, headerWritten, prevPts, packetsTotal>>
    BY FlushingOutcome
  <1>5. CASE FlushFragment
    BY <1>3, <1>5 DEF FlushFragment
  <1>6. ASSUME NEW t \in Track, NEW d \in GapDurations, InsertEmptyTime(t, d)
        PROVE  Publishes(Queued)
    BY <1>1, <1>2, <1>6 DEF InsertEmptyTime
  <1>7. CASE WriteTrailer
    <2>1. TrailerDone => Publishes(Queued)
      BY <1>1, EmptiedQueues DEF TrailerDone
    <2>2. TrailerCut => Publishes(Queued)
      BY <1>2 DEF TrailerCut
    <2> QED
      BY <1>1, <1>7, <2>1, <2>2 DEF WriteTrailer
  <1> QED
    BY <1>4, <1>5, <1>6, <1>7 DEF FlushingCall

LEMMA BrokenOrStill == [~Breaks]_vars => ~Breaks \/ QuietCall
  BY DEF QuietCall

(***************************************************************************)
(* The anchor queue stays short of the threshold of the cadence.           *)
(***************************************************************************)
Short(q) ==
    CASE opts.cadence = "packets" -> opts.n # 0 => Len(q) < opts.n
      [] opts.cadence = "seconds" ->
           q = <<>> \/ Ticks(q) < opts.n * opts.scale[Anchor]
      [] OTHER -> TRUE

LEMMA EmptyIsShort == QueueTypes => Short(<<>>)
  <1> SUFFICES ASSUME QueueTypes PROVE Short(<<>>)
    OBVIOUS
  <1>1. opts.cadence = "packets" => opts.n \in Nat
    BY OptionsAssumption DEF QueueTypes
  <1>2. opts.cadence = "packets" => (opts.n # 0 => Len(<<>>) < opts.n)
    BY <1>1
  <1> QED
    BY <1>2 DEF Short

LEMMA SampleQueueTimed == \A q \in Seq(Sample) : Timed(q)
  <1> SUFFICES ASSUME NEW q \in Seq(Sample) PROVE Timed(q)
    OBVIOUS
  <1>1. \A k \in 1..Len(q) : q[k] \in Sample
    OBVIOUS
  <1>2. \A s \in Sample : s.duration \in Nat /\ s.size \in Nat
    BY DEF Sample
  <1> QED
    BY <1>1, <1>2 DEF Timed

LEMMA PacketShort ==
    ASSUME QueueInv, NEW p \in Packets, ~ShouldFlush(PendingWith(p), p),
           Short(pending[Anchor])
    PROVE  Short(PendingWith(p)[Anchor])
  <1> DEFINE q == PendingWith(p)[Anchor]
  <1>1. /\ SampleOf(p) \in Sample /\ p.track \in Track
        /\ pending \in [Track -> Seq(Sample)]
    BY SampleTyped, PacketFields DEF QueueInv, QueueTypes
  <1>2. q \in Seq(Sample)
    BY <1>1, AnchorTrack DEF PendingWith
  <1>3. p.track # Anchor => q = pending[Anchor]
    BY <1>1, AnchorTrack DEF PendingWith
  <1>4. opts \in Options
    BY DEF QueueInv, QueueTypes
  <1>5. CASE opts.cadence = "packets"
    <2>1. opts.n \in Nat
      BY <1>4, <1>5, OptionsAssumption
    <2>2. Len(q) \in Nat
      BY <1>2
    <2>3. opts.n # 0 => ~(p.track = Anchor /\ Len(q) >= opts.n)
      BY <1>5 DEF ShouldFlush
    <2>4. opts.n # 0 => Len(pending[Anchor]) < opts.n
      BY <1>5 DEF Short
    <2> HIDE DEF q
    <2>5. opts.n # 0 => Len(q) < opts.n
      BY <1>3, <2>1, <2>2, <2>3, <2>4
    <2> QED
      BY <1>5, <2>5 DEF Short, q
  <1>6. CASE opts.cadence = "seconds"
    <2>1. opts.n \in Int /\ opts.scale[Anchor] \in Nat
      BY <1>4, AnchorTrack, OptionsAssumption
    <2>2. Ticks(q) \in Nat
      <3>1. Timed(q)
        BY <1>2, SampleQueueTimed
      <3> QED
        BY <3>1, TimedSums
    <2> DEFINE m == opts.n * opts.scale[Anchor]
    <2>3. m \in Int
      BY <2>1
    <2>4. ~(q # <<>> /\ Ticks(q) >= m)
      BY <1>6 DEF ShouldFlush
    <2> HIDE DEF q, m
    <2>5. q = <<>> \/ Ticks(q) < m
      BY <2>2, <2>3, <2>4
    <2> QED
      BY <1>6, <2>5 DEF Short, q, m
  <1>7. CASE opts.cadence \notin {"packets", "seconds"}
    BY <1>7 DEF Short
  <1> QED
    BY <1>5, <1>6, <1>7

LEMMA PublishedEmpties ==
    ASSUME NEW b, Publishes(b), b.held = <<>>
    PROVE  pending'[Anchor] = <<>>
  BY AnchorTrack DEF Publishes, Empty

LEMMA ShortIs == CadenceBounds <=> Short(pending[Anchor])
  BY DEF CadenceBounds, Short
LEMMA ShortNext == opts' = opts => (CadenceBounds' <=> Short(pending'[Anchor]))
  BY DEF CadenceBounds, Short

LEMMA CadenceInit == Init => CadenceBounds
  <1> SUFFICES ASSUME Init PROVE Short(pending[Anchor])
    BY ShortIs
  <1>1. pending[Anchor] = <<>>
    BY AnchorTrack DEF Init, Empty
  <1> QED
    BY <1>1, QueueInvInit, EmptyIsShort DEF QueueInv

LEMMA CadenceNext ==
    QueueInv /\ CadenceBounds /\ [Next]_vars /\ [~Breaks]_vars => CadenceBounds'
  <1> SUFFICES ASSUME QueueInv, CadenceBounds, [Next]_vars, [~Breaks]_vars
               PROVE  CadenceBounds'
    OBVIOUS
  <1>1. CASE WriteHeader
    BY <1>1 DEF WriteHeader, queues, CadenceBounds
  <1>2. CASE QuietCall
    BY <1>2, QuietOutcome DEF CadenceBounds
  <1>3. CASE FlushingCall /\ ~QuietCall
    <2>1. Publishes(Queued) /\ opts' = opts
      BY <1>3, BrokenOrStill, UnbrokenFlush
    <2>2. pending'[Anchor] = <<>>
      BY <2>1, PublishedEmpties DEF Queued, WholeBatch
    <2> QED
      BY <2>1, <2>2, ShortNext, EmptyIsShort DEF QueueInv
  <1>4. ASSUME NEW p \in Packets, QueuePacket(p), ~QuietCall
        PROVE  CadenceBounds'
    <2> DEFINE w == WholeBatch(PendingWith(p), SencWith(p), SeigWith(p))
    <2>1. opts' = opts
      BY <1>4 DEF QueuePacket
    <2>2. w.held = <<>> /\ (Joins(p) => pending' = PendingWith(p))
      BY DEF WholeBatch, Joins, Keeps
    <2>3. \/ ~ShouldFlush(PendingWith(p), p) /\ Joins(p)
          \/ Publishes(w)
          \/ opts.cadence = "keyframe"
      BY <1>4, BrokenOrStill, UnbrokenPacket
    <2> HIDE DEF w
    <2>4. Short(pending'[Anchor])
      <3>1. CASE ~ShouldFlush(PendingWith(p), p) /\ Joins(p)
        BY <2>2, <3>1, ShortIs, PacketShort
      <3>2. CASE Publishes(w)
        BY <2>2, <3>2, PublishedEmpties, EmptyIsShort DEF QueueInv
      <3>3. CASE opts.cadence = "keyframe"
        BY <3>3 DEF Short
      <3> QED
        BY <2>3, <3>1, <3>2, <3>3
    <2> QED
      BY <2>1, <2>4, ShortNext
  <1> QED
    BY <1>1, <1>2, <1>3, <1>4, StepIsACall

(* As long as no flush fails, a fragment never waits for a packet after    *)
(* the one that completed it: between two calls the anchor queue is short  *)
(* of the threshold of FragmentCadence.                                    *)
THEOREM QueueStaysShort == Spec /\ [][~Breaks]_vars => []CadenceBounds
  BY CadenceInit, CadenceNext, QueueInvAlways, PTL DEF Spec

(***************************************************************************)
(* Nothing is dropped as long as no flush fails.                           *)
(***************************************************************************)
LEMMA HeldKept ==
    ASSUME QueueInv, NEW p \in Packets, QueuePacket(p), p.track = Anchor,
           Publishes(HeldBatch(p)), AllThere
    PROVE  AllThere'
  <1> DEFINE b == HeldBatch(p)
             n == packetsTotal[Anchor]
  <1>1. packetsTotal' = [packetsTotal EXCEPT ![Anchor] = @ + 1] /\ Admissible(p)
    BY DEF QueuePacket
  <1>2. /\ packetsTotal \in [Track -> Nat] /\ Anchor \in Track /\ n \in Nat
        /\ published \in [Track -> Seq(Sample)]
    BY AnchorTrack DEF QueueInv, QueueTypes
  <1>3. BatchInv(b)
    BY <1>1, HeldInv
  <1>4. b.pending = pending /\ b.held = <<SampleOf(p)>>
    BY DEF HeldBatch
  <1>5. Ids(b.held) = <<n + 1>>
    BY <1>4 DEF Ids, SampleOf
  <1> HIDE DEF b
  <1>6. /\ Waits' = [[t \in Track |-> <<>>] EXCEPT ![Anchor] = Ids(b.held)]
        /\ Logged' = [t \in Track |-> Ids(published[t]) \o Ids(b.pending[t])]
    BY <1>2, <1>3, PublishesLogs DEF b
  <1>7. \A t \in Track : /\ Waits'[t] = IF t = Anchor THEN <<n + 1>> ELSE <<>>
                         /\ Logged'[t] = Logged[t] \o Waits[t]
    BY <1>2, <1>4, <1>5, <1>6 DEF Logged, Waits
  <1>8. \A t \in Track : Logged'[t] = Counted(packetsTotal[t])
    BY <1>7 DEF AllThere
  <1>9. \A t \in Track : packetsTotal[t] \in Nat /\ Counted(packetsTotal[t]) \in Seq(Nat)
    BY <1>2, CountedNext
  <1>10. ASSUME NEW t \in Track
         PROVE  Logged'[t] \o Waits'[t] = Counted(packetsTotal'[t])
    <2>1. CASE t = Anchor
      <3> DEFINE c == Counted(n)
      <3>1. c \in Seq(Nat) /\ Append(c, n + 1) = Counted(n + 1)
        BY <1>2, CountedNext
      <3>2. n + 1 \in Nat
        BY <1>2
      <3> HIDE DEF c
      <3>3. c \o <<n + 1>> = Append(c, n + 1)
        BY <3>1, <3>2
      <3>4. packetsTotal'[t] = n + 1
        BY <1>1, <1>2, <2>1
      <3> QED
        BY <1>7, <1>8, <2>1, <3>1, <3>3, <3>4 DEF c
    <2>2. CASE t # Anchor
      <3>1. packetsTotal'[t] = packetsTotal[t]
        BY <1>1, <1>2, <2>2
      <3> QED
        BY <1>7, <1>8, <1>9, <2>2, <3>1, EmptyConcat
    <2> QED
      BY <2>1, <2>2
  <1> QED
    BY <1>10 DEF AllThere

LEMMA ThereNext ==
    QueueInv /\ AllThere /\ [Next]_vars /\ [~Breaks]_vars => AllThere'
  <1> SUFFICES ASSUME QueueInv, AllThere, [Next]_vars, [~Breaks]_vars
               PROVE  AllThere'
    OBVIOUS
  <1>1. CASE WriteHeader
    <2>1. UNCHANGED <<opts, packetsTotal, pending, published>>
      BY <1>1 DEF WriteHeader, queues
    <2> QED
      BY <2>1 DEF AllThere, Logged, Waits
  <1>2. CASE QuietCall
    BY <1>2, QuietOutcome DEF AllThere, Logged, Waits
  <1>3. CASE FlushingCall
    BY <1>3, FlushingKept
  <1>4. ASSUME NEW p \in Packets, QueuePacket(p), ~QuietCall
        PROVE  AllThere'
    BY <1>4, BrokenOrStill, UnbrokenPacket, WholeKept, HeldKept
  <1> QED
    BY <1>1, <1>2, <1>3, <1>4, StepIsACall

LEMMA ThereInit == Init => AllThere
  <1> SUFFICES ASSUME Init PROVE AllThere
    OBVIOUS
  <1>1. \A t \in Track : Logged[t] = <<>> /\ Waits[t] = <<>> /\ packetsTotal[t] = 0
    BY EmptyIds DEF Init, Empty, Logged, Waits
  <1>2. <<>> \o <<>> = <<>> /\ Counted(0) = <<>>
    BY DEF Counted
  <1> QED
    BY <1>1, <1>2 DEF AllThere

(* As long as no flush fails nothing is ever dropped, under any cadence:   *)
(* the detached keyframe of EveryKeyframe comes back after every flush.    *)
THEOREM NothingDroppedUnbroken == Spec /\ [][~Breaks]_vars => []NoneDropped
  <1>1. Spec /\ [][~Breaks]_vars => []AllThere
    BY ThereInit, ThereNext, QueueInvAlways, PTL DEF Spec
  <1>2. QueueInv /\ AllThere => NoneDropped
    <2> SUFFICES ASSUME QueueInv, AllThere, NEW t \in Track
                 PROVE  Accounted(t) = [k \in 1..packetsTotal[t] |-> k]
      BY DEF NoneDropped
    <2>1. pending[t] \in Seq(Sample) /\ published[t] \in Seq(Sample)
      BY DEF QueueInv, QueueTypes
    <2>2. Accounted(t) = Ids(published[t]) \o Ids(pending[t])
      BY <2>1, IdsConcat DEF Accounted
    <2> QED
      BY <2>2 DEF AllThere, Logged, Waits, Counted
  <1> QED
    BY <1>1, <1>2, QueueInvAlways, PTL

(***************************************************************************)
(* A request is delivered with the next segment.                           *)
(***************************************************************************)
LEMMA EmsgAt ==
    ASSUME QueueTypes, RequestsInv, NEW b, NEW k \in 1..Len(pendingEmsg)
    PROVE  \E j \in 1..Len(Prelude(b)) :
              Prelude(b)[j].kind = "emsg" /\ Prelude(b)[j].id = pendingEmsg[k].id
  <1> DEFINE x == Indexes(b) \o Styp
             e == Emsg
             y == x \o e
  <1>1. /\ Only(PreludeKinds, Indexes(b)) /\ Only(PreludeKinds, Styp)
        /\ Only(PreludeKinds, Emsg) /\ Only(PreludeKinds, Prft)
    BY IndexesIs, StypIs, EmsgIs, PrftIs, OnlyWidens DEF PreludeKinds
  <1>2. IsFile(x) /\ IsFile(e) /\ IsFile(Prft)
    BY <1>1, FileConcat DEF Only
  <1>3. Prelude(b) = y \o Prft
    BY DEF Prelude
  <1>4. /\ Len(e) = Len(pendingEmsg) /\ e[k].kind = "emsg" /\ e[k].id = pendingEmsg[k].id
    <2>1. Len(e) = Len(pendingEmsg)
      BY EmsgIs
    <2>2. k \in DOMAIN pendingEmsg
      BY DEF RequestsInv, IsFile
    <2> QED
      BY <2>1, <2>2 DEF Emsg
  <1> HIDE DEF x, e
  <1>5. /\ IsFile(y) /\ Len(y) = Len(x) + Len(e) /\ y[Len(x) + k] = e[k]
    BY <1>2, <1>4, FileConcat
  <1> HIDE DEF y
  <1>6. /\ Len(Prelude(b)) = Len(y) + Len(Prft)
        /\ \A j \in 1..Len(y) : Prelude(b)[j] = y[j]
    <2>1. IsFile(y) /\ IsFile(Prft)
      BY <1>2, <1>5
    <2>2. /\ Len(y \o Prft) = Len(y) + Len(Prft)
          /\ \A j \in 1..Len(y) : (y \o Prft)[j] = y[j]
      BY <2>1, FileConcat
    <2> QED
      BY <1>3, <2>2
  <1>7. Len(x) \in Nat /\ Len(e) \in Nat /\ Len(Prft) \in Nat
    BY <1>2 DEF IsFile
  <1> DEFINE j == Len(x) + k
  <1>8. j \in 1..Len(y) /\ j \in 1..Len(Prelude(b))
    BY <1>4, <1>5, <1>6, <1>7
  <1>9. Prelude(b)[j] = e[k]
    BY <1>5, <1>6, <1>8
  <1> HIDE DEF j
  <1> QED
    BY <1>4, <1>8, <1>9

LEMMA DeliveredIs ==
    ASSUME NEW f, NEW i, i \in {f[y].id : y \in ToSet(OfKind(f, "emsg"))}
    PROVE  i \in Delivered(f)
  BY DEF Delivered

LEMMA Delivers ==
    ASSUME FileInv, headerWritten, NEW b, BatchInv(b), ~Idle(b),
           NEW extra, Completes(b, extra)
    PROVE  Waiting \subseteq Delivered(file')
  <1> DEFINE g == Chunk(b, extra)
             h == file \o g
             n == Len(Prelude(b))
             L == Len(file)
             f == file'
  <1>1. IsFile(file) /\ QueueTypes /\ RequestsInv
    BY DEF FileInv, QueueInv
  <1>2. IsFile(g) /\ Alike(h, f)
    BY CompletedFile
  <1>3. IsFile(extra)
    <2>1. Ends(b, extra, nextBmdt')
      BY DEF Completes
    <2> QED
      BY <2>1, EndsTyped DEF Only
  <1>4. /\ n \in Nat /\ Len(g) = n + 2 + Len(extra) /\ Len(extra) \in Nat
        /\ \A k \in 1..n : g[k] = Prelude(b)[k]
        /\ g[n + 1] = BuildMoof(b)
    BY <1>3, ChunkBoxes DEF IsFile
  <1>5. BuildMoof(b).kind = "moof" /\ BuildMoof(b).pssh = pendingMoofPssh
    BY MoofIs
  <1> HIDE DEF g, h, n, f
  <1>6. /\ IsFile(h) /\ Len(h) = L + Len(g)
        /\ \A k \in 1..Len(g) : h[L + k] = g[k]
    BY <1>1, <1>2, FileConcat DEF h
  <1>7. /\ IsFile(f) /\ Len(f) = Len(h)
        /\ \A k \in 1..Len(h) : h[k].kind # "moov" => f[k] = h[k]
    BY <1>2, <1>6, AlikeFile DEF Alike
  <1>8. /\ ToSet(Moofs(f)) = {k \in 1..Len(f) : f[k].kind = "moof"}
        /\ ToSet(OfKind(f, "emsg")) = {k \in 1..Len(f) : f[k].kind = "emsg"}
    BY <1>7, OfKindIs DEF Moofs
  <1>9. L \in Nat
    BY <1>1 DEF IsFile
  <1>10. \A k \in 1..Len(g) : L + k \in 1..Len(f)
    BY <1>4, <1>6, <1>7, <1>9
  <1>11. \A k \in 1..Len(g) : g[k].kind # "moov" => f[L + k] = g[k]
    BY <1>6, <1>7, <1>10
  <1>12. ASSUME NEW i \in RequestIds(pendingMoofPssh)
         PROVE  i \in Delivered(f)
    <2> DEFINE m == L + (n + 1)
    <2>1. n + 1 \in 1..Len(g)
      BY <1>4
    <2>2. m \in 1..Len(f) /\ f[m] = BuildMoof(b)
      BY <1>4, <1>5, <1>10, <1>11, <2>1
    <2> HIDE DEF m
    <2>3. m \in ToSet(Moofs(f)) /\ i \in RequestIds(f[m].pssh)
      BY <1>5, <1>8, <2>2
    <2> QED
      BY <2>3, Zenon DEF Delivered
  <1>13. ASSUME NEW i \in RequestIds(pendingEmsg)
         PROVE  i \in Delivered(f)
    <2>1. PICK k \in 1..Len(pendingEmsg) : i = pendingEmsg[k].id
      BY <1>1 DEF RequestIds, RequestsInv, IsFile
    <2>2. PICK j \in 1..n : Prelude(b)[j].kind = "emsg" /\ Prelude(b)[j].id = i
      BY <1>1, <2>1, EmsgAt DEF n
    <2>3. j \in 1..Len(g) /\ g[j].kind = "emsg" /\ g[j].id = i
      BY <1>4, <2>2
    <2> DEFINE m == L + j
    <2>4. m \in 1..Len(f) /\ f[m] = g[j]
      BY <1>10, <1>11, <2>3
    <2> HIDE DEF m
    <2>5. m \in ToSet(OfKind(f, "emsg")) /\ f[m].id = i
      BY <1>8, <2>3, <2>4
    <2>6. i \in {f[y].id : y \in ToSet(OfKind(f, "emsg"))}
      BY <2>5
    <2> QED
      BY <2>6, DeliveredIs
  <1> QED
    BY <1>12, <1>13 DEF Waiting, f

LEMMA StillWaits ==
    ASSUME UNCHANGED <<pendingMoofPssh, pendingEmsg>>
    PROVE  Waiting' = Waiting
  BY DEF Waiting

LEMMA MoreRequests ==
    ASSUME NEW q, IsFile(q), NEW x
    PROVE  RequestIds(q) \subseteq RequestIds(Append(q, x))
  <1>1. PICK S : q \in Seq(S)
    BY DEF IsFile
  <1> DEFINE T == S \cup {x}
  <1>2. q \in Seq(T) /\ x \in T
    BY <1>1
  <1> HIDE DEF T
  <1>3. /\ DOMAIN q = 1..Len(q) /\ DOMAIN Append(q, x) = 1..(Len(q) + 1) /\ Len(q) \in Nat
        /\ \A k \in 1..Len(q) : Append(q, x)[k] = q[k]
    BY <1>2
  <1> QED
    BY <1>3 DEF RequestIds

(* A completed call keeps the requests, or writes a segment.               *)
Serves == \E b, extra : /\ headerWritten /\ BatchInv(b) /\ ~Idle(b)
                        /\ Completes(b, extra)

LEMMA TakenOrServed ==
    ASSUME headerWritten, NEW b, BatchInv(b), ~FlushBreaks(b), TakeRequests(b),
           FlushBreaks(b) \/ \E extra : Completes(b, extra)
    PROVE  Waiting \subseteq Waiting' \/ Serves
  <1>1. CASE Idle(b)
    BY <1>1, StillWaits DEF TakeRequests, requests
  <1>2. CASE ~Idle(b)
    BY <1>2, Zenon DEF Serves
  <1> QED
    BY <1>1, <1>2

LEMMA WaitsOrServed ==
    ASSUME FileInv, [Next]_vars, ~Breaks \/ QuietCall
    PROVE  Waiting \subseteq Waiting' \/ Serves
  <1>1. IsFile(file) /\ QueueInv /\ QueueTypes /\ RequestsInv /\ HeaderInv
    BY DEF FileInv, QueueInv
  <1>2. CASE WriteHeader \/ HeaderFails \/ UNCHANGED vars
    BY <1>2, StillWaits DEF WriteHeader, HeaderFails, vars, requests
  <1>3. ASSUME NEW size, SetStyp(size) \/ SetPrft(size)
        PROVE  Waiting \subseteq Waiting' \/ Serves
    BY <1>3, StillWaits DEF SetStyp, SetPrft
  <1>4. ASSUME NEW x, SetPssh(x)
        PROVE  Waiting \subseteq Waiting' \/ Serves
    <2>1. /\ pendingMoofPssh' = Append(pendingMoofPssh,
                                       [id |-> asked + 1, ok |-> x.ok, size |-> x.size])
          /\ pendingEmsg' = pendingEmsg
      BY <1>4 DEF SetPssh
    <2>2. RequestIds(pendingMoofPssh) \subseteq RequestIds(pendingMoofPssh')
      BY <1>1, <2>1, MoreRequests DEF RequestsInv
    <2> QED
      BY <2>1, <2>2 DEF Waiting
  <1>5. ASSUME NEW x, SetEmsg(x)
        PROVE  Waiting \subseteq Waiting' \/ Serves
    <2>1. /\ pendingEmsg' = Append(pendingEmsg,
                                   [id |-> asked + 1, ok |-> x.ok, size |-> x.size])
          /\ pendingMoofPssh' = pendingMoofPssh
      BY <1>5 DEF SetEmsg
    <2>2. RequestIds(pendingEmsg) \subseteq RequestIds(pendingEmsg')
      BY <1>1, <2>1, MoreRequests DEF RequestsInv
    <2> QED
      BY <2>1, <2>2 DEF Waiting
  <1>6. ASSUME NEW p \in Packets, QueuePacket(p), ~Breaks
        PROVE  Waiting \subseteq Waiting' \/ Serves
    <2>1. Admissible(p) /\ headerWritten
      BY <1>6 DEF QueuePacket, Admissible
    <2>2. CASE ~ShouldFlush(PendingWith(p), p)
      BY <1>6, <2>2, StillWaits DEF QueuePacket, requests
    <2>3. CASE ShouldFlush(PendingWith(p), p)
      <3> DEFINE b == CadenceBatch(PendingWith(p), SencWith(p), SeigWith(p))
      <3>1. Flush(b) /\ ~FlushBreaks(b)
        BY <1>6, <2>3 DEF QueuePacket, Breaks, CallBatches
      <3>2. BatchInv(b)
        BY <1>1, <2>1, <2>3, PacketBatch
      <3> HIDE DEF b
      <3>3. IsFile(FileAfter(b))
        BY <1>1, <3>2, SegmentedFile
      <3>4. FlushBreaks(b) \/ \E extra : Completes(b, extra)
        BY <3>1, <3>3, FlushIsStep
      <3>5. TakeRequests(b)
        BY <3>1 DEF Flush, FlushDone
      <3> QED
        BY <2>1, <3>1, <3>2, <3>4, <3>5, TakenOrServed
    <2> QED
      BY <2>2, <2>3
  <1>7. ASSUME FlushingCall, ~Breaks
        PROVE  Waiting \subseteq Waiting' \/ Serves
    <2>1. BatchInv(Queued) /\ ~FlushBreaks(Queued)
      BY <1>1, <1>7, QueuedInv DEF Breaks, CallBatches
    <2>2. headerWritten
      BY <1>1, <1>7, FlushingOpen
    <2>3. FlushBreaks(Queued) \/ \E extra : Completes(Queued, extra)
      BY <1>1, <1>7, FlushingStep
    <2>4. \A extra, seq, bmdt : FlushThen(extra, seq, bmdt) => TakeRequests(Queued)
      BY DEF FlushThen
    <2>5. TakeRequests(Queued)
      <3>1. FlushFragment => TakeRequests(Queued)
        BY <2>1 DEF FlushFragment, Flush, FlushDone
      <3>2. \A t \in Track, d \in GapDurations :
                InsertEmptyTime(t, d) => TakeRequests(Queued)
        BY <2>1, <2>4 DEF InsertEmptyTime
      <3>3. WriteTrailer => TakeRequests(Queued)
        BY <2>1, <2>4 DEF WriteTrailer, TrailerDone, TrailerCut
      <3> QED
        BY <1>7, <3>1, <3>2, <3>3 DEF FlushingCall
    <2> QED
      BY <2>1, <2>2, <2>3, <2>5, TakenOrServed
  <1>8. CASE QuietCall
    BY <1>2, <1>3, <1>4, <1>5, <1>8 DEF QuietCall
  <1> QED
    BY <1>2, <1>6, <1>7, <1>8, StepIsACall

LEMMA RequestsServed ==
    FileInv /\ [Next]_vars /\ [~Breaks]_vars
        => [Waiting \subseteq Waiting' \cup Delivered(file')]_vars
  <1> SUFFICES ASSUME FileInv, [Next]_vars, [~Breaks]_vars
               PROVE  Waiting \subseteq Waiting' \cup Delivered(file')
    OBVIOUS
  <1>1. Waiting \subseteq Waiting' \/ Serves
    BY BrokenOrStill, WaitsOrServed
  <1>2. CASE Serves
    <2>1. PICK b, extra : /\ headerWritten /\ BatchInv(b) /\ ~Idle(b)
                          /\ Completes(b, extra)
      BY <1>2 DEF Serves
    <2> QED
      BY <2>1, Delivers
  <1> QED
    BY <1>1, <1>2

(* As long as no flush fails, a queued pssh or emsg request stays queued   *)
(* until the call that writes it.                                          *)
THEOREM RequestsDelivered == Spec /\ [][~Breaks]_vars => RequestsKept
  <1>1. FileInv /\ [Next]_vars /\ [~Breaks]_vars
            => [Waiting \subseteq Waiting' \cup Delivered(file')]_vars
    BY RequestsServed
  <1> QED
    BY <1>1, FileInvAlways, PTL DEF Spec, RequestsKept

(***************************************************************************)
(* A sidx or ssix at k and the segment it is written before: its moof is   *)
(* box m, its mdat the box after.                                          *)
(***************************************************************************)
Leads(f, k, m) ==
    /\ m \in 1..Len(f) /\ m + 1 \in 1..Len(f) /\ k < m
    /\ f[m].kind = "moof" /\ f[m + 1].kind = "mdat"
    /\ \A j \in k..(m - 1) : f[j].kind \notin {"moof", "mdat"}
Described(f, k, m) ==
    LET run == OfTrack(Rows(f, m), f[k].track)
    IN  /\ Position(f, k + 1) + f[k].referenced = Position(f, m + 2)
        /\ run # <<>> /\ f[k].ept = run[1].dts
        /\ f[k].duration = Ticks(run) /\ f[k].sap = run[1].key
Divided(f, k, m) ==
    /\ Position(f, k + 1) + f[k].ranges[1] = Position(f, m + 1)
    /\ Position(f, m + 1) + f[k].ranges[2] = Position(f, m + 2)

(* `paired`: a sidx has an ssix behind it.                                 *)
Fits(paired, f, k) ==
    /\ f[k].kind = "ssix" => \E m \in Nat : Leads(f, k, m) /\ Divided(f, k, m)
    /\ f[k].kind = "sidx" /\ ~paired =>
         \E m \in Nat : Leads(f, k, m) /\ Described(f, k, m)

(* h goes on where f ends; at most the moov of f is patched.               *)
Prefixed(f, h) ==
    /\ Len(f) <= Len(h)
    /\ \A j \in 1..Len(f) : h[j].kind = f[j].kind
    /\ \A j \in 1..Len(f) : f[j].kind # "moov" => h[j] = f[j]
    /\ \A j \in 1..(Len(f) + 1) : Position(h, j) = Position(f, j)

LEMMA AlikePrefixed ==
    ASSUME NEW f, NEW g, NEW h, IsFile(f), IsFile(g), Alike(f \o g, h)
    PROVE  Prefixed(f, h)
  <1> DEFINE e == f \o g
  <1>1. /\ IsFile(e) /\ Len(e) = Len(f) + Len(g) /\ \A j \in 1..Len(f) : e[j] = f[j]
        /\ \A j \in 1..(Len(f) + 1) : Position(e, j) = Position(f, j)
    BY FileConcat
  <1>2. Len(f) \in Nat /\ Len(g) \in Nat
    BY DEF IsFile
  <1>3. Alike(e, h)
    OBVIOUS
  <1> HIDE DEF e
  <1>4. /\ Len(h) = Len(e) /\ \A k \in 1..(Len(e) + 1) : Position(h, k) = Position(e, k)
    BY <1>1, <1>3, AlikePositions
  <1>5. \A j \in 1..Len(f) : j \in 1..Len(e)
    BY <1>1, <1>2
  <1>6. \A j \in 1..(Len(f) + 1) : j \in 1..(Len(e) + 1)
    BY <1>1, <1>2
  <1>7. \A j \in 1..Len(f) : h[j].kind = f[j].kind /\ (f[j].kind # "moov" => h[j] = f[j])
    BY <1>1, <1>3, <1>5 DEF Alike
  <1>8. ASSUME NEW j \in 1..(Len(f) + 1) PROVE Position(h, j) = Position(f, j)
    <2>1. Position(h, j) = Position(e, j)
      BY <1>4, <1>6
    <2> QED
      BY <1>1, <2>1
  <1>9. Len(f) <= Len(h)
    BY <1>1, <1>2, <1>4
  <1> QED
    BY <1>7, <1>8, <1>9 DEF Prefixed

LEMMA LeadsStays ==
    ASSUME NEW f, NEW h, IsFile(f), IsFile(h), Prefixed(f, h), NEW k \in 1..Len(f),
           NEW m \in Nat, Leads(f, k, m)
    PROVE  /\ Leads(h, k, m) /\ h[m] = f[m]
           /\ Position(h, k + 1) = Position(f, k + 1) /\ Position(h, m) = Position(f, m)
           /\ Position(h, m + 1) = Position(f, m + 1) /\ Position(h, m + 2) = Position(f, m + 2)
  <1> DEFINE L == Len(f)
             N == Len(h)
  <1>1. L \in Nat /\ N \in Nat /\ L <= N
    BY DEF IsFile, Prefixed
  <1>2. /\ m \in 1..L /\ m + 1 \in 1..L /\ k < m /\ k \in 1..L
        /\ f[m].kind = "moof" /\ f[m + 1].kind = "mdat"
        /\ \A j \in k..(m - 1) : f[j].kind \notin {"moof", "mdat"}
    BY DEF Leads
  <1>3. /\ \A j \in 1..L : h[j].kind = f[j].kind /\ (f[j].kind # "moov" => h[j] = f[j])
        /\ \A j \in 1..(L + 1) : Position(h, j) = Position(f, j)
    BY DEF Prefixed
  <1>4. Leads(h, k, m) <=>
          /\ m \in 1..N /\ m + 1 \in 1..N /\ k < m
          /\ h[m].kind = "moof" /\ h[m + 1].kind = "mdat"
          /\ \A j \in k..(m - 1) : h[j].kind \notin {"moof", "mdat"}
    BY DEF Leads
  <1> HIDE DEF L, N
  <1>5. /\ \A j \in k..(m - 1) : j \in 1..L
        /\ m \in 1..N /\ m + 1 \in 1..N
        /\ k + 1 \in 1..(L + 1) /\ m \in 1..(L + 1) /\ m + 1 \in 1..(L + 1)
        /\ m + 2 \in 1..(L + 1)
    BY <1>1, <1>2
  <1>6. \A j \in k..(m - 1) : h[j].kind \notin {"moof", "mdat"}
    BY <1>2, <1>3, <1>5
  <1>7. h[m].kind = "moof" /\ h[m + 1].kind = "mdat" /\ h[m] = f[m]
    BY <1>2, <1>3
  <1>8. Leads(h, k, m)
    BY <1>2, <1>4, <1>5, <1>6, <1>7
  <1> QED
    BY <1>3, <1>5, <1>7, <1>8

LEMMA FitsStays ==
    ASSUME NEW f, NEW h, IsFile(f), IsFile(h), Prefixed(f, h), NEW k \in 1..Len(f),
           NEW paired, Fits(paired, f, k)
    PROVE  Fits(paired, h, k)
  <1>1. h[k].kind = f[k].kind /\ (f[k].kind # "moov" => h[k] = f[k])
    BY DEF Prefixed
  <1>2. ASSUME h[k].kind = "ssix"
        PROVE  \E m \in Nat : Leads(h, k, m) /\ Divided(h, k, m)
    <2>1. PICK m \in Nat : Leads(f, k, m) /\ Divided(f, k, m)
      BY <1>1, <1>2 DEF Fits
    <2>2. h[k] = f[k]
      BY <1>1, <1>2
    <2>3. /\ Leads(h, k, m) /\ Position(h, k + 1) = Position(f, k + 1)
          /\ Position(h, m + 1) = Position(f, m + 1) /\ Position(h, m + 2) = Position(f, m + 2)
      BY <2>1, LeadsStays
    <2>4. Divided(h, k, m)
      BY <2>1, <2>2, <2>3 DEF Divided
    <2> QED
      BY <2>3, <2>4
  <1>3. ASSUME h[k].kind = "sidx", ~paired
        PROVE  \E m \in Nat : Leads(h, k, m) /\ Described(h, k, m)
    <2>1. PICK m \in Nat : Leads(f, k, m) /\ Described(f, k, m)
      BY <1>1, <1>3 DEF Fits
    <2>2. h[k] = f[k]
      BY <1>1, <1>3
    <2>3. /\ Leads(h, k, m) /\ Position(h, k + 1) = Position(f, k + 1) /\ h[m] = f[m]
          /\ Position(h, m) = Position(f, m) /\ Position(h, m + 2) = Position(f, m + 2)
      BY <2>1, LeadsStays
    <2>4. Rows(h, m) = Rows(f, m)
      BY <2>3, RowsSame
    <2>5. Described(h, k, m)
      BY <2>1, <2>2, <2>3, <2>4 DEF Described
    <2> QED
      BY <2>3, <2>5
  <1> QED
    BY <1>2, <1>3 DEF Fits

(* Only sidx and ssix boxes have to fit anything.                          *)
LEMMA OthersFit ==
    ASSUME NEW f, NEW k, NEW paired,
           f[k].kind # "ssix", f[k].kind = "sidx" => paired
    PROVE  Fits(paired, f, k)
  BY DEF Fits

SegsInv == ~opts.io => \A k \in 1..Len(file) : Fits(opts.ssix, file, k)

LEMMA SegsKept ==
    ASSUME FileInv, SegsInv, UNCHANGED opts, NEW g, IsFile(g), Alike(file \o g, file'),
           ~opts.io => \A k \in 1..Len(g) : Fits(opts.ssix, file', Len(file) + k)
    PROVE  SegsInv'
  <1> SUFFICES ASSUME ~opts.io PROVE SegsInv'
    BY DEF SegsInv
  <1> DEFINE L == Len(file)
             G == Len(g)
             h == file'
  <1>1. IsFile(file) /\ IsFile(file \o g) /\ Len(file \o g) = L + G
    BY FileConcat DEF FileInv
  <1>2. IsFile(h) /\ Len(h) = L + G
    BY <1>1, AlikePositions
  <1>3. Prefixed(file, h)
    BY <1>1, AlikePrefixed
  <1>4. L \in Nat /\ G \in Nat
    BY <1>1 DEF IsFile
  <1>5. \A k \in 1..L : Fits(opts.ssix, file, k)
    BY DEF SegsInv
  <1> HIDE DEF h
  <1>6. \A k \in 1..L : Fits(opts.ssix, h, k)
    BY <1>1, <1>2, <1>3, <1>5, FitsStays
  <1>7. \A k \in 1..G : Fits(opts.ssix, h, L + k)
    BY DEF h
  <1> HIDE DEF L, G
  <1>8. ASSUME NEW k \in 1..Len(h) PROVE Fits(opts.ssix, h, k)
    <2>1. k \in 1..(L + G)
      BY <1>2
    <2>2. CASE k \in 1..L
      BY <1>6, <2>2
    <2>3. CASE k \notin 1..L
      <3> DEFINE j == k - L
      <3>1. j \in 1..G /\ L + j = k
        BY <1>4, <2>1, <2>3
      <3> HIDE DEF j
      <3> QED
        BY <1>7, <3>1
    <2> QED
      BY <2>2, <2>3
  <1> QED
    BY <1>8 DEF SegsInv, h

LEMMA QuietSegs ==
    ASSUME FileInv, SegsInv, UNCHANGED opts, NEW g, IsFile(g), file' = file \o g,
           ~opts.io => \A k \in 1..Len(g) :
                          g[k].kind # "ssix" /\ (g[k].kind = "sidx" => opts.ssix)
    PROVE  SegsInv'
  <1>1. IsFile(file) /\ IsFile(file') /\ \A k \in 1..Len(g) : file'[Len(file) + k] = g[k]
    BY FileConcat DEF FileInv
  <1>2. Alike(file \o g, file')
    BY <1>1, AlikeSelf
  <1>3. ~opts.io => \A k \in 1..Len(g) : Fits(opts.ssix, file', Len(file) + k)
    BY <1>1, OthersFit
  <1> QED
    BY <1>2, <1>3, SegsKept

(***************************************************************************)
(* A segment as it is written.  The bytes between its last index box and   *)
(* its mdat are MetaBytes.                                                 *)
(***************************************************************************)
Meta == Styp \o Emsg \o Prft

LEMMA PreludeParts ==
    ASSUME QueueTypes, RequestsInv, NEW b
    PROVE  /\ IsFile(Indexes(b)) /\ Only({"styp", "emsg", "prft"}, Meta)
           /\ Prelude(b) = Indexes(b) \o Meta
           /\ EndOf(Meta) + BuildMoof(b).size = MetaBytes(b)
  <1>1. Only({"styp"}, Styp) /\ Only({"emsg"}, Emsg) /\ Only({"prft"}, Prft)
    BY StypIs, EmsgIs, PrftIs
  <1> DEFINE K == {"styp", "emsg", "prft"}
  <1>2. Only(K, Styp) /\ Only(K, Emsg) /\ Only(K, Prft)
    BY <1>1 DEF Only
  <1> HIDE DEF K
  <1>3. Only(K, Styp \o Emsg) /\ Only(K, Meta)
    BY <1>2, OnlyConcat DEF Meta
  <1>4. IsFile(Indexes(b)) /\ IsFile(Styp) /\ IsFile(Emsg) /\ IsFile(Prft) /\ IsFile(Styp \o Emsg)
    BY <1>2, <1>3, IndexesIs DEF Only
  <1>5. EndOf(Styp \o Emsg) = EndOf(Styp) + EndOf(Emsg)
    BY <1>4, FileConcat
  <1>6. EndOf(Meta) = EndOf(Styp \o Emsg) + EndOf(Prft)
    BY <1>4, FileConcat DEF Meta
  <1>7. EndOf(Meta) + BuildMoof(b).size = MetaBytes(b)
    BY <1>5, <1>6 DEF MetaBytes, EndOf
  <1>8. Prelude(b) = Indexes(b) \o Meta
    <2>1. PICK S : Indexes(b) \in Seq(S)
      BY <1>4 DEF IsFile
    <2>2. PICK T : Styp \in Seq(T)
      BY <1>4 DEF IsFile
    <2>3. PICK U : Emsg \in Seq(U)
      BY <1>4 DEF IsFile
    <2>4. PICK V : Prft \in Seq(V)
      BY <1>4 DEF IsFile
    <2> DEFINE W == S \cup T \cup U \cup V
               a1 == Indexes(b)
               a2 == Styp
               a3 == Emsg
               a4 == Prft
    <2>5. a1 \in Seq(W) /\ a2 \in Seq(W) /\ a3 \in Seq(W) /\ a4 \in Seq(W)
      BY <2>1, <2>2, <2>3, <2>4
    <2> HIDE DEF W, a1, a2, a3, a4
    <2>6. a1 \o a2 \o a3 \o a4 = a1 \o (a2 \o a3 \o a4)
      <3>1. (a1 \o a2) \o a3 = a1 \o (a2 \o a3) /\ a2 \o a3 \in Seq(W)
        BY <2>5, ConcatAssociative, ConcatProperties
      <3>2. (a1 \o (a2 \o a3)) \o a4 = a1 \o ((a2 \o a3) \o a4)
        BY <2>5, <3>1, ConcatAssociative, SMTT(30), ZenonT(60)
      <3> QED
        BY <3>1, <3>2
    <2> QED
      BY <2>6 DEF Prelude, Meta, a1, a2, a3, a4
  <1> QED
    BY <1>3, <1>4, <1>7, <1>8 DEF K

LEMMA SegmentSits ==
    ASSUME FileInv, NEW b, BatchInv(b), ~Idle(b), NEW extra, IsFile(extra)
    PROVE  LET h == file \o Chunk(b, extra)
               I == Len(file) + Len(Indexes(b))
               M == Len(file) + (Len(Prelude(b)) + 1)
           IN  /\ I \in Nat /\ M \in Nat /\ I < M /\ M + 1 <= Len(h)
               /\ Len(h) = M + 1 + Len(extra)
               /\ h[M] = BuildMoof(b) /\ h[M + 1] = BuildMdat(b)
               /\ \A k \in 1..Len(Indexes(b)) : h[Len(file) + k] = Indexes(b)[k]
               /\ \A k \in (I + 1)..(M - 1) : h[k].kind \in {"styp", "emsg", "prft"}
               /\ \A k \in 1..Len(extra) : h[M + 1 + k] = extra[k]
               /\ Position(h, M) \in Nat
               /\ Position(h, I + 1) + MetaBytes(b) = Position(h, M + 1)
               /\ Position(h, M + 1) + BuildMdat(b).size = Position(h, M + 2)
  <1> DEFINE g == Chunk(b, extra)
             h == file \o g
             L == Len(file)
             x == Indexes(b)
             y == Meta
             p == Prelude(b)
             z == <<BuildMoof(b), BuildMdat(b)>>
             X == Len(x)
             Y == Len(y)
             E == Len(extra)
             I == L + X
             M == L + (Len(p) + 1)
  <1>1. BatchTyped(b.pending, b.senc, b.seig) /\ QueueTypes /\ RequestsInv /\ IsFile(file)
    BY DEF BatchInv, FileInv, QueueInv
  <1>2. /\ IsFile(x) /\ Only({"styp", "emsg", "prft"}, y) /\ p = x \o y
        /\ EndOf(y) + BuildMoof(b).size = MetaBytes(b)
    BY <1>1, PreludeParts
  <1>3. IsFile(y) /\ \A k \in 1..Y : y[k].kind \in {"styp", "emsg", "prft"}
    BY <1>2 DEF Only
  <1>4. L \in Nat /\ X \in Nat /\ Y \in Nat /\ E \in Nat
    BY <1>1, <1>2, <1>3 DEF IsFile
  <1>5. /\ Len(g) = Len(p) + 2 + E
        /\ \A k \in 1..Len(p) : g[k] = p[k]
        /\ g[Len(p) + 1] = BuildMoof(b) /\ g[Len(p) + 2] = BuildMdat(b)
        /\ \A k \in 1..E : g[Len(p) + 2 + k] = extra[k]
    BY ChunkBoxes
  <1>6. IsFile(g)
    BY ChunkIs
  <1>7. BuildMoof(b).size \in Nat \ {0} /\ BuildMdat(b).size \in Nat \ {0}
    BY <1>1, BoxesSized
  <1> HIDE DEF g, x, y, p, z
  <1>8. /\ Len(p) = X + Y /\ \A k \in 1..X : p[k] = x[k]
        /\ \A k \in 1..Y : p[X + k] = y[k]
    BY <1>2, <1>3, FileConcat
  <1>9. /\ IsFile(h) /\ Len(h) = L + Len(g) /\ \A k \in 1..Len(g) : h[L + k] = g[k]
    BY <1>1, <1>6, FileConcat
  <1> HIDE DEF h
  <1>10. \A k \in 1..(Len(g) + 1) : Position(h, L + k) = EndOf(file) + Position(g, k)
    BY <1>1, <1>6, FileConcat DEF h
  <1> DEFINE A == EndOf(file)
             moof == BuildMoof(b)
             mdat == BuildMdat(b)
  <1>11. A \in Nat /\ \A k \in 1..(Len(g) + 1) : Position(g, k) \in Nat
    BY <1>1, <1>6, FilePositions
  <1>12. \A k \in 1..Len(g) : Position(g, k + 1) = Position(g, k) + g[k].size
    BY <1>6, FilePositions
  <1>13. \A k \in 1..(Len(p) + 1) : Position(g, k) = Position(p, k)
    <2>1. IsFile(p)
      BY <1>2, <1>3, FileConcat
    <2>2. PICK q : IsFile(q) /\ g = p \o q
      <3>1. Segment(b) = p \o Pair(b) /\ Only({"moof", "mdat"}, Pair(b))
        BY <1>1, SegmentIs DEF p
      <3>2. g = (p \o Pair(b)) \o extra
        BY <3>1 DEF g, Chunk
      <3> DEFINE r == Pair(b)
      <3>3. IsFile(r)
        BY <3>1 DEF Only
      <3>4. g = (p \o r) \o extra
        BY <3>2
      <3> HIDE DEF r
      <3>5. g = p \o (r \o extra)
        <4>1. PICK S : p \in Seq(S)
          BY <2>1 DEF IsFile
        <4>2. PICK T : r \in Seq(T)
          BY <3>3 DEF IsFile
        <4>3. PICK U : extra \in Seq(U)
          BY DEF IsFile
        <4> DEFINE W == S \cup T \cup U
        <4>4. p \in Seq(W) /\ r \in Seq(W) /\ extra \in Seq(W)
          BY <4>1, <4>2, <4>3
        <4> HIDE DEF W
        <4> QED
          BY <3>4, <4>4, ConcatAssociative
      <3>6. IsFile(r \o extra)
        BY <3>3, FileConcat
      <3> QED
        BY <3>5, <3>6
    <2> QED
      BY <2>1, <2>2, FileConcat
  <1>14. Position(p, X + 1) = EndOf(x) /\ Position(p, X + (Y + 1)) = EndOf(x) + EndOf(y)
         /\ EndOf(x) \in Nat /\ EndOf(y) \in Nat
    <2>1. /\ \A k \in 1..(X + 1) : Position(p, k) = Position(x, k)
          /\ \A k \in 1..(Y + 1) : Position(p, X + k) = EndOf(x) + Position(y, k)
      BY <1>2, <1>3, FileConcat
    <2>2. Position(x, X + 1) = EndOf(x) /\ Position(y, Y + 1) = EndOf(y)
          /\ EndOf(x) \in Nat /\ EndOf(y) \in Nat
      BY <1>2, <1>3, FilePositions
    <2>3. X + 1 \in 1..(X + 1) /\ Y + 1 \in 1..(Y + 1)
      BY <1>4
    <2> QED
      BY <2>1, <2>2, <2>3
  <1> DEFINE P == Len(p)
             ex == EndOf(x)
             ey == EndOf(y)
  <1>15. P = X + Y /\ P \in Nat /\ Len(g) = P + 2 + E /\ Len(h) = L + (P + 2 + E)
    <2> DEFINE G == Len(g)
               H == Len(h)
    <2>1. P = X + Y /\ G = P + 2 + E /\ H = L + G
      BY <1>5, <1>8, <1>9
    <2>2. L \in Nat /\ X \in Nat /\ Y \in Nat /\ E \in Nat
      BY <1>4
    <2> HIDE DEF G, H, P, X, Y, L, E
    <2>3. P = X + Y /\ P \in Nat /\ G = P + 2 + E /\ H = L + (P + 2 + E)
      BY <2>1, <2>2
    <2> QED
      BY <2>3 DEF G, H
  <1>16. Position(g, X + 1) = ex /\ Position(g, P + 1) = ex + ey
    <2>1. X + 1 \in 1..(Len(p) + 1) /\ P + 1 \in 1..(Len(p) + 1) /\ P + 1 = X + (Y + 1)
      BY <1>4, <1>15
    <2> QED
      BY <1>13, <1>14, <2>1
  <1>17. Position(g, P + 2) = ex + ey + moof.size
         /\ Position(g, P + 3) = ex + ey + moof.size + mdat.size
    <2>1. P + 1 \in 1..Len(g) /\ P + 2 \in 1..Len(g) /\ (P + 1) + 1 = P + 2 /\ (P + 2) + 1 = P + 3
      BY <1>4, <1>15
    <2>2. Position(g, P + 2) = Position(g, P + 1) + moof.size
      BY <1>5, <1>12, <2>1
    <2>3. Position(g, P + 3) = Position(g, P + 2) + mdat.size
      BY <1>5, <1>12, <2>1
    <2> QED
      BY <1>16, <2>2, <2>3
  <1>18. /\ Position(h, L + (X + 1)) = A + ex
         /\ Position(h, L + (P + 1)) = A + (ex + ey)
         /\ Position(h, L + (P + 2)) = A + (ex + ey + moof.size)
         /\ Position(h, L + (P + 3)) = A + (ex + ey + moof.size + mdat.size)
    <2>1. /\ X + 1 \in 1..(Len(g) + 1) /\ P + 1 \in 1..(Len(g) + 1)
          /\ P + 2 \in 1..(Len(g) + 1) /\ P + 3 \in 1..(Len(g) + 1)
      BY <1>4, <1>15
    <2> QED
      BY <1>10, <1>16, <1>17, <2>1
  <1>19. /\ I + 1 = L + (X + 1) /\ M = L + (P + 1) /\ M + 1 = L + (P + 2) /\ M + 2 = L + (P + 3)
         /\ I \in Nat /\ M \in Nat /\ I < M /\ M + 1 <= Len(h) /\ Len(h) = M + 1 + E
    BY <1>4, <1>15
  <1>20. h[M] = moof /\ h[M + 1] = mdat
    <2>1. P + 1 \in 1..Len(g) /\ P + 2 \in 1..Len(g)
      BY <1>4, <1>15
    <2> QED
      BY <1>5, <1>9, <1>19, <2>1
  <1>21. ASSUME NEW k \in 1..X PROVE h[L + k] = x[k]
    <2>1. k \in 1..Len(g) /\ k \in 1..Len(p)
      BY <1>4, <1>15
    <2> QED
      BY <1>5, <1>8, <1>9, <2>1
  <1>22. ASSUME NEW k \in (I + 1)..(M - 1) PROVE h[k].kind \in {"styp", "emsg", "prft"}
    <2> DEFINE j == k - I
    <2>1. j \in 1..Y /\ k = L + (X + j) /\ X + j \in 1..Len(g) /\ X + j \in 1..Len(p)
      BY <1>4, <1>15, <1>19
    <2> HIDE DEF j
    <2>2. h[k] = y[j]
      BY <1>5, <1>8, <1>9, <2>1
    <2> QED
      BY <1>3, <2>1, <2>2
  <1>23. ASSUME NEW k \in 1..E PROVE h[M + 1 + k] = extra[k]
    <2>1. M + 1 + k = L + (P + 2 + k) /\ P + 2 + k \in 1..Len(g)
      BY <1>4, <1>15
    <2> QED
      BY <1>5, <1>9, <2>1
  <1> HIDE DEF A, moof, mdat, P, ex, ey, I, M, X
  <1>24. A \in Nat /\ ex \in Nat /\ ey \in Nat /\ moof.size \in Nat /\ mdat.size \in Nat
         /\ ey + moof.size = MetaBytes(b)
    BY <1>2, <1>7, <1>11, <1>14 DEF ex, ey, moof, mdat
  <1>25. /\ Position(h, M) \in Nat
         /\ Position(h, I + 1) + MetaBytes(b) = Position(h, M + 1)
         /\ Position(h, M + 1) + mdat.size = Position(h, M + 2)
    <2> DEFINE mb == MetaBytes(b)
               u == moof.size
               v == mdat.size
               p0 == Position(h, I + 1)
               p1 == Position(h, M)
               p2 == Position(h, M + 1)
               p3 == Position(h, M + 2)
    <2>1. /\ p0 = A + ex /\ p1 = A + (ex + ey) /\ p2 = A + (ex + ey + u)
          /\ p3 = A + (ex + ey + u + v)
      BY <1>18, <1>19
    <2>2. A \in Nat /\ ex \in Nat /\ ey \in Nat /\ u \in Nat /\ v \in Nat /\ ey + u = mb
      BY <1>24
    <2> HIDE DEF mb, u, v, p0, p1, p2, p3
    <2>3. p1 \in Nat /\ p0 + mb = p2 /\ p2 + v = p3
      BY <2>1, <2>2
    <2> QED
      BY <2>3 DEF mb, v, p0, p1, p2, p3
  <1> QED
    BY <1>19, <1>20, <1>21, <1>22, <1>23, <1>25 DEF g, h, x, p, I, M, X, moof, mdat

(* The first run of a segment tells what its sidx says.                    *)
LEMMA LeadingRun ==
    ASSUME FileInv, NEW b, BatchInv(b), ~Idle(b), NEW h, NEW M \in Nat,
           h[M] = BuildMoof(b), Position(h, M) \in Nat
    PROVE  LET t == Contributing(b)[1]
               run == OfTrack(Rows(h, M), t)
           IN  /\ run # <<>> /\ run[1].dts = nextBmdt[t]
               /\ Ticks(run) = Ticks(b.pending[t])
               /\ run[1].key = b.pending[t][1].key
  <1> DEFINE t == Contributing(b)[1]
             q == RunOf(b, 1)
             run == OfTrack(Rows(h, M), t)
             one == 1
  <1>1. BatchTyped(b.pending, b.senc, b.seig) /\ RequestsInv
    BY DEF BatchInv, FileInv
  <1>2. one \in 1..Len(Contributing(b)) /\ t \in Track
    <2>1. Contributing(b) \in Seq(Track)
      BY ContributingIs
    <2>2. Len(Contributing(b)) \in Nat /\ Len(Contributing(b)) >= 1
      BY <2>1, IdleIs
    <2> QED
      BY <2>2, IdleIs
  <1>3. BuildMoof(b).kind = "moof"
    BY <1>1, BoxesSized
  <1>4. Rows(h, M) = MoofSamples(h, M)
    BY <1>3 DEF Rows
  <1>5. \A n \in 1..Len(Contributing(b)) : OfTrack(MoofSamples(h, M), Contributing(b)[n]) = TrafSamples(h, M, n)
    BY <1>1, BatchRows
  <1>6. run = TrafSamples(h, M, 1)
    BY <1>2, <1>4, <1>5
  <1>7. /\ TrafSamples(h, M, 1) \in Seq(Found)
        /\ Len(TrafSamples(h, M, 1)) = Len(q)
        /\ \A k \in 1..Len(q) : TrafSamples(h, M, 1)[k] = RowAt(b, M, Position(h, M), 1, k)
    BY <1>1, <1>2, TrafRows
  <1>8. q \in Seq(Sample) /\ q = b.pending[t] /\ q # <<>> /\ DOMAIN q = 1..Len(q)
    <2>1. RunOf(b, one) \in Seq(Sample) /\ DOMAIN q = 1..Len(q)
      BY <1>1, <1>2, RunOfIs
    <2>2. q = b.pending[t]
      BY DEF RunOf
    <2>3. b.pending[t] # <<>>
      BY <1>2, ContributingIs
    <2> QED
      BY <2>1, <2>2, <2>3
  <1> HIDE DEF run, q
  <1>9. run \in Seq(Found) /\ Len(run) = Len(q)
        /\ \A k \in 1..Len(q) : run[k] = RowAt(b, M, Position(h, M), 1, k)
    BY <1>6, <1>7
  <1>10. \A k \in 1..Len(q) :
           /\ run[k].dts = nextBmdt[t] + Ticks(SubSeq(q, 1, k - 1))
           /\ run[k].duration = q[k].duration /\ run[k].key = q[k].key
    <2> SUFFICES ASSUME NEW k \in 1..Len(q)
                 PROVE  /\ run[k].dts = nextBmdt[t] + Ticks(SubSeq(q, 1, k - 1))
                        /\ run[k].duration = q[k].duration /\ run[k].key = q[k].key
      OBVIOUS
    <2> DEFINE base == Position(h, M)
               o == base + (BuildMoof(b).size + 8 + DataBefore(b, 1)) + Bytes(SubSeq(q, 1, k - 1))
               d == nextBmdt[t] + Ticks(SubSeq(q, 1, k - 1))
               y == q[k]
    <2>1. run[k] = RowAt(b, M, base, 1, k)
      BY <1>9
    <2>2. RowAt(b, M, base, 1, k)
            = [track |-> t, moof |-> M, traf |-> 1, nth |-> k, offset |-> o,
               size |-> y.size, dts |-> d, duration |-> y.duration,
               key |-> y.key, cts |-> y.cts]
      BY DEF RowAt, q
    <2> HIDE DEF o, d, y
    <2>3. run[k].dts = d /\ run[k].duration = y.duration /\ run[k].key = y.key
      BY <2>1, <2>2
    <2> QED
      BY <2>3 DEF d, y
  <1>11. Len(q) \in Nat /\ 1 \in 1..Len(q)
    BY <1>8
  <1>12. run # <<>>
    BY <1>9, <1>11
  <1>13. run[1].dts = nextBmdt[t]
    <2>1. run[1].dts = nextBmdt[t] + Ticks(SubSeq(q, 1, 1 - 1))
      BY <1>10, <1>11
    <2>2. SubSeq(q, 1, 1 - 1) = <<>>
      BY <1>8
    <2>3. Ticks(<<>>) = 0
      BY TotalEmpty DEF Ticks, SumOf
    <2> DEFINE d == nextBmdt[t]
    <2>4. d \in Nat
      BY <1>2 DEF FileInv
    <2>5. run[1].dts = d + 0
      BY <2>1, <2>2, <2>3
    <2> HIDE DEF d
    <2>6. run[1].dts = d
      BY <2>4, <2>5
    <2> QED
      BY <2>6 DEF d
  <1>14. Ticks(run) = Ticks(q)
    <2>1. DOMAIN run = DOMAIN q
      BY <1>8, <1>9
    <2>2. \A k \in DOMAIN q : run[k].duration = q[k].duration
      BY <1>8, <1>10
    <2>3. [k \in DOMAIN run |-> run[k].duration] = [k \in DOMAIN q |-> q[k].duration]
      BY <2>1, <2>2
    <2> QED
      BY <2>3 DEF Ticks, SumOf
  <1> QED
    BY <1>8, <1>10, <1>11, <1>12, <1>13, <1>14 DEF run

(* The index boxes of a segment fit it.                                    *)
LEMMA IndexesFit ==
    ASSUME FileInv, NEW b, BatchInv(b), ~Idle(b), NEW extra, IsFile(extra),
           NEW k \in 1..Len(Indexes(b)), NEW h, h = file \o Chunk(b, extra)
    PROVE  Fits(opts.ssix, h, Len(file) + k)
  <1> DEFINE L == Len(file)
             x == Indexes(b)
             I == Len(file) + Len(Indexes(b))
             M == Len(file) + (Len(Prelude(b)) + 1)
             i == L + k
  <1>1. /\ I \in Nat /\ M \in Nat /\ I < M /\ M + 1 <= Len(h)
        /\ h[M] = BuildMoof(b) /\ h[M + 1] = BuildMdat(b)
        /\ \A j \in 1..Len(x) : h[L + j] = x[j]
        /\ \A j \in (I + 1)..(M - 1) : h[j].kind \in {"styp", "emsg", "prft"}
        /\ Position(h, M) \in Nat
        /\ Position(h, I + 1) + MetaBytes(b) = Position(h, M + 1)
        /\ Position(h, M + 1) + BuildMdat(b).size = Position(h, M + 2)
    BY SegmentSits, SMTT(30), ZenonT(60)
  <1>2. BuildMoof(b).kind = "moof" /\ BuildMdat(b).kind = "mdat"
        /\ BuildMdat(b).size \in Nat
    BY BoxesSized DEF FileInv, BatchInv
  <1>3. L \in Nat /\ Len(x) \in Nat /\ Len(h) \in Nat
    <2>1. IsFile(x)
      BY IndexesIs DEF Only
    <2>2. IsFile(h)
      BY ChunkIs, FileConcat DEF FileInv
    <2> QED
      BY <2>1, <2>2 DEF FileInv, IsFile
  <1>4. h[i] = x[k]
    BY <1>1
  <1>5. CASE k = Len(x)
    <2>1. i = I
      BY <1>5
    <2> HIDE DEF i, I, M
    <2>2. /\ M \in 1..Len(h) /\ M + 1 \in 1..Len(h) /\ i < M
          /\ \A j \in i..(M - 1) : j = i \/ j \in (I + 1)..(M - 1)
      <3> DEFINE N == Len(h)
      <3>1. /\ i \in Nat /\ M \in Nat /\ i < M /\ M + 1 <= N /\ N \in Nat /\ i = I
        BY <1>1, <1>3, <2>1
      <3> HIDE DEF N
      <3> QED
        BY <3>1 DEF N
    <2>3. ASSUME x[k].kind \in {"sidx", "ssix"} PROVE Leads(h, i, M)
      <3>1. ASSUME NEW j \in i..(M - 1) PROVE h[j].kind \notin {"moof", "mdat"}
        BY <1>1, <1>4, <2>2, <2>3
      <3> QED
        BY <1>1, <1>2, <2>2, <3>1 DEF Leads
    <2>4. ASSUME h[i].kind = "ssix"
          PROVE  \E m \in Nat : Leads(h, i, m) /\ Divided(h, i, m)
      <3>1. Leads(h, i, M)
        BY <1>4, <2>3, <2>4
      <3>2. h[i].ranges[1] = MetaBytes(b) /\ h[i].ranges[2] = BuildMdat(b).size
        <4>1. x[k] \in {Sidx(b), Ssix(b)}
          BY <1>3, PairIs DEF Indexes, x
        <4>2. x[k] = Ssix(b)
          BY <1>4, <2>4, <4>1 DEF Sidx
        <4> DEFINE u == MetaBytes(b)
                   v == BuildMdat(b).size
        <4>3. Ssix(b).ranges = <<u, v>>
          BY DEF Ssix
        <4> HIDE DEF u, v
        <4> QED
          BY <1>4, <4>2, <4>3 DEF u, v
      <3>3. Divided(h, i, M)
        BY <1>1, <2>1, <3>2 DEF Divided
      <3> QED
        BY <1>1, <3>1, <3>3
    <2>5. ASSUME h[i].kind = "sidx"
          PROVE  \E m \in Nat : Leads(h, i, m) /\ Described(h, i, m)
      <3>1. Leads(h, i, M)
        BY <1>4, <2>3, <2>5
      <3> DEFINE t == Contributing(b)[1]
                 run == OfTrack(Rows(h, M), t)
      <3>2. x[k] = Sidx(b)
        <4>1. x[k] \in {Sidx(b), Ssix(b)}
          BY <1>3, PairIs DEF Indexes, x
        <4> QED
          BY <1>4, <2>5, <4>1 DEF Ssix
      <3>3. /\ h[i].track = t /\ h[i].ept = nextBmdt[t]
            /\ h[i].referenced = MetaBytes(b) + BuildMdat(b).size
            /\ h[i].duration = Ticks(b.pending[t]) /\ h[i].sap = b.pending[t][1].key
        BY <1>4, <3>2 DEF Sidx
      <3>4. /\ run # <<>> /\ run[1].dts = nextBmdt[t]
            /\ Ticks(run) = Ticks(b.pending[t]) /\ run[1].key = b.pending[t][1].key
        BY <1>1, LeadingRun, ZenonT(60), SMTT(30)
      <3>5. Position(h, i + 1) + h[i].referenced = Position(h, M + 2)
        <4> DEFINE u == MetaBytes(b)
                   v == BuildMdat(b).size
                   p0 == Position(h, i + 1)
                   p1 == Position(h, M)
                   p2 == Position(h, M + 1)
                   p3 == Position(h, M + 2)
        <4>1. p2 = p1 + BuildMoof(b).size /\ BuildMoof(b).size \in Nat /\ p0 \in Nat
          <5>1. IsFile(h)
            BY ChunkIs, FileConcat DEF FileInv
          <5>2. M \in 1..Len(h) /\ i + 1 \in 1..(Len(h) + 1)
            <6> DEFINE N == Len(h)
            <6>1. /\ i \in Nat /\ M \in Nat /\ i < M /\ M + 1 <= N /\ N \in Nat
              BY <1>1, <1>3, <2>1
            <6> HIDE DEF N
            <6> QED
              BY <6>1 DEF N
          <5>3. BuildMoof(b).size \in Nat
            BY BoxesSized DEF FileInv, BatchInv
          <5>4. Position(h, M + 1) = Position(h, M) + h[M].size /\ Position(h, i + 1) \in Nat
            BY <5>1, <5>2, FilePositions
          <5> QED
            BY <1>1, <5>3, <5>4
        <4>2. p0 + u = p2 /\ p2 + v = p3 /\ p1 \in Nat /\ v \in Nat
          BY <1>1, <1>2, <2>1
        <4>3. u \in Nat
          <5>1. EndOf(Meta) + BuildMoof(b).size = u /\ IsFile(Meta)
            BY PreludeParts DEF Only, FileInv, QueueInv
          <5>2. EndOf(Meta) \in Nat
            BY <5>1, FilePositions
          <5> QED
            BY <4>1, <5>1, <5>2
        <4>4. h[i].referenced = u + v
          BY <3>3
        <4> HIDE DEF u, v, p0, p1, p2, p3
        <4>5. p0 + (u + v) = p3
          BY <4>1, <4>2, <4>3
        <4> QED
          BY <4>4, <4>5 DEF p0, p3
      <3> HIDE DEF run, t
      <3>6. run = OfTrack(Rows(h, M), h[i].track)
        BY <3>3 DEF run, t
      <3>7. Described(h, i, M)
        BY <3>3, <3>4, <3>5, <3>6 DEF Described
      <3> QED
        BY <1>1, <3>1, <3>7
    <2> QED
      BY <2>4, <2>5 DEF Fits, i
  <1>6. CASE k # Len(x)
    <2>1. opts.indexes /\ opts.ssix /\ k = 1
      BY <1>3, <1>6, PairIs DEF Indexes
    <2>2. x[1] = Sidx(b)
      BY <2>1, PairIs DEF Indexes
    <2>3. h[i].kind = "sidx"
      BY <1>4, <2>1, <2>2 DEF Sidx
    <2> QED
      BY <2>1, <2>3, OthersFit
  <1> QED
    BY <1>5, <1>6

LEMMA ChunkFits ==
    ASSUME FileInv, NEW b, BatchInv(b), NEW extra, IsFile(extra),
           \A k \in 1..Len(extra) : extra[k].kind \notin {"sidx", "ssix"},
           NEW h, h = file \o Chunk(b, extra), NEW k \in 1..Len(Chunk(b, extra))
    PROVE  Fits(opts.ssix, h, Len(file) + k)
  <1> DEFINE L == Len(file)
             g == Chunk(b, extra)
             X == Len(Indexes(b))
             I == L + X
             M == L + (Len(Prelude(b)) + 1)
             i == L + k
             E == Len(extra)
  <1>1. IsFile(file) /\ IsFile(g) /\ Len(h) = L + Len(g) /\ h[i] = g[k]
    <2>1. IsFile(file) /\ IsFile(g)
      BY ChunkIs DEF FileInv
    <2> HIDE DEF g
    <2>2. h = file \o g
      BY DEF g
    <2> QED
      BY <2>1, <2>2, FileConcat DEF g
  <1>2. L \in Nat /\ Len(g) \in Nat /\ E \in Nat /\ X \in Nat
    <2>1. IsFile(Indexes(b))
      BY IndexesIs DEF Only
    <2> QED
      BY <1>1, <2>1 DEF IsFile
  <1>3. CASE Idle(b)
    <2>1. g = extra
      BY <1>3 DEF Chunk
    <2>2. h[i].kind \notin {"sidx", "ssix"}
      BY <1>1, <2>1
    <2> QED
      BY <2>2, OthersFit
  <1>4. CASE ~Idle(b)
    <2>1. /\ I \in Nat /\ M \in Nat /\ I < M
          /\ Len(h) = M + 1 + E
          /\ h[M] = BuildMoof(b) /\ h[M + 1] = BuildMdat(b)
          /\ \A j \in (I + 1)..(M - 1) : h[j].kind \in {"styp", "emsg", "prft"}
          /\ \A j \in 1..E : h[M + 1 + j] = extra[j]
      <3>1. /\ Len(h) = Len(file) + (Len(Prelude(b)) + 1) + 1 + Len(extra)
            /\ Len(file) + Len(Indexes(b)) \in Nat
            /\ Len(file) + (Len(Prelude(b)) + 1) \in Nat
            /\ Len(file) + Len(Indexes(b)) < Len(file) + (Len(Prelude(b)) + 1)
        BY <1>4, SegmentSits
      <3>2. /\ h[M] = BuildMoof(b) /\ h[M + 1] = BuildMdat(b)
            /\ \A j \in (I + 1)..(M - 1) : h[j].kind \in {"styp", "emsg", "prft"}
        BY <1>4, SegmentSits
      <3>3. \A j \in 1..E : h[M + 1 + j] = extra[j]
        <4>1. ASSUME NEW j \in 1..Len(extra)
              PROVE  (file \o Chunk(b, extra))
                       [Len(file) + (Len(Prelude(b)) + 1) + 1 + j] = extra[j]
          BY <1>4, SegmentSits, SMTT(30)
        <4> QED
          BY <4>1
      <3> QED
        BY <3>1, <3>2, <3>3
    <2>2. BuildMoof(b).kind = "moof" /\ BuildMdat(b).kind = "mdat"
      BY BoxesSized DEF FileInv, BatchInv
    <2> DEFINE H == Len(h)
               G == Len(g)
    <2>3. H = L + G /\ H = M + 1 + E /\ k \in 1..G
      BY <1>1, <2>1
    <2>4. L \in Nat /\ G \in Nat /\ E \in Nat /\ X \in Nat /\ I = L + X /\ M \in Nat /\ I < M
      BY <1>2, <2>1
    <2> HIDE DEF L, G, E, X, M, H, g, I
    <2>5. CASE k \in 1..X
      BY <1>4, <2>5, IndexesFit DEF L, X
    <2>6. CASE i \in (I + 1)..(M - 1)
      <3>1. h[i].kind \in {"styp", "emsg", "prft"}
        BY <2>1, <2>6
      <3> QED
        BY <3>1, OthersFit DEF L
    <2>7. CASE i = M \/ i = M + 1
      <3>1. h[i].kind \in {"moof", "mdat"}
        BY <2>1, <2>2, <2>7
      <3> QED
        BY <3>1, OthersFit DEF L
    <2>8. CASE i > M + 1
      <3> DEFINE j == i - (M + 1)
      <3>1. j \in 1..E /\ i = M + 1 + j
        BY <2>3, <2>4, <2>8
      <3> HIDE DEF j, i
      <3>2. h[i].kind \notin {"sidx", "ssix"}
        BY <2>1, <3>1 DEF E
      <3> QED
        BY <3>2, OthersFit DEF i, L
    <2>9. k \in 1..X \/ i \in (I + 1)..(M - 1) \/ i = M \/ i = M + 1 \/ i > M + 1
      BY <2>3, <2>4
    <2> QED
      BY <2>5, <2>6, <2>7, <2>8, <2>9
  <1> QED
    BY <1>3, <1>4

(* Without failing writes, all a failing flush may leave is a sidx that    *)
(* would have had an ssix behind it.                                       *)
LEMMA BrokenSegs ==
    ASSUME FileInv, NEW b, BatchInv(b), FlushBreaks(b)
    PROVE  \E g : /\ IsFile(g) /\ file' = file \o g
                  /\ ~opts.io => \A k \in 1..Len(g) :
                        g[k].kind # "ssix" /\ (g[k].kind = "sidx" => opts.ssix)
  <1>1. PICK g : /\ Only(SegmentKinds, g) /\ file' = file \o g
                 /\ ~opts.io => Only(PreludeKinds, g)
    BY BrokenIs
  <1>2. IsFile(g)
    BY <1>1 DEF Only
  <1>3. CASE opts.io
    BY <1>1, <1>2, <1>3
  <1>4. CASE ~opts.io /\ file' = file
    <2>1. PICK S : file \in Seq(S)
      BY DEF FileInv, IsFile
    <2> DEFINE e == <<>>
    <2>2. file \o e = file /\ Len(e) = 0
      BY <2>1, ConcatEmptySeq
    <2>3. IsFile(e)
      BY OnlyEmpty DEF Only
    <2> HIDE DEF e
    <2>4. file' = file \o e
      BY <1>4, <2>2
    <2>5. \A k \in 1..Len(e) : e[k].kind # "ssix" /\ (e[k].kind = "sidx" => opts.ssix)
      BY <2>2
    <2> QED
      BY <2>3, <2>4, <2>5
  <1>5. CASE ~opts.io /\ file' # file
    <2>1. PICK n \in 0..9 : FlushCut(b, n)
      BY <1>5 DEF FlushBreaks, FlushRejected
    <2>2. n = 1 /\ ~SsixBuilds(b) /\ file' = file \o SubSeq(Segment(b), 1, 1)
      BY <1>5, <2>1 DEF FlushCut
    <2>3. opts.indexes /\ opts.ssix
      BY <2>2 DEF SsixBuilds
    <2>4. Indexes(b) = <<Sidx(b), Ssix(b)>>
      BY <2>3 DEF Indexes
    <2> DEFINE s == Segment(b)
               p == Prelude(b)
               x == Indexes(b)
               e == SubSeq(s, 1, 1)
    <2>5. QueueTypes /\ RequestsInv /\ BatchTyped(b.pending, b.senc, b.seig)
      BY DEF FileInv, QueueInv, BatchInv
    <2>6. IsFile(x) /\ IsFile(Meta) /\ p = x \o Meta
      BY <2>5, PreludeParts DEF Only
    <2>7. IsFile(p) /\ Len(p) = Len(x) + Len(Meta) /\ \A k \in 1..Len(x) : p[k] = x[k]
      BY <2>6, FileConcat
    <2>8. IsFile(Pair(b)) /\ s = p \o Pair(b) /\ Len(Pair(b)) = 2
      BY <2>5, SegmentIs DEF Only
    <2>9. IsFile(s) /\ Len(s) = Len(p) + Len(Pair(b)) /\ \A k \in 1..Len(p) : s[k] = p[k]
      <3> DEFINE r == Pair(b)
      <3>1. IsFile(r) /\ s = p \o r /\ IsFile(p)
        BY <2>7, <2>8
      <3> HIDE DEF r, s, p
      <3>2. IsFile(s) /\ Len(s) = Len(p) + Len(r) /\ \A k \in 1..Len(p) : s[k] = p[k]
        BY <3>1, FileConcat
      <3> QED
        BY <3>2 DEF r
    <2>10. Len(x) = 2 /\ x[1] = Sidx(b)
      BY <2>4, PairIs
    <2> HIDE DEF s, p, x
    <2>11. Len(Meta) \in Nat /\ Len(p) \in Nat
      BY <2>6, <2>7 DEF IsFile
    <2>12. 1 \in 1..Len(x) /\ 1 \in 1..Len(p) /\ 1 \in 0..Len(s)
      BY <2>7, <2>8, <2>9, <2>10, <2>11
    <2>13. s[1] = Sidx(b)
      BY <2>7, <2>9, <2>10, <2>12
    <2>14. PICK S : s \in Seq(S)
      BY <2>9 DEF IsFile
    <2>15. e \in Seq(S) /\ Len(e) = 1 /\ e[1] = s[1]
      BY <2>12, <2>14, PrefixIs
    <2>16. file' = file \o e
      BY <2>2 DEF s
    <2>17. Only(SegmentKinds, e)
      <3>1. Only(SegmentKinds, s)
        BY <2>5, SegmentIs DEF s
      <3> QED
        BY <2>12, <3>1, OnlyPart
    <2> HIDE DEF e
    <2>18. \A k \in 1..Len(e) : e[k] = Sidx(b)
      BY <2>13, <2>15
    <2>19. Sidx(b).kind = "sidx"
      BY DEF Sidx
    <2>20. IsFile(e)
      BY <2>17 DEF Only
    <2> QED
      BY <2>3, <2>16, <2>18, <2>19, <2>20
  <1> QED
    BY <1>3, <1>4, <1>5

LEMMA SegsNext ==
    ASSUME FileInv, SegsInv, UNCHANGED opts, FileStep
    PROVE  SegsInv'
  <1>1. CASE UNCHANGED output
    BY <1>1 DEF output, SegsInv, Fits, Leads, Divided, Described, Rows
  <1>2. CASE Opens
    <2>1. PICK g : Only({"ftyp", "moov"}, g) /\ file' = file \o g
      BY <1>2, HeaderFile DEF Opens
    <2>2. IsFile(g) /\ \A k \in 1..Len(g) : g[k].kind \notin {"sidx", "ssix"}
      BY <2>1 DEF Only
    <2> QED
      BY <2>1, <2>2, QuietSegs
  <1>3. ASSUME NEW b, BatchInv(b), FlushBreaks(b)
        PROVE  SegsInv'
    <2>1. PICK g : /\ IsFile(g) /\ file' = file \o g
                   /\ ~opts.io => \A k \in 1..Len(g) :
                         g[k].kind # "ssix" /\ (g[k].kind = "sidx" => opts.ssix)
      BY <1>3, BrokenSegs
    <2> QED
      BY <2>1, QuietSegs
  <1>4. ASSUME headerWritten, NEW b, BatchInv(b), NEW extra, Completes(b, extra)
        PROVE  SegsInv'
    <2> DEFINE g == Chunk(b, extra)
               h == file \o g
    <2>1. Ends(b, extra, nextBmdt')
      BY <1>4 DEF Completes
    <2>2. IsFile(extra) /\ \A k \in 1..Len(extra) : extra[k].kind \notin {"sidx", "ssix"}
      BY <1>4, <2>1, EndsTyped DEF Only
    <2>3. IsFile(g) /\ Alike(h, file')
      BY <1>4, CompletedFile
    <2>4. IsFile(h) /\ Len(h) = Len(file) + Len(g)
      <3> HIDE DEF g
      <3> QED
        BY <2>3, FileConcat DEF FileInv
    <2>5. \A k \in 1..Len(g) : Fits(opts.ssix, h, Len(file) + k)
      BY <1>4, <2>2, ChunkFits
    <2> HIDE DEF h, g
    <2>6. Prefixed(h, file') /\ IsFile(file')
      <3> DEFINE e == <<>>
      <3>1. IsFile(e)
        BY OnlyEmpty DEF Only
      <3>2. PICK S : h \in Seq(S)
        BY <2>4 DEF IsFile
      <3>3. h \o e = h
        BY <3>2, ConcatEmptySeq
      <3> HIDE DEF e
      <3>4. Alike(h \o e, file')
        BY <2>3, <3>3
      <3> QED
        BY <2>3, <2>4, <3>1, <3>4, AlikePrefixed, AlikePositions
    <2>7. Len(file) \in Nat /\ Len(g) \in Nat
      BY <2>3 DEF FileInv, IsFile
    <2>8. ASSUME NEW k \in 1..Len(g) PROVE Fits(opts.ssix, file', Len(file) + k)
      <3> DEFINE i == Len(file) + k
      <3>1. i \in 1..Len(h)
        BY <2>4, <2>7
      <3> HIDE DEF i
      <3>2. Fits(opts.ssix, h, i)
        BY <2>5 DEF i
      <3>3. Fits(opts.ssix, file', i)
        BY <2>4, <2>6, <3>1, <3>2, FitsStays
      <3> QED
        BY <3>3 DEF i
    <2>9. Alike(file \o g, file')
      BY <2>3 DEF h
    <2> QED
      BY <2>3, <2>8, <2>9, SegsKept
  <1> QED
    BY <1>1, <1>2, <1>3, <1>4 DEF FileStep

LEMMA SegsAlways == Spec => []SegsInv
  <1>1. Init => SegsInv
    BY DEF Init, SegsInv
  <1>2. FileInv /\ SegsInv /\ [Next]_vars => SegsInv'
    <2> SUFFICES ASSUME FileInv, SegsInv, [Next]_vars PROVE SegsInv'
      OBVIOUS
    <2>1. FileStep
      BY EveryStep DEF FileInv
    <2>2. UNCHANGED opts
      BY OptsFixed
    <2> QED
      BY <2>1, <2>2, SegsNext
  <1> QED
    BY <1>1, <1>2, FileInvAlways, PTL DEF Spec

(* The segment a sidx or ssix leads to ends with its mdat.                 *)
LEMMA LeadsEnd ==
    ASSUME IsFile(file), NEW k \in 1..Len(file), NEW m \in Nat, Leads(file, k, m)
    PROVE  SegmentEnd(k) = Position(file, m + 2)
  <1> DEFINE R(i) == /\ i >= k /\ file[i].kind = "mdat"
                     /\ \A j \in k..(i - 1) : file[j].kind # "mdat"
             c == CHOOSE i \in DOMAIN file : R(i)
             L == Len(file)
  <1>1. DOMAIN file = 1..L /\ L \in Nat
    BY DEF IsFile
  <1>2. /\ m + 1 \in 1..L /\ k < m /\ file[m].kind = "moof" /\ file[m + 1].kind = "mdat"
        /\ \A j \in k..(m - 1) : file[j].kind \notin {"moof", "mdat"}
    BY DEF Leads
  <1> HIDE DEF L
  <1>3. R(m + 1)
    <2>1. ASSUME NEW j \in k..((m + 1) - 1) PROVE file[j].kind # "mdat"
      <3>1. j \in k..(m - 1) \/ j = m
        BY <1>2
      <3> QED
        BY <1>2, <3>1
    <2> QED
      BY <1>2, <2>1
  <1>4. \A i \in 1..L : R(i) => i = m + 1
    <2> SUFFICES ASSUME NEW i \in 1..L, R(i) PROVE i = m + 1
      OBVIOUS
    <2>1. ~(i < m + 1)
      <3>1. i < m + 1 => i \in k..(m - 1) \/ i = m
        BY <1>2
      <3> QED
        BY <1>2, <3>1
    <2>2. ~(m + 1 < i)
      <3>1. m + 1 < i => m + 1 \in k..(i - 1)
        BY <1>2
      <3> QED
        BY <1>2, <3>1
    <2> QED
      BY <1>2, <2>1, <2>2
  <1>5. c \in DOMAIN file /\ R(c)
    <2>1. \E i \in DOMAIN file : R(i)
      BY <1>1, <1>2, <1>3
    <2> HIDE DEF R
    <2> QED
      BY <2>1, Zenon
  <1>6. c = m + 1
    <2> HIDE DEF c, R
    <2> QED
      BY <1>1, <1>4, <1>5
  <1>7. SegmentEnd(k) = Position(file, 1 + c)
    BY DEF SegmentEnd
  <1> HIDE DEF c
  <1>8. 1 + c = m + 2
    BY <1>6
  <1> QED
    BY <1>7, <1>8

(* In a file no write of which failed the two ranges of every ssix divide  *)
(* the segment written after it: the first ends where the mdat begins, the *)
(* second with it (build_ssix_box and flush_fragment, src/frag.rs).        *)
THEOREM SsixDivides == Spec => [](~opts.io => SsixPartitions)
  <1>1. FileInv /\ SegsInv => (~opts.io => SsixPartitions)
    <2> SUFFICES ASSUME FileInv, SegsInv, ~opts.io, NEW k \in DOMAIN file,
                        file[k].kind = "ssix"
                 PROVE  LET start == Position(file, k + 1)
                            metaEnd == start + file[k].ranges[1]
                        IN  /\ \E m \in DOMAIN file :
                                  file[m].kind = "mdat" /\ Position(file, m) = metaEnd
                            /\ metaEnd + file[k].ranges[2] = SegmentEnd(k)
      BY DEF SsixPartitions
    <2>1. IsFile(file) /\ DOMAIN file = 1..Len(file)
      BY DEF FileInv, IsFile
    <2>2. PICK m \in Nat : Leads(file, k, m) /\ Divided(file, k, m)
      BY <2>1 DEF SegsInv, Fits
    <2>3. SegmentEnd(k) = Position(file, m + 2)
      BY <2>1, <2>2, LeadsEnd
    <2>4. m + 1 \in DOMAIN file /\ file[m + 1].kind = "mdat"
      BY <2>1, <2>2 DEF Leads
    <2>5. /\ Position(file, k + 1) + file[k].ranges[1] = Position(file, m + 1)
          /\ Position(file, m + 1) + file[k].ranges[2] = Position(file, m + 2)
      BY <2>2 DEF Divided
    <2> QED
      BY <2>3, <2>4, <2>5
  <1> QED
    BY <1>1, FileInvAlways, SegsAlways, PTL

(* In such a file, with no ssix between the two, every sidx describes the  *)
(* segment that follows it: its reference starts at the next byte and ends *)
(* with the mdat, and its time, duration and SAP flag are those of the     *)
(* reference track's first run (flush_fragment, src/frag.rs).              *)
THEOREM SidxReferencesSegment == Spec => [](~opts.io => SidxFits)
  <1>1. FileInv /\ SegsInv => (~opts.io => SidxFits)
    <2> SUFFICES ASSUME FileInv, SegsInv, ~opts.io, ~opts.ssix, NEW k \in DOMAIN file,
                        file[k].kind = "sidx"
                 PROVE  SidxDescribes(k)
      BY DEF SidxFits, SidxExact
    <2>1. IsFile(file) /\ DOMAIN file = 1..Len(file) /\ Len(file) \in Nat
      BY DEF FileInv, IsFile
    <2>2. PICK m \in Nat : Leads(file, k, m) /\ Described(file, k, m)
      BY <2>1 DEF SegsInv, Fits
    <2>3. SegmentEnd(k) = Position(file, m + 2)
      BY <2>1, <2>2, LeadsEnd
    <2> DEFINE R(i) == /\ file[i].kind = "moof"
                       /\ \A j \in k..(i - 1) : file[j].kind # "moof"
               c == CHOOSE i \in (k + 1)..Len(file) : R(i)
               L == Len(file)
    <2>4. /\ m \in 1..L /\ m + 1 \in 1..L /\ k < m
          /\ file[m].kind = "moof" /\ file[m + 1].kind = "mdat"
          /\ \A j \in k..(m - 1) : file[j].kind \notin {"moof", "mdat"}
      BY <2>2 DEF Leads
    <2>5. L \in Nat /\ k \in 1..L
      BY <2>1
    <2> HIDE DEF L
    <2>6. R(m) /\ m \in (k + 1)..L
      BY <2>4, <2>5
    <2>7. \A i \in (k + 1)..L : R(i) => i = m
      <3> SUFFICES ASSUME NEW i \in (k + 1)..L, R(i) PROVE i = m
        OBVIOUS
      <3>1. i < m => i \in k..(m - 1)
        BY <2>4, <2>5
      <3>2. m < i => m \in k..(i - 1)
        BY <2>4, <2>5
      <3> QED
        BY <2>4, <2>5, <3>1, <3>2
    <2>8. c \in (k + 1)..L /\ R(c)
      <3>1. \E i \in (k + 1)..Len(file) : R(i)
        BY <2>6 DEF L
      <3> HIDE DEF R
      <3>2. c \in (k + 1)..Len(file) /\ R(c)
        BY <3>1, Zenon
      <3> QED
        BY <3>2 DEF L
    <2>9. c = m
      <3> HIDE DEF c, R
      <3> QED
        BY <2>7, <2>8
    <2> DEFINE run == OfTrack(MoofSamples(file, m), file[k].track)
    <2>10. Rows(file, m) = MoofSamples(file, m)
      BY <2>4 DEF Rows
    <2>11. /\ Position(file, k + 1) + file[k].referenced = Position(file, m + 2)
           /\ run # <<>> /\ file[k].ept = run[1].dts
           /\ file[k].duration = Ticks(run) /\ file[k].sap = run[1].key
      BY <2>2, <2>10 DEF Described
    <2>12. SidxDescribes(k) <=>
              LET q == OfTrack(MoofSamples(file, c), file[k].track)
              IN  /\ Position(file, k + 1) + file[k].referenced = SegmentEnd(k)
                  /\ q # <<>> /\ file[k].ept = q[1].dts
                  /\ file[k].duration = Ticks(q) /\ file[k].sap = q[1].key
      BY DEF SidxDescribes
    <2> HIDE DEF c
    <2> QED
      BY <2>3, <2>9, <2>11, <2>12
  <1> QED
    BY <1>1, FileInvAlways, SegsAlways, PTL

(***************************************************************************)
(* The random-access index.                                                *)
(***************************************************************************)
LEMMA KeysConcat ==
    ASSUME NEW S, NEW p \in Seq(S), NEW q \in Seq(S), NEW m
    PROVE  KeysBefore(p \o q, m) = KeysBefore(p, m) \o KeysBefore(q, m)
  <1> DEFINE r == p \o q
             K == {k \in DOMAIN r : r[k].key /\ r[k].moof < m}
             A == {k \in DOMAIN p : p[k].key /\ p[k].moof < m}
             B == {k \in DOMAIN q : q[k].key /\ q[k].moof < m}
             L == Len(p)
  <1>1. /\ Len(r) = L + Len(q) /\ L \in Nat /\ Len(q) \in Nat
        /\ \A k \in 1..L : r[k] = p[k]
        /\ \A k \in 1..Len(q) : r[L + k] = q[k]
        /\ DOMAIN r = 1..Len(r) /\ DOMAIN p = 1..L /\ DOMAIN q = 1..Len(q)
    BY ConcatProperties
  <1> HIDE DEF r, L
  <1>2. \A k \in 1..Len(q) : L + k \in DOMAIN r
    BY <1>1
  <1>3. \A k \in 1..Len(q) : k \in B <=> L + k \in K
    BY <1>1, <1>2
  <1>4. \A k \in DOMAIN p : k \in DOMAIN r /\ r[k] = p[k]
    BY <1>1
  <1>5. \A k \in DOMAIN p : k \in K <=> k \in A
    BY <1>4
  <1> HIDE DEF K, A, B
  <1>6. Selected(r, K) = Selected(p, K) \o Selected(q, B)
    BY <1>3, SelectedConcat DEF r, L
  <1>7. Selected(p, K) = Selected(p, A)
    BY <1>5, SelectedSame
  <1> QED
    BY <1>6, <1>7 DEF KeysBefore, r, K, A, B

LEMMA KeysTyped ==
    ASSUME NEW S, NEW p \in Seq(S), NEW m
    PROVE  /\ KeysBefore(p, m) \in Seq(S)
           /\ \A n \in 1..Len(KeysBefore(p, m)) : \E k \in 1..Len(p) : KeysBefore(p, m)[n] = p[k]
  <1> DEFINE K == {k \in DOMAIN p : p[k].key /\ p[k].moof < m}
             r == Selected(p, K)
  <1>1. KeysBefore(p, m) = r
    BY DEF KeysBefore
  <1> HIDE DEF K
  <1>2. r \in Seq(S)
    BY SelectedTyped
  <1>3. PICK h : Enumerates(r, p, K, h)
    BY SelectedLists
  <1>4. DOMAIN p = 1..Len(p)
    OBVIOUS
  <1> HIDE DEF r
  <1>5. \A n \in 1..Len(r) : h[n] \in 1..Len(p) /\ r[n] = p[h[n]]
    BY <1>3, <1>4 DEF Enumerates
  <1> QED
    BY <1>1, <1>2, <1>5

(* Nothing after box m or n: the same samples before either.               *)
LEMMA KeysWhole ==
    ASSUME NEW S, NEW p \in Seq(S), NEW m, NEW n,
           \A k \in 1..Len(p) : p[k].moof < m /\ p[k].moof < n
    PROVE  KeysBefore(p, m) = KeysBefore(p, n)
  <1> DEFINE A == {k \in DOMAIN p : p[k].key /\ p[k].moof < m}
             B == {k \in DOMAIN p : p[k].key /\ p[k].moof < n}
  <1>1. DOMAIN p = 1..Len(p)
    OBVIOUS
  <1>2. \A k \in DOMAIN p : k \in A <=> k \in B
    BY <1>1
  <1> HIDE DEF A, B
  <1>3. Selected(p, A) = Selected(p, B)
    BY <1>2, SelectedSame
  <1> QED
    BY <1>3 DEF KeysBefore, A, B

LEMMA KeysNone ==
    ASSUME NEW S, NEW p \in Seq(S), NEW m, \A k \in 1..Len(p) : ~(p[k].moof < m)
    PROVE  KeysBefore(p, m) = <<>>
  <1> DEFINE A == {k \in DOMAIN p : p[k].key /\ p[k].moof < m}
  <1>1. DOMAIN p = 1..Len(p)
    OBVIOUS
  <1>2. \A k \in 1..Len(p) : k \notin A
    BY <1>1
  <1> HIDE DEF A
  <1>3. Selected(p, A) = <<>>
    BY <1>2, SelectedNone
  <1> QED
    BY <1>3 DEF KeysBefore, A

(* Entries e are those of the samples s of file f, before and after the    *)
(* sample number is fitted into its field.                                 *)
Points(f, e, s) ==
    /\ Len(e) = Len(s)
    /\ \A n \in 1..Len(s) :
          /\ e[n].time = s[n].dts
          /\ e[n].moofOffset = Position(f, s[n].moof)
          /\ e[n].sample = s[n].nth
Capped(n) == IF n < NumberMax THEN n ELSE NumberMax
Indexed(f, e, s) ==
    /\ Len(e) = Len(s) /\ DOMAIN e = 1..Len(s)
    /\ \A n \in 1..Len(s) :
          /\ e[n].time = s[n].dts
          /\ e[n].moofOffset = Position(f, s[n].moof)
          /\ e[n].sample = Capped(s[n].nth)

LEMMA CappedIsMin ==
    ASSUME NEW n \in Nat
    PROVE  Min({n, NumberMax}) = Capped(n)
  <1>1. NumberMax \in Nat
    BY NumberAssumption
  <1>2. Capped(n) \in {n, NumberMax} /\ \A y \in {n, NumberMax} : Capped(n) <= y
    BY <1>1 DEF Capped
  <1>3. \A x \in {n, NumberMax} : (\A y \in {n, NumberMax} : x <= y) => x = Capped(n)
    BY <1>1 DEF Capped
  <1> QED
    BY <1>2, <1>3 DEF Min

LEMMA BoxIndexed ==
    ASSUME NEW f, NEW e \in Seq(Entry), NEW s, Points(f, e, s), NEW t
    PROVE  Indexed(f, TfraBox(t, e).entries, s)
  <1> DEFINE r == TfraBox(t, e).entries
  <1>1. r = [n \in DOMAIN e |->
               [e[n] EXCEPT !.sample = IF @ < NumberMax THEN @ ELSE NumberMax]]
    BY DEF TfraBox
  <1>2. DOMAIN e = 1..Len(e) /\ Len(e) \in Nat /\ \A n \in 1..Len(e) : e[n] \in Entry
    OBVIOUS
  <1> HIDE DEF r
  <1>3. Len(r) = Len(e)
    BY <1>1, <1>2
  <1>4. ASSUME NEW n \in 1..Len(e)
        PROVE  /\ r[n].time = e[n].time /\ r[n].moofOffset = e[n].moofOffset
               /\ r[n].sample = Capped(e[n].sample)
    <2>1. e[n] \in Entry
      BY <1>2
    <2>2. r[n] = [e[n] EXCEPT !.sample = IF @ < NumberMax THEN @ ELSE NumberMax]
      BY <1>1, <1>2
    <2> DEFINE x == e[n]
               c == IF x.sample < NumberMax THEN x.sample ELSE NumberMax
    <2>3. r[n] = [x EXCEPT !.sample = c] /\ x \in Entry
      BY <2>1, <2>2
    <2>4. c = Capped(x.sample)
      BY DEF Capped
    <2> HIDE DEF x, c
    <2>5. r[n].time = x.time /\ r[n].moofOffset = x.moofOffset /\ r[n].sample = c
      BY <2>3 DEF Entry
    <2> QED
      BY <2>4, <2>5 DEF x
  <1>5. Len(e) = Len(s) /\ \A n \in 1..Len(s) :
          /\ e[n].time = s[n].dts /\ e[n].moofOffset = Position(f, s[n].moof)
          /\ e[n].sample = s[n].nth
    BY DEF Points
  <1> QED
    BY <1>3, <1>4, <1>5 DEF Indexed, r

LEMMA PointsConcat ==
    ASSUME NEW f, NEW d \in Seq(Entry), NEW e \in Seq(Entry),
           NEW r \in Seq(Found), NEW s \in Seq(Found), Points(f, d, r), Points(f, e, s)
    PROVE  Points(f, d \o e, r \o s)
  <1> DEFINE x == d \o e
             y == r \o s
             L == Len(r)
             N == Len(s)
  <1>1. /\ Len(x) = Len(d) + Len(e) /\ \A k \in 1..Len(d) : x[k] = d[k]
        /\ \A k \in 1..Len(e) : x[Len(d) + k] = e[k]
    BY ConcatProperties
  <1>2. /\ Len(y) = L + N /\ \A k \in 1..L : y[k] = r[k]
        /\ \A k \in 1..N : y[L + k] = s[k] /\ L \in Nat /\ N \in Nat
    BY ConcatProperties
  <1>3. Len(d) = L /\ Len(e) = N /\ L \in Nat /\ N \in Nat
    BY DEF Points
  <1> HIDE DEF x, y, L, N
  <1>4. ASSUME NEW n \in 1..(L + N)
        PROVE  /\ x[n].time = y[n].dts /\ x[n].moofOffset = Position(f, y[n].moof)
               /\ x[n].sample = y[n].nth
    <2>1. CASE n \in 1..L
      <3>1. x[n] = d[n] /\ y[n] = r[n]
        BY <1>1, <1>2, <1>3, <2>1
      <3> QED
        BY <2>1, <3>1 DEF Points, L
    <2>2. CASE n \notin 1..L
      <3> DEFINE k == n - L
      <3>1. k \in 1..N /\ n = L + k
        BY <1>3, <2>2
      <3> HIDE DEF k
      <3>2. x[n] = e[k] /\ y[n] = s[k]
        BY <1>1, <1>2, <1>3, <3>1
      <3> QED
        BY <3>1, <3>2 DEF Points, N
    <2> QED
      BY <2>1, <2>2
  <1>5. Len(x) = Len(y) /\ Len(y) = L + N
    BY <1>1, <1>2, <1>3
  <1> QED
    BY <1>4, <1>5 DEF Points, x, y

(* What lies before the end of f stays where it is.                        *)
LEMMA PointsStay ==
    ASSUME NEW f, NEW h, IsFile(f), Prefixed(f, h), NEW e, NEW s,
           \A n \in 1..Len(s) : s[n].moof \in 1..Len(f)
    PROVE  /\ Points(f, e, s) => Points(h, e, s)
           /\ Indexed(f, e, s) => Indexed(h, e, s)
  <1>1. Len(f) \in Nat
    BY DEF IsFile
  <1>2. \A n \in 1..Len(s) : s[n].moof \in 1..(Len(f) + 1)
    BY <1>1
  <1>3. \A j \in 1..(Len(f) + 1) : Position(h, j) = Position(f, j)
    BY DEF Prefixed
  <1>4. \A n \in 1..Len(s) : Position(h, s[n].moof) = Position(f, s[n].moof)
    BY <1>2, <1>3
  <1>5. Points(f, e, s) => Points(h, e, s)
    BY <1>4 DEF Points
  <1>6. Indexed(f, e, s) => Indexed(h, e, s)
    BY <1>4 DEF Indexed
  <1> QED
    BY <1>5, <1>6

(***************************************************************************)
(* The entries of a batch are those of the samples the demuxer finds in    *)
(* its moof.                                                               *)
(***************************************************************************)
Five(s, x, y, z, w) ==
    IsFile(s) /\ IsFile(x) /\ IsFile(y) /\ IsFile(z) /\ IsFile(w)
LEMMA FiveFiles ==
    ASSUME NEW s, NEW x, NEW y, NEW z, NEW w, Five(s, x, y, z, w)
    PROVE  s \o x \o y \o z \o w = s \o (x \o y \o z \o w)
  <1>0. IsFile(s) /\ IsFile(x) /\ IsFile(y) /\ IsFile(z) /\ IsFile(w)
    BY DEF Five
  <1>1. PICK S : s \in Seq(S)
    BY <1>0 DEF IsFile
  <1>2. PICK T : x \in Seq(T)
    BY <1>0 DEF IsFile
  <1>3. PICK U : y \in Seq(U)
    BY <1>0 DEF IsFile
  <1>4. PICK V : z \in Seq(V)
    BY <1>0 DEF IsFile
  <1>5. PICK W : w \in Seq(W)
    BY <1>0 DEF IsFile
  <1> DEFINE Z == S \cup T \cup U \cup V \cup W
             c == x \o y
             d == c \o z
  <1>6. s \in Seq(Z)
    BY <1>1
  <1>7. x \in Seq(Z) /\ y \in Seq(Z)
    BY <1>2, <1>3
  <1>8. z \in Seq(Z)
    BY <1>4
  <1>9. w \in Seq(Z)
    BY <1>5
  <1> HIDE DEF Z
  <1>10. c \in Seq(Z)
    BY <1>7, ConcatProperties
  <1>11. (s \o x) \o y = s \o c
    BY <1>6, <1>7, ConcatAssociative
  <1> HIDE DEF c
  <1>12. d \in Seq(Z)
    BY <1>8, <1>10, ConcatProperties
  <1>13. (s \o c) \o z = s \o d
    BY <1>6, <1>8, <1>10, ConcatAssociative
  <1> HIDE DEF d
  <1>14. (s \o d) \o w = s \o (d \o w)
    BY <1>6, <1>9, <1>12, ConcatAssociative
  <1> QED
    BY <1>11, <1>13, <1>14 DEF c, d

LEMMA MoofSits ==
    ASSUME FileInv, NEW b, BatchInv(b), ~Idle(b), NEW extra, IsFile(extra)
    PROVE  LET h == file \o Chunk(b, extra)
           IN  Position(h, Len(file) + (Len(Prelude(b)) + 1)) = MoofOffset(b)
  <1> DEFINE p == Prelude(b)
             r == Pair(b)
             d == file \o p
             u == r \o extra
             h == file \o Chunk(b, extra)
             x == Indexes(b)
             y == Styp
             z == Emsg
             prft == Prft
  <1>1. BatchTyped(b.pending, b.senc, b.seig) /\ QueueTypes /\ RequestsInv /\ IsFile(file)
    BY DEF BatchInv, FileInv, QueueInv
  <1>2. IsFile(x) /\ IsFile(y) /\ IsFile(z) /\ IsFile(prft)
    BY <1>1, IndexesIs, StypIs, EmsgIs, PrftIs DEF Only
  <1>3. p = x \o y \o z \o prft
    BY DEF Prelude
  <1>4. Segment(b) = p \o r /\ IsFile(r)
    BY <1>1, SegmentIs DEF Only
  <1>5. MoofOffset(b) = EndOf(file \o x \o y \o z \o prft)
    BY DEF MoofOffset
  <1>6. h = file \o ((p \o r) \o extra)
    BY <1>4 DEF Chunk
  <1>7. IsFile(p)
    BY <1>1, PreludeIs DEF Only
  <1> HIDE DEF p, r, h, x, y, z, prft
  <1>8. file \o x \o y \o z \o prft = d
    <2>1. Five(file, x, y, z, prft)
      BY <1>1, <1>2 DEF Five
    <2>2. file \o x \o y \o z \o prft = file \o (x \o y \o z \o prft)
      BY <2>1, FiveFiles
    <2> QED
      BY <1>3, <2>2, Zenon
  <1>9. h = d \o u
    <2>1. PICK S : file \in Seq(S)
      BY <1>1 DEF IsFile
    <2>2. PICK T : p \in Seq(T)
      BY <1>7 DEF IsFile
    <2>3. PICK U : r \in Seq(U)
      BY <1>4 DEF IsFile
    <2>4. PICK V : extra \in Seq(V)
      BY DEF IsFile
    <2> DEFINE Z == S \cup T \cup U \cup V
    <2>5. file \in Seq(Z) /\ p \in Seq(Z) /\ r \in Seq(Z) /\ extra \in Seq(Z)
      BY <2>1, <2>2, <2>3, <2>4
    <2> HIDE DEF Z
    <2>6. r \o extra \in Seq(Z)
      BY <2>5, ConcatProperties
    <2>7. (p \o r) \o extra = p \o (r \o extra)
      BY <2>5, ConcatAssociative, SMTT(30), ZenonT(60)
    <2>8. (file \o p) \o (r \o extra) = file \o (p \o (r \o extra))
      <3> DEFINE v == r \o extra
      <3>1. v \in Seq(Z)
        BY <2>6
      <3> HIDE DEF v
      <3>2. (file \o p) \o v = file \o (p \o v)
        BY <2>5, <3>1, ConcatAssociative, SMTT(30), ZenonT(60)
      <3> QED
        BY <3>2 DEF v
    <2> QED
      BY <1>6, <2>7, <2>8
  <1>10. IsFile(d) /\ Len(d) = Len(file) + Len(p)
    BY <1>1, <1>7, FileConcat
  <1>11. IsFile(u)
    BY <1>4, FileConcat
  <1> HIDE DEF d, u
  <1>12. Position(h, Len(d) + 1) = EndOf(d)
    <2>1. \A k \in 1..(Len(d) + 1) : Position(d \o u, k) = Position(d, k)
      BY <1>10, <1>11, FileConcat
    <2>2. Position(d, Len(d) + 1) = EndOf(d)
      BY <1>10, FilePositions
    <2>3. Len(d) + 1 \in 1..(Len(d) + 1)
      BY <1>10 DEF IsFile
    <2> QED
      BY <1>9, <2>1, <2>2, <2>3
  <1>13. Len(file) + (Len(p) + 1) = Len(d) + 1
    <2>1. Len(file) \in Nat /\ Len(p) \in Nat
      BY <1>1, <1>7 DEF IsFile
    <2> QED
      BY <1>10, <2>1
  <1> QED
    BY <1>5, <1>8, <1>12, <1>13 DEF h, p

(* The moof of the batch is box M of h, where the trailer's index says.    *)
Sits(b, h, M) ==
    /\ M \in Nat /\ h[M] = BuildMoof(b)
    /\ Position(h, M) \in Nat /\ Position(h, M) = MoofOffset(b)

LEMMA BatchPoints ==
    ASSUME FileInv, NEW b, BatchInv(b), NEW h, NEW M, Sits(b, h, M), NEW t \in Track,
           NEW rows, rows = OfTrack(MoofSamples(h, M), t)
    PROVE  /\ rows \in Seq(Found) /\ \A k \in 1..Len(rows) : rows[k].moof = M
           /\ Points(h, SyncEntries(b, t), KeysBefore(rows, M + 1))
  <1> DEFINE all == MoofSamples(h, M)
             r == Contributing(b)
             q == b.pending[t]
             e == <<>>
             entry(k) == [time |-> nextBmdt[t] + Ticks(SubSeq(q, 1, k - 1)),
                          moofOffset |-> MoofOffset(b),
                          traf |-> 1, trun |-> 1, sample |-> k]
             places == [k \in DOMAIN q |-> k]
             K == {k \in DOMAIN q : q[k].key}
             syncs == Selected(places, K)
  <1>0. /\ M \in Nat /\ h[M] = BuildMoof(b)
        /\ Position(h, M) \in Nat /\ Position(h, M) = MoofOffset(b)
    BY DEF Sits
  <1>1. BatchTyped(b.pending, b.senc, b.seig)
    BY DEF BatchInv
  <1>2. /\ all \in Seq(Found)
        /\ \A u \in Track : b.pending[u] = <<>> => OfTrack(all, u) = <<>>
        /\ \A n \in 1..Len(r) : OfTrack(all, r[n]) = TrafSamples(h, M, n)
    BY <1>0, <1>1, BatchRows
  <1>3. SyncEntries(b, t) = [n \in DOMAIN syncs |-> entry(syncs[n])]
    BY DEF SyncEntries
  <1>4. e \in Seq(Found) /\ e \in Seq(Sample) /\ Len(e) = 0 /\ DOMAIN e = {}
    OBVIOUS
  <1>5. CASE q = <<>>
    <2>1. OfTrack(all, t) = e
      BY <1>2, <1>5
    <2>2. q = e
      BY <1>5
    <2> HIDE DEF all, e
    <2>3. places = <<>>
      BY <1>5
    <2>4. syncs = <<>>
      <3> HIDE DEF K
      <3> QED
        BY <2>3, SelectedEmpty
    <2>5. SyncEntries(b, t) = <<>>
      <3>1. DOMAIN syncs = {}
        BY <2>4
      <3> HIDE DEF syncs
      <3> QED
        BY <1>3, <3>1
    <2>6. KeysBefore(e, M + 1) = <<>>
      <3>1. \A k \in 1..Len(e) : ~(e[k].moof < M + 1)
        BY <1>4
      <3> QED
        BY <1>4, <3>1, KeysNone
    <2>7. Points(h, <<>>, <<>>)
      BY DEF Points
    <2>8. \A k \in 1..Len(e) : e[k].moof = M
      BY <1>4
    <2> QED
      BY <1>4, <2>1, <2>5, <2>6, <2>7, <2>8 DEF all
  <1>6. CASE q # <<>>
    <2>1. PICK n \in 1..Len(r) : r[n] = t
      BY <1>1, <1>6, ContributingIs
    <2>2. RunOf(b, n) = q
      BY <2>1 DEF RunOf
    <2> DEFINE s == TrafSamples(h, M, n)
               P == Position(h, M)
    <2>3. OfTrack(all, t) = s
      BY <1>2, <2>1
    <2>4. /\ s \in Seq(Found) /\ Len(s) = Len(q)
          /\ \A k \in 1..Len(q) : s[k] = RowAt(b, M, P, n, k)
      BY <1>0, <1>1, <2>2, TrafRows
    <2>5. q \in Seq(Sample) /\ DOMAIN q = 1..Len(q)
      BY <1>1 DEF BatchTyped
    <2>6. ASSUME NEW k \in 1..Len(q)
          PROVE  /\ s[k].moof = M /\ s[k].nth = k /\ s[k].key = q[k].key
                 /\ s[k].dts = nextBmdt[t] + Ticks(SubSeq(q, 1, k - 1))
      <3>1. s[k] = RowAt(b, M, P, n, k)
        BY <2>4
      <3> HIDE DEF s, P
      <3> QED
        BY <2>1, <2>2, <3>1 DEF RowAt
    <2> HIDE DEF s, P, q
    <2> DEFINE A == {k \in DOMAIN s : s[k].key /\ s[k].moof < M + 1}
    <2>7. DOMAIN s = 1..Len(q)
      BY <2>4
    <2>8. A = K
      <3>1. \A k \in 1..Len(q) : s[k].moof < M + 1
        BY <1>0, <2>6
      <3> QED
        BY <2>5, <2>6, <2>7, <3>1
    <2>9. KeysBefore(s, M + 1) = Selected(s, A)
      BY DEF KeysBefore
    <2>10. places = [k \in DOMAIN s |-> k]
      BY <2>5, <2>7
    <2> HIDE DEF A, K, places
    <2>11. /\ syncs \in Seq(Nat) /\ Len(Selected(s, K)) = Len(syncs)
           /\ \A i \in 1..Len(syncs) : syncs[i] \in 1..Len(s) /\ Selected(s, K)[i] = s[syncs[i]]
      BY <2>4, <2>10, SelectedIndex
    <2> DEFINE x == SyncEntries(b, t)
               y == Selected(s, K)
    <2> HIDE DEF syncs, entry
    <2>12. Len(x) = Len(syncs) /\ \A i \in 1..Len(syncs) : x[i] = entry(syncs[i])
      BY <1>3, <2>11
    <2>13. ASSUME NEW i \in 1..Len(syncs)
           PROVE  /\ x[i].time = y[i].dts /\ x[i].moofOffset = Position(h, y[i].moof)
                  /\ x[i].sample = y[i].nth
      <3> DEFINE k == syncs[i]
      <3>1. k \in 1..Len(q) /\ y[i] = s[k] /\ x[i] = entry(k)
        BY <2>4, <2>11, <2>12
      <3> HIDE DEF k, x, y
      <3>2. /\ s[k].moof = M /\ s[k].nth = k
            /\ s[k].dts = nextBmdt[t] + Ticks(SubSeq(q, 1, k - 1))
        BY <2>6, <3>1
      <3>3. /\ entry(k).time = nextBmdt[t] + Ticks(SubSeq(q, 1, k - 1))
            /\ entry(k).moofOffset = MoofOffset(b) /\ entry(k).sample = k
        BY DEF entry
      <3> QED
        BY <1>0, <3>1, <3>2, <3>3
    <2>14. Len(y) = Len(syncs)
      BY <2>11
    <2> HIDE DEF x, y
    <2>15. Points(h, x, y)
      BY <2>12, <2>13, <2>14 DEF Points
    <2>16. \A k \in 1..Len(s) : s[k].moof = M
      BY <2>4, <2>6
    <2> QED
      BY <2>3, <2>4, <2>8, <2>9, <2>15, <2>16 DEF x, y
  <1> QED
    BY <1>5, <1>6

LEMMA NoPoints ==
    ASSUME NEW b, NEW t \in Track, b.pending[t] = <<>>
    PROVE  SyncEntries(b, t) = <<>>
  <1> DEFINE q == b.pending[t]
             entry(k) == [time |-> nextBmdt[t] + Ticks(SubSeq(q, 1, k - 1)),
                          moofOffset |-> MoofOffset(b),
                          traf |-> 1, trun |-> 1, sample |-> k]
             places == [k \in DOMAIN q |-> k]
             K == {k \in DOMAIN q : q[k].key}
             syncs == Selected(places, K)
  <1>1. SyncEntries(b, t) = [n \in DOMAIN syncs |-> entry(syncs[n])]
    BY DEF SyncEntries
  <1>2. places = <<>>
    OBVIOUS
  <1> HIDE DEF K, places
  <1>3. syncs = <<>>
    BY <1>2, SelectedEmpty
  <1>4. DOMAIN syncs = {}
    BY <1>3
  <1> HIDE DEF syncs
  <1> QED
    BY <1>1, <1>4

(* What the mfra says of a track is what was collected for it.             *)
Listing(box, t) ==
    LET boxes == OfTrack(box.tfra, t)
    IN  IF boxes = <<>> THEN <<>> ELSE boxes[1].entries

LEMMA MfraLists ==
    ASSUME NEW tfra, tfra \in [Track -> Seq(Entry)], NEW t \in Track
    PROVE  Listing(Mfra(tfra), t) = TfraBox(t, tfra[t]).entries
  <1> DEFINE all == [u \in Track |-> u]
             K == {u \in Track : tfra[u] # <<>>}
             tracks == Selected(all, K)
             boxes == [n \in DOMAIN tracks |-> TfraBox(tracks[n], tfra[tracks[n]])]
             mine == {k \in DOMAIN boxes : boxes[k].track = t}
  <1>1. Mfra(tfra).tfra = boxes
    BY DEF Mfra
  <1>2. all \in Seq(Track) /\ DOMAIN all = Track /\ \A u \in Track : all[u] = u
    BY NumTracksAssumption DEF Track
  <1> HIDE DEF all
  <1>3. \A u : u \in K <=> u \in Track /\ tfra[u] # <<>>
    OBVIOUS
  <1> HIDE DEF K
  <1>4. PICK h : Enumerates(tracks, all, K, h)
    BY <1>2, SelectedLists
  <1>5. tracks \in Seq(Track)
    BY <1>2, SelectedTyped
  <1> HIDE DEF tracks
  <1> DEFINE N == Len(tracks)
  <1>6. DOMAIN tracks = 1..N /\ N \in Nat
    BY <1>5
  <1> HIDE DEF N
  <1>7. ASSUME NEW n \in 1..N PROVE tracks[n] = h[n] /\ h[n] \in Track /\ h[n] \in K
    <2>1. h[n] \in DOMAIN all /\ h[n] \in K /\ tracks[n] = all[h[n]]
      BY <1>4 DEF Enumerates, N
    <2> QED
      BY <1>2, <2>1
  <1>8. \A j, n \in 1..N : j < n => h[j] < h[n]
    BY <1>4 DEF Enumerates, N
  <1>9. \A k \in 1..N : boxes[k] = TfraBox(tracks[k], tfra[tracks[k]])
    BY <1>6
  <1>10. boxes = [k \in 1..N |-> boxes[k]] /\ DOMAIN boxes = 1..N
    BY <1>6
  <1>11. ASSUME NEW k \in 1..N PROVE boxes[k].track = tracks[k]
    <2>1. \A u, e : TfraBox(u, e).track = u
      BY DEF TfraBox
    <2>2. boxes[k] = TfraBox(tracks[k], tfra[tracks[k]])
      BY <1>9
    <2> HIDE DEF boxes
    <2> QED
      BY <2>1, <2>2
  <1> DEFINE S == {boxes[k] : k \in 1..N}
  <1> HIDE DEF boxes
  <1>12. boxes \in Seq(S) /\ Len(boxes) = N
    <2>1. \A k \in 1..N : boxes[k] \in S
      OBVIOUS
    <2> HIDE DEF S
    <2> QED
      BY <1>6, <1>10, <2>1
  <1> HIDE DEF S
  <1>13. \A k \in 1..N : k \in mine <=> tracks[k] = t
    BY <1>10, <1>11
  <1>14. OfTrack(boxes, t) = Selected(boxes, mine)
    BY DEF OfTrack
  <1> HIDE DEF mine
  <1>15. CASE t \in K
    <2>1. PICK i \in 1..N : h[i] = t
      <3>1. t \in DOMAIN all \cap K
        BY <1>2, <1>15
      <3> QED
        BY <1>4, <3>1 DEF Enumerates, N
    <2>2. \A k \in 1..N : tracks[k] = t <=> k = i
      <3> SUFFICES ASSUME NEW k \in 1..N, k # i PROVE h[k] # t
        BY <1>7, <2>1
      <3>1. k < i \/ i < k
        BY <1>6
      <3>2. h[k] < h[i] \/ h[i] < h[k]
        BY <1>8, <3>1
      <3>3. h[k] \in Nat /\ h[i] \in Nat
        BY <1>7 DEF Track
      <3> QED
        BY <2>1, <3>2, <3>3
    <2>3. i \in 1..Len(boxes) /\ \A k \in 1..Len(boxes) : k \in mine <=> k = i
      BY <1>12, <1>13, <2>2
    <2>4. Selected(boxes, mine) = <<boxes[i]>>
      BY <1>12, <2>3, SelectedOne
    <2>5. tracks[i] = t
      BY <2>2
    <2>6. boxes[i] = TfraBox(t, tfra[t])
      BY <1>9, <2>5
    <2> DEFINE one == <<boxes[i]>>
    <2>7. one # <<>> /\ one[1] = boxes[i]
      OBVIOUS
    <2> HIDE DEF one
    <2>8. OfTrack(Mfra(tfra).tfra, t) = one
      BY <1>1, <1>14, <2>4 DEF one
    <2> QED
      BY <2>6, <2>7, <2>8 DEF Listing
  <1>16. CASE t \notin K
    <2>1. \A k \in 1..N : tracks[k] # t
      BY <1>7, <1>16
    <2>2. \A k \in 1..Len(boxes) : k \notin mine
      BY <1>12, <1>13, <2>1
    <2>3. Selected(boxes, mine) = <<>>
      BY <1>12, <2>2, SelectedNone
    <2>4. Listing(Mfra(tfra), t) = <<>>
      BY <1>1, <1>14, <2>3 DEF Listing
    <2>5. tfra[t] = <<>>
      BY <1>3, <1>16
    <2>6. TfraBox(t, tfra[t]).entries = <<>>
      BY <2>5 DEF TfraBox
    <2> QED
      BY <2>4, <2>6
  <1> QED
    BY <1>15, <1>16

(* Only the trailer writes an mfra, behind everything else.                *)
LEMMA ChunkMfra ==
    ASSUME FileInv, NEW b, BatchInv(b), NEW extra, NEW bmdt, Ends(b, extra, bmdt),
           NEW k \in 1..Len(Chunk(b, extra)), Chunk(b, extra)[k].kind = "mfra"
    PROVE  k = Len(Chunk(b, extra)) /\ Chunk(b, extra)[k] = Mfra(TfraAfter(b))
  <1> DEFINE g == Chunk(b, extra)
             E == Len(extra)
  <1>1. IsFile(extra) /\ IsFile(g)
    <2>1. IsFile(extra)
      BY EndsTyped DEF Only
    <2> QED
      BY <2>1, ChunkIs
  <1>2. \A j \in 1..E : extra[j].kind = "mfra" => j = E /\ extra[j] = Mfra(TfraAfter(b))
    <2>1. CASE extra = <<>>
      <3>1. E = 0
        BY <2>1
      <3> HIDE DEF E
      <3> QED
        BY <3>1
    <2>2. CASE extra = Index(TfraAfter(b))
      <3>1. extra = <<>> \/ extra = <<Mfra(TfraAfter(b))>>
        BY <2>2 DEF Index
      <3>2. CASE extra = <<Mfra(TfraAfter(b))>>
        <4> DEFINE box == Mfra(TfraAfter(b))
        <4>1. E = 1 /\ extra[1] = box
          BY <3>2
        <4> HIDE DEF box, E
        <4>2. \A j \in 1..E : j = E /\ extra[j] = box
          BY <4>1
        <4> QED
          BY <4>2 DEF box
      <3> QED
        BY <2>1, <3>1, <3>2
    <2>3. ASSUME NEW t, NEW d, NEW seq, extra = <<GapMoof(seq, t, BmdtAfter(b)[t], d)>>
          PROVE  \A j \in 1..E : extra[j].kind # "mfra"
      <3> DEFINE box == GapMoof(seq, t, BmdtAfter(b)[t], d)
      <3>1. box.kind = "moof"
        BY Zenon DEF GapMoof, MoofBox
      <3>2. E = 1 /\ extra[1] = box
        BY <2>3
      <3> HIDE DEF box, E
      <3> QED
        BY <3>1, <3>2
    <2> QED
      BY <2>1, <2>2, <2>3 DEF Ends
  <1>3. CASE Idle(b)
    <2>1. g = extra
      BY <1>3 DEF Chunk
    <2> QED
      BY <1>2, <2>1
  <1>4. CASE ~Idle(b)
    <2> DEFINE n == Len(Prelude(b))
               G == Len(g)
    <2>1. /\ n \in Nat /\ G = n + 2 + E
          /\ \A j \in 1..n : g[j].kind \in PreludeKinds
          /\ g[n + 1] = BuildMoof(b) /\ g[n + 2] = BuildMdat(b)
          /\ \A j \in 1..E : g[n + 2 + j] = extra[j]
      BY <1>1, <1>4, ChunkBoxes
    <2>2. BuildMoof(b).kind = "moof" /\ BuildMdat(b).kind = "mdat"
      BY BoxesSized DEF FileInv, BatchInv
    <2>3. E \in Nat /\ k \in 1..G /\ g[k].kind = "mfra"
      BY <1>1 DEF IsFile
    <2> HIDE DEF n, G, E, g
    <2>4. k \notin 1..n
      BY <2>1, <2>3 DEF PreludeKinds
    <2>5. k # n + 1 /\ k # n + 2
      BY <2>1, <2>2, <2>3
    <2> DEFINE j == k - (n + 2)
    <2>6. j \in 1..E /\ k = n + 2 + j
      BY <2>1, <2>3, <2>4, <2>5
    <2> HIDE DEF j
    <2>7. g[k] = extra[j]
      BY <2>1, <2>6
    <2>8. j = E /\ extra[j] = Mfra(TfraAfter(b))
      BY <1>2, <2>3, <2>6, <2>7
    <2> QED
      BY <2>1, <2>6, <2>7, <2>8 DEF g, G
  <1> QED
    BY <1>3, <1>4

LEMMA KeysInside ==
    ASSUME NEW p \in Seq(Found), NEW m, NEW lo, NEW hi,
           \A k \in 1..Len(p) : p[k].moof \in lo..hi
    PROVE  /\ KeysBefore(p, m) \in Seq(Found)
           /\ \A n \in 1..Len(KeysBefore(p, m)) : KeysBefore(p, m)[n].moof \in lo..hi
  <1>1. /\ KeysBefore(p, m) \in Seq(Found)
        /\ \A n \in 1..Len(KeysBefore(p, m)) : \E k \in 1..Len(p) : KeysBefore(p, m)[n] = p[k]
    BY KeysTyped
  <1> QED
    BY <1>1

(* New samples lie behind the old ones and add their entries; what an      *)
(* index inside the file said stays true.                                  *)
LEMMA IndexGrows ==
    ASSUME NEW f, NEW h, IsFile(f), IsFile(h), Prefixed(f, h),
           NEW d \in Seq(Entry), NEW e \in Seq(Entry),
           NEW old \in Seq(Found), NEW new \in Seq(Found),
           \A k \in 1..Len(old) : old[k].moof \in 1..Len(f),
           \A k \in 1..Len(new) : new[k].moof \in (Len(f) + 1)..Len(h),
           Points(f, d, KeysBefore(old, Len(f) + 1)),
           Points(h, e, KeysBefore(new, Len(h) + 1))
    PROVE  /\ Points(h, d \o e, KeysBefore(old \o new, Len(h) + 1))
           /\ \A m \in 1..Len(f) : \A x :
                Indexed(f, x, KeysBefore(old, m)) => Indexed(h, x, KeysBefore(old \o new, m))
  <1> DEFINE L == Len(f)
             N == Len(h)
  <1>1. L \in Nat /\ N \in Nat /\ L <= N
    BY DEF IsFile, Prefixed
  <1>2. /\ KeysBefore(old, L + 1) = KeysBefore(old, N + 1)
    <2>1. \A k \in 1..Len(old) : old[k].moof < L + 1 /\ old[k].moof < N + 1
      <3>1. \A k \in 1..Len(old) : old[k].moof \in 1..L
        OBVIOUS
      <3> HIDE DEF L, N
      <3> QED
        BY <1>1, <3>1
    <2> HIDE DEF L, N
    <2> QED
      BY <2>1, KeysWhole
  <1>3. /\ KeysBefore(old, L + 1) \in Seq(Found)
        /\ \A n \in 1..Len(KeysBefore(old, L + 1)) : KeysBefore(old, L + 1)[n].moof \in 1..L
    <2>1. \A k \in 1..Len(old) : old[k].moof \in 1..L
      OBVIOUS
    <2> HIDE DEF L
    <2> QED
      BY <2>1, KeysInside
  <1>4. KeysBefore(new, N + 1) \in Seq(Found)
    BY KeysTyped
  <1>5. Points(h, d, KeysBefore(old, N + 1))
    <2> DEFINE s == KeysBefore(old, L + 1)
    <2>1. \A n \in 1..Len(s) : s[n].moof \in 1..Len(f)
      BY <1>3
    <2>2. Points(f, d, s)
      OBVIOUS
    <2> HIDE DEF s
    <2>3. Points(h, d, s)
      BY <2>1, <2>2, PointsStay
    <2> QED
      BY <1>2, <2>3 DEF s
  <1>6. Points(h, d \o e, KeysBefore(old \o new, N + 1))
    <2> DEFINE r == KeysBefore(old, N + 1)
               s == KeysBefore(new, N + 1)
    <2>1. r \in Seq(Found) /\ s \in Seq(Found) /\ Points(h, d, r) /\ Points(h, e, s)
      BY <1>2, <1>3, <1>4, <1>5
    <2>2. KeysBefore(old \o new, N + 1) = r \o s
      <3> HIDE DEF N
      <3> QED
        BY KeysConcat, SMTT(30), ZenonT(60)
    <2> HIDE DEF r, s
    <2>3. Points(h, d \o e, r \o s)
      BY <2>1, PointsConcat
    <2> QED
      BY <2>2, <2>3
  <1>7. ASSUME NEW m \in 1..L, NEW x, Indexed(f, x, KeysBefore(old, m))
        PROVE  Indexed(h, x, KeysBefore(old \o new, m))
    <2> DEFINE s == KeysBefore(old, m)
    <2>1. KeysBefore(new, m) = <<>>
      <3>1. \A k \in 1..Len(new) : new[k].moof \in (L + 1)..N
        OBVIOUS
      <3> HIDE DEF L, N
      <3>2. \A k \in 1..Len(new) : ~(new[k].moof < m)
        BY <1>1, <3>1
      <3> QED
        BY <3>2, KeysNone
    <2>2. KeysBefore(old \o new, m) = s \o KeysBefore(new, m)
      <3> HIDE DEF L, N
      <3> QED
        BY KeysConcat, SMTT(30), ZenonT(60)
    <2>3. s \in Seq(Found) /\ \A n \in 1..Len(s) : s[n].moof \in 1..L
      <3>1. \A k \in 1..Len(old) : old[k].moof \in 1..L
        OBVIOUS
      <3> HIDE DEF L
      <3> QED
        BY <3>1, KeysInside
    <2>4. Indexed(f, x, s)
      BY <1>7
    <2> HIDE DEF s
    <2>5. s \o <<>> = s
      BY <2>3, ConcatEmptySeq
    <2>6. Indexed(h, x, s)
      BY <2>3, <2>4, PointsStay
    <2> QED
      BY <2>1, <2>2, <2>5, <2>6
  <1> QED
    BY <1>6, <1>7

LEMMA ChunkPoints ==
    ASSUME FileInv, NEW b, BatchInv(b), NEW extra, NEW bmdt, Ends(b, extra, bmdt),
           NEW t \in Track, NEW h, h = file \o Chunk(b, extra)
    PROVE  \E new \in Seq(Found) :
              /\ HasRows(Found, file) => Listed(h) = Listed(file) \o new
              /\ LET rows == OfTrack(new, t)
                 IN  /\ \A k \in 1..Len(rows) : rows[k].moof \in (Len(file) + 1)..Len(h)
                     /\ Points(h, SyncEntries(b, t), KeysBefore(rows, Len(h) + 1))
  <1> DEFINE g == Chunk(b, extra)
             M == Len(file) + (Len(Prelude(b)) + 1)
             new == FlattenSeq([k \in 1..Len(g) |-> Rows(h, Len(file) + k)])
             rows == OfTrack(new, t)
             L == Len(file)
             N == Len(h)
  <1>1. /\ \A k \in 1..Len(g) : Rows(h, Len(file) + k) \in Seq(Found)
        /\ Idle(b) => new = <<>>
        /\ ~Idle(b) =>
             /\ M \in Nat /\ M \in 1..Len(h) /\ M > Len(file)
             /\ h[M] = BuildMoof(b) /\ Position(h, M) \in Nat
             /\ new = MoofSamples(h, M)
    BY ChunkRows
  <1>2. IsFile(extra)
    BY EndsTyped DEF Only
  <1>3. IsFile(g) /\ IsFile(file)
    BY <1>2, ChunkIs DEF FileInv
  <1>4. BatchTyped(b.pending, b.senc, b.seig)
    BY DEF BatchInv
  <1>5. new \in Seq(Found)
    <2>1. CASE Idle(b)
      BY <1>1, <2>1
    <2>2. CASE ~Idle(b)
      <3>1. MoofSamples(h, M) \in Seq(Found)
        BY <1>1, <1>4, <2>2, BatchRows
      <3> QED
        BY <1>1, <2>2, <3>1
    <2> QED
      BY <2>1, <2>2
  <1>6. HasRows(Found, file) => Listed(h) = Listed(file) \o new
    <2> SUFFICES ASSUME HasRows(Found, file) PROVE Listed(h) = Listed(file) \o new
      OBVIOUS
    <2>1. h = file \o g
      OBVIOUS
    <2> HIDE DEF g
    <2>2. Joined(Listed(file \o g), Listed(file),
                 FlattenSeq([k \in 1..Len(g) |-> Rows(file \o g, Len(file) + k)]))
      BY <1>1, <1>3, <2>1, RowsConcat
    <2> QED
      BY <2>1, <2>2 DEF Joined
  <1>7. L \in Nat /\ N \in Nat
    <2>1. IsFile(h)
      <3> HIDE DEF g
      <3>1. h = file \o g
        BY DEF g
      <3> QED
        BY <1>3, <3>1, FileConcat
    <2> QED
      BY <1>3, <2>1 DEF IsFile
  <1>8. /\ \A k \in 1..Len(rows) : rows[k].moof \in (L + 1)..N
        /\ Points(h, SyncEntries(b, t), KeysBefore(rows, N + 1))
    <2>1. CASE Idle(b)
      <3> DEFINE e == <<>>
      <3>1. e \in Seq(Found) /\ Len(e) = 0
        OBVIOUS
      <3>2. new = e
        BY <1>1, <2>1
      <3>3. \A k \in 1..Len(e) : e[k].track = t
        BY <3>1
      <3> HIDE DEF e, new
      <3>4. OfTrack(e, t) = e
        BY <3>1, <3>3, OfTrackWhole
      <3>5. rows = e
        BY <3>2, <3>4
      <3> HIDE DEF N, L
      <3>6. KeysBefore(e, N + 1) = <<>>
        <4>1. \A k \in 1..Len(e) : ~(e[k].moof < N + 1)
          BY <3>1
        <4> QED
          BY <3>1, <4>1, KeysNone
      <3>7. SyncEntries(b, t) = <<>>
        BY <2>1, NoPoints DEF Idle
      <3>8. Points(h, <<>>, <<>>)
        BY DEF Points
      <3> QED
        BY <3>1, <3>5, <3>6, <3>7, <3>8
    <2>2. CASE ~Idle(b)
      <3>1. /\ M \in Nat /\ M \in 1..N /\ M > L /\ h[M] = BuildMoof(b)
            /\ Position(h, M) \in Nat /\ new = MoofSamples(h, M)
        BY <1>1, <2>2
      <3>2. Position(h, M) = MoofOffset(b)
        BY <1>2, <2>2, MoofSits
      <3> HIDE DEF M, new, N, L, g
      <3> DEFINE mine == OfTrack(MoofSamples(h, M), t)
      <3>3. /\ mine \in Seq(Found) /\ \A k \in 1..Len(mine) : mine[k].moof = M
            /\ Points(h, SyncEntries(b, t), KeysBefore(mine, M + 1))
        <4>1. mine = OfTrack(MoofSamples(h, M), t)
          OBVIOUS
        <4> HIDE DEF mine
        <4>2. Sits(b, h, M)
          BY <3>1, <3>2 DEF Sits
        <4> QED
          BY <4>1, <4>2, BatchPoints
      <3>4. rows = mine
        BY <3>1
      <3> HIDE DEF mine, rows
      <3>5. M \in (L + 1)..N /\ M < M + 1 /\ M < N + 1
        BY <1>7, <3>1
      <3>6. \A k \in 1..Len(mine) : mine[k].moof < M + 1 /\ mine[k].moof < N + 1
        BY <3>3, <3>5
      <3>7. KeysBefore(mine, M + 1) = KeysBefore(mine, N + 1)
        BY <3>3, <3>6, KeysWhole
      <3> QED
        BY <3>3, <3>4, <3>5, <3>7
    <2> QED
      BY <2>1, <2>2
  <1> HIDE DEF new
  <1> QED
    BY <1>5, <1>6, <1>8

(* A file of which the index inside it and the index still to be written   *)
(* both list the sync samples of track t before them.                      *)
Indexing(f, tfra, t) ==
    /\ Points(f, tfra, KeysBefore(OfTrack(Listed(f), t), Len(f) + 1))
    /\ \A m \in 1..Len(f) : f[m].kind = "mfra" =>
          Indexed(f, Listing(f[m], t), KeysBefore(OfTrack(Listed(f), t), m))
Inside(f, rows) ==
    /\ rows \in Seq(Found)
    /\ \A k \in 1..Len(rows) : rows[k].moof \in 1..Len(f) /\ f[rows[k].moof].kind = "moof"
IndexInv == ~opts.io => \A t \in Track : Indexing(file, tfraEntries[t], t)

LEMMA RowsInside ==
    ASSUME NEW f, HasRows(Found, f), NEW c, NEW t,
           NEW p, Matches(c, f, t, OfTrack(Listed(f), t), p)
    PROVE  Inside(f, OfTrack(Listed(f), t))
  <1>1. Listed(f) \in Seq(Found)
    BY ListedTyped
  <1>2. OfTrack(Listed(f), t) \in Seq(Found)
    BY <1>1, OfTrackTyped
  <1> QED
    BY <1>2 DEF Inside, Matches, Told

(* Patching the moov moves nothing the index speaks of.                    *)
LEMMA IndexingAlike ==
    ASSUME NEW f, NEW h, HasRows(Found, f), Alike(f, h), NEW t,
           Inside(f, OfTrack(Listed(f), t)), NEW tfra, Indexing(f, tfra, t)
    PROVE  Indexing(h, tfra, t)
  <1> DEFINE rows == OfTrack(Listed(f), t)
             L == Len(f)
  <1>1. IsFile(f) /\ IsFile(h) /\ Len(h) = L /\ OfTrack(Listed(h), t) = rows
    BY AlikeRows, AlikeFile DEF HasRows, Alike
  <1>2. Prefixed(f, h)
    <2>1. L \in Nat /\ \A j \in 1..(L + 1) : Position(h, j) = Position(f, j)
      BY <1>1, AlikePositions DEF IsFile
    <2> QED
      BY <1>1, <2>1 DEF Prefixed, Alike
  <1>3. rows \in Seq(Found) /\ \A k \in 1..Len(rows) : rows[k].moof \in 1..L
    BY DEF Inside
  <1> HIDE DEF rows, L
  <1>4. \A m : \A n \in 1..Len(KeysBefore(rows, m)) : KeysBefore(rows, m)[n].moof \in 1..L
    BY <1>3, KeysInside
  <1>5. Points(h, tfra, KeysBefore(rows, Len(h) + 1))
    <2>1. Points(f, tfra, KeysBefore(rows, L + 1))
      BY DEF Indexing, rows, L
    <2> DEFINE s == KeysBefore(rows, L + 1)
    <2>2. \A n \in 1..Len(s) : s[n].moof \in 1..Len(f)
      BY <1>4 DEF L
    <2> HIDE DEF s
    <2>3. Points(h, tfra, s)
      BY <1>1, <1>2, <2>1, <2>2, PointsStay DEF s
    <2> QED
      BY <1>1, <2>3 DEF s
  <1>6. ASSUME NEW m \in 1..Len(h), h[m].kind = "mfra"
        PROVE  Indexed(h, Listing(h[m], t), KeysBefore(rows, m))
    <2> DEFINE s == KeysBefore(rows, m)
               x == Listing(h[m], t)
    <2>1. m \in 1..Len(f) /\ h[m] = f[m]
      BY <1>1, <1>2, <1>6 DEF Prefixed, L
    <2>2. Indexed(f, x, s)
      BY <1>6, <2>1 DEF Indexing, rows
    <2>3. \A n \in 1..Len(s) : s[n].moof \in 1..Len(f)
      BY <1>4 DEF L
    <2> HIDE DEF s, x
    <2>4. Indexed(h, x, s)
      BY <1>1, <1>2, <2>2, <2>3, PointsStay
    <2> QED
      BY <2>4 DEF s, x
  <1> QED
    BY <1>1, <1>5, <1>6 DEF Indexing

(* What a step adds: samples and their entries, and an index at the end at *)
(* most.                                                                   *)
LEMMA IndexingGrows ==
    ASSUME NEW f, NEW g, IsFile(f), IsFile(g), NEW h, h = f \o g, NEW t,
           NEW d \in Seq(Entry), Indexing(f, d, t), Inside(f, OfTrack(Listed(f), t)),
           Listed(f) \in Seq(Found), NEW new \in Seq(Found),
           Listed(h) = Listed(f) \o new, Inside(h, OfTrack(Listed(h), t)),
           \A k \in 1..Len(OfTrack(new, t)) : OfTrack(new, t)[k].moof \in (Len(f) + 1)..Len(h),
           NEW e \in Seq(Entry), Points(h, e, KeysBefore(OfTrack(new, t), Len(h) + 1)),
           \A k \in 1..Len(g) : g[k].kind = "mfra" =>
                k = Len(g) /\ Listing(g[k], t) = TfraBox(t, d \o e).entries
    PROVE  Indexing(h, d \o e, t)
  <1> DEFINE old == OfTrack(Listed(f), t)
             mine == OfTrack(new, t)
             all == OfTrack(Listed(h), t)
             c == d \o e
             L == Len(f)
             G == Len(g)
             N == Len(h)
  <1>1. /\ IsFile(h) /\ N = L + G /\ L \in Nat /\ G \in Nat
        /\ \A k \in 1..L : h[k] = f[k]
        /\ \A k \in 1..G : h[L + k] = g[k]
    <2>1. L \in Nat /\ G \in Nat
      BY DEF IsFile
    <2> QED
      BY <2>1, FileConcat
  <1>2. Prefixed(f, h)
    <2>1. Alike(f \o g, h)
      BY <1>1, AlikeSelf
    <2> QED
      BY <2>1, AlikePrefixed
  <1>3. all = old \o mine
    <2> DEFINE p == Listed(f)
    <2>1. p \in Seq(Found) /\ Listed(h) = p \o new
      OBVIOUS
    <2> HIDE DEF p
    <2>2. OfTrack(p \o new, t) = OfTrack(p, t) \o OfTrack(new, t)
      BY <2>1, OfTrackConcat
    <2> QED
      BY <2>1, <2>2 DEF p
  <1>4. old \in Seq(Found) /\ mine \in Seq(Found) /\ all \in Seq(Found) /\ c \in Seq(Entry)
    BY OfTrackTyped DEF Inside
  <1>5. /\ \A k \in 1..Len(old) : old[k].moof \in 1..L
        /\ \A k \in 1..Len(mine) : mine[k].moof \in (L + 1)..N
        /\ \A k \in 1..Len(all) : all[k].moof \in 1..N /\ h[all[k].moof].kind = "moof"
    BY DEF Inside
  <1>6. /\ Points(f, d, KeysBefore(old, L + 1))
        /\ \A m \in 1..L : f[m].kind = "mfra" => Indexed(f, Listing(f[m], t), KeysBefore(old, m))
        /\ Points(h, e, KeysBefore(mine, N + 1))
    BY DEF Indexing
  <1>7. \A k \in 1..G : g[k].kind = "mfra" => k = G /\ Listing(g[k], t) = TfraBox(t, c).entries
    OBVIOUS
  <1> HIDE DEF old, mine, all
  <1>8. /\ Points(h, d \o e, KeysBefore(all, N + 1))
        /\ \A m \in 1..L : \A x :
              Indexed(f, x, KeysBefore(old, m)) => Indexed(h, x, KeysBefore(all, m))
    <2>1. /\ Points(h, d \o e, KeysBefore(old \o mine, Len(h) + 1))
          /\ \A m \in 1..Len(f) : \A x :
                Indexed(f, x, KeysBefore(old, m)) => Indexed(h, x, KeysBefore(old \o mine, m))
      <3>1. /\ \A k \in 1..Len(old) : old[k].moof \in 1..Len(f)
            /\ \A k \in 1..Len(mine) : mine[k].moof \in (Len(f) + 1)..Len(h)
            /\ Points(f, d, KeysBefore(old, Len(f) + 1))
            /\ Points(h, e, KeysBefore(mine, Len(h) + 1))
        BY <1>5, <1>6
      <3> QED
        BY <1>1, <1>2, <1>4, <3>1, IndexGrows
    <2> QED
      BY <1>3, <2>1
  <1> HIDE DEF c, L, N, G
  <1>9. ASSUME NEW m \in 1..N, h[m].kind = "mfra"
        PROVE  Indexed(h, Listing(h[m], t), KeysBefore(all, m))
    <2>1. CASE m \in 1..L
      BY <1>1, <1>6, <1>8, <1>9, <2>1
    <2>2. CASE m \notin 1..L
      <3> DEFINE k == m - L
      <3>1. k \in 1..G /\ m = L + k
        BY <1>1, <2>2
      <3> HIDE DEF k
      <3>2. h[m] = g[k]
        BY <1>1, <3>1
      <3>3. k = G /\ Listing(h[m], t) = TfraBox(t, c).entries
        BY <1>7, <1>9, <3>1, <3>2
      <3>4. m = N
        BY <1>1, <3>1, <3>3
      <3>5. \A j \in 1..Len(all) : all[j].moof < m /\ all[j].moof < N + 1
        <4> SUFFICES ASSUME NEW j \in 1..Len(all) PROVE all[j].moof < m /\ all[j].moof < N + 1
          OBVIOUS
        <4> DEFINE i == all[j].moof
        <4>1. i \in 1..N /\ i # m
          BY <1>5, <1>9
        <4>2. N \in Nat
          BY <1>1
        <4> HIDE DEF i
        <4>3. i < m /\ i < N + 1
          BY <3>4, <4>1, <4>2
        <4> QED
          BY <4>3 DEF i
      <3>6. KeysBefore(all, m) = KeysBefore(all, N + 1)
        BY <1>4, <3>5, KeysWhole
      <3>7. Points(h, c, KeysBefore(all, N + 1))
        BY <1>8 DEF c
      <3>8. Indexed(h, TfraBox(t, c).entries, KeysBefore(all, N + 1))
        BY <1>4, <3>7, BoxIndexed
      <3> QED
        BY <3>3, <3>6, <3>8
    <2> QED
      BY <2>1, <2>2
  <1> QED
    BY <1>8, <1>9 DEF Indexing, all, N, c

LEMMA QuietListed ==
    ASSUME NEW f, HasRows(Found, f), NEW g, IsFile(g), \A k \in 1..Len(g) : g[k].kind # "moof"
    PROVE  Listed(f \o g) = Listed(f)
  <1> DEFINE h == f \o g
             L == Len(f)
             rows == [k \in 1..Len(g) |-> Rows(h, L + k)]
             V == Seq(Found)
             new == FlattenSeq(rows)
  <1>1. IsFile(f) /\ Len(g) \in Nat
    <2>1. IsFile(f)
      BY DEF HasRows
    <2>2. Len(g) \in Nat
      BY DEF IsFile
    <2> QED
      BY <2>1, <2>2
  <1>2. \A k \in 1..Len(g) : h[L + k] = g[k]
    BY <1>1, FileConcat
  <1> HIDE DEF h
  <1>3. \A k \in 1..Len(g) : Rows(h, L + k) = <<>>
    BY <1>2 DEF Rows
  <1>4. \A k \in 1..Len(g) : Rows(h, L + k) \in V
    <2>1. <<>> \in V
      OBVIOUS
    <2> QED
      BY <1>3, <2>1
  <1>5. rows \in Seq(V) /\ Len(rows) = Len(g) /\ \A k \in 1..Len(rows) : rows[k] = <<>>
    <2>1. \A k \in 1..Len(g) : rows[k] \in V /\ rows[k] = <<>>
      BY <1>3, <1>4
    <2>2. rows = [k \in 1..Len(g) |-> rows[k]]
      OBVIOUS
    <2> HIDE DEF rows, V
    <2> QED
      BY <1>1, <2>1, <2>2
  <1>6. Joined(Listed(h), Listed(f), new)
    BY <1>4, RowsConcat DEF h
  <1> HIDE DEF rows
  <1>7. new = <<>>
    BY <1>5, FlattenNone DEF V
  <1>8. Listed(f) \in Seq(Found)
    BY ListedTyped
  <1> HIDE DEF new
  <1>9. Listed(f) \o <<>> = Listed(f)
    BY <1>8, ConcatEmptySeq
  <1> QED
    BY <1>6, <1>7, <1>9 DEF Joined, h

LEMMA QuietIndex ==
    ASSUME FileInv, RowsInv, RowsInv', IndexInv, UNCHANGED <<opts, tfraEntries>>,
           NEW g, IsFile(g), \A k \in 1..Len(g) : g[k].kind \notin {"moof", "mfra"},
           file' = file \o g
    PROVE  IndexInv'
  <1> SUFFICES ASSUME ~opts.io, NEW t \in Track PROVE Indexing(file', tfraEntries'[t], t)
    BY DEF IndexInv
  <1> DEFINE h == file \o g
             d == tfraEntries[t]
             e == <<>>
             p == Listed(file)
  <1>1. /\ IsFile(file) /\ HasRows(Found, file)
        /\ Matches(opts.cadence, file, t, OfTrack(p, t), published[t])
    BY DEF FileInv, RowsInv
  <1>2. d \in Seq(Entry) /\ Indexing(file, d, t)
    BY DEF FileInv, IndexInv
  <1>3. Inside(file, OfTrack(p, t))
    BY <1>1, RowsInside
  <1>4. Inside(h, OfTrack(Listed(h), t))
    <2>1. HasRows(Found, file') /\ Matches(opts.cadence, file', t, OfTrack(Listed(file'), t), published'[t])
      BY DEF RowsInv
    <2>2. Inside(file', OfTrack(Listed(file'), t))
      BY <2>1, RowsInside
    <2> QED
      BY <2>2
  <1>5. p \in Seq(Found)
    BY <1>1, ListedTyped
  <1>6. Listed(h) = p
    <2>1. \A k \in 1..Len(g) : g[k].kind # "moof"
      OBVIOUS
    <2> QED
      BY <1>1, <2>1, QuietListed
  <1>7. /\ e \in Seq(Found) /\ e \in Seq(Entry) /\ Len(e) = 0
        /\ \A k \in 1..Len(e) : e[k].track = t /\ ~(e[k].moof < Len(h) + 1)
    OBVIOUS
  <1>8. Points(h, e, e)
    BY DEF Points
  <1> HIDE DEF e, h
  <1>9. OfTrack(e, t) = e /\ KeysBefore(e, Len(h) + 1) = <<>>
    BY <1>7, OfTrackWhole, KeysNone
  <1>10. p \o e = p /\ d \o e = d
    BY <1>2, <1>5, ConcatEmptySeq DEF e
  <1> HIDE DEF d, p
  <1>11. Points(h, e, KeysBefore(OfTrack(e, t), Len(h) + 1))
    BY <1>8, <1>9 DEF e
  <1>12. \A k \in 1..Len(OfTrack(e, t)) : OfTrack(e, t)[k].moof \in (Len(file) + 1)..Len(h)
    BY <1>7, <1>9
  <1>13. Indexing(h, d \o e, t)
    <2>1. Listed(h) = Listed(file) \o e /\ Listed(file) \in Seq(Found) /\ h = file \o g
      BY <1>5, <1>6, <1>10 DEF p, h
    <2>2. Inside(file, OfTrack(Listed(file), t))
      BY <1>3 DEF p
    <2>3. \A k \in 1..Len(g) : g[k].kind # "mfra"
      OBVIOUS
    <2> QED
      BY <1>1, <1>2, <1>4, <1>7, <1>11, <1>12, <2>1, <2>2, <2>3, IndexingGrows
  <1> QED
    BY <1>10, <1>13 DEF h, d

LEMMA ChunkIndex ==
    ASSUME FileInv, RowsInv, RowsInv', IndexInv, UNCHANGED opts, headerWritten,
           NEW b, BatchInv(b), NEW extra, Completes(b, extra)
    PROVE  IndexInv'
  <1> SUFFICES ASSUME ~opts.io, NEW t \in Track PROVE Indexing(file', tfraEntries'[t], t)
    BY DEF IndexInv
  <1> DEFINE g == Chunk(b, extra)
             h == file \o g
             d == tfraEntries[t]
             e == SyncEntries(b, t)
  <1>1. Ends(b, extra, nextBmdt') /\ tfraEntries' = TfraAfter(b)
    BY DEF Completes
  <1>2. IsFile(g) /\ Alike(h, file') /\ h = file \o g
    BY CompletedFile
  <1>3. /\ IsFile(file) /\ HasRows(Found, file) /\ Listed(file) \in Seq(Found)
        /\ Matches(opts.cadence, file, t, OfTrack(Listed(file), t), published[t])
    BY ListedTyped DEF FileInv, RowsInv
  <1>4. /\ d \in Seq(Entry) /\ e \in Seq(Entry) /\ Indexing(file, d, t)
    BY SyncEntriesTyped DEF FileInv, QueueInv, IndexInv, BatchInv
  <1>5. tfraEntries'[t] = d \o e
    BY <1>1 DEF TfraAfter
  <1>6. Inside(file, OfTrack(Listed(file), t))
    BY <1>3, RowsInside
  <1>7. PICK new \in Seq(Found) :
              /\ HasRows(Found, file) => Listed(h) = Listed(file) \o new
              /\ \A k \in 1..Len(OfTrack(new, t)) :
                    OfTrack(new, t)[k].moof \in (Len(file) + 1)..Len(h)
              /\ Points(h, e, KeysBefore(OfTrack(new, t), Len(h) + 1))
    BY <1>1, ChunkPoints
  <1>8. \A k \in 1..Len(g) : g[k].kind = "mfra" =>
            k = Len(g) /\ Listing(g[k], t) = TfraBox(t, d \o e).entries
    <2> SUFFICES ASSUME NEW k \in 1..Len(g), g[k].kind = "mfra"
                 PROVE  k = Len(g) /\ Listing(g[k], t) = TfraBox(t, d \o e).entries
      OBVIOUS
    <2>1. k = Len(g) /\ g[k] = Mfra(TfraAfter(b))
      BY <1>1, ChunkMfra
    <2>2. Listing(Mfra(TfraAfter(b)), t) = TfraBox(t, TfraAfter(b)[t]).entries
      <3>1. TfraAfter(b) \in [Track -> Seq(Entry)]
        BY TfraTyped
      <3> QED
        BY <3>1, MfraLists
    <2>3. TfraAfter(b)[t] = d \o e
      BY <1>1, <1>5
    <2> QED
      BY <2>1, <2>2, <2>3
  <1> HIDE DEF g, h, d, e
  <1>9. HasRows(Found, file') /\ Inside(file', OfTrack(Listed(file'), t))
    <2>1. HasRows(Found, file') /\ Matches(opts.cadence, file', t, OfTrack(Listed(file'), t), published'[t])
      BY DEF RowsInv
    <2> QED
      BY <2>1, RowsInside
  <1>10. HasRows(Found, h)
    <2>1. \A k \in 1..Len(g) : Rows(file \o g, Len(file) + k) \in Seq(Found)
      BY <1>1, ChunkRows DEF g
    <2> QED
      BY <1>2, <1>3, <2>1, RowsConcat
  <1>11. Inside(h, OfTrack(Listed(h), t))
    <2>1. Listed(file') = Listed(h)
      BY <1>2, <1>10, AlikeRows
    <2> DEFINE rows == OfTrack(Listed(h), t)
    <2>2. Inside(file', rows)
      BY <1>9, <2>1
    <2> HIDE DEF rows
    <2>3. Inside(h, rows)
      BY <1>2, <2>2 DEF Inside, Alike
    <2> QED
      BY <2>3 DEF rows
  <1>12. Indexing(h, d \o e, t)
    BY <1>2, <1>3, <1>4, <1>6, <1>7, <1>8, <1>11, IndexingGrows
  <1>13. Indexing(file', d \o e, t)
    BY <1>2, <1>10, <1>11, <1>12, IndexingAlike
  <1> QED
    BY <1>5, <1>13

LEMMA IndexNext ==
    ASSUME FileInv, RowsInv, RowsInv', IndexInv, UNCHANGED opts, FileStep
    PROVE  IndexInv'
  <1>1. CASE UNCHANGED output
    BY <1>1 DEF output, IndexInv, Indexing, Points, Indexed, Listing
  <1>2. CASE Opens
    <2>1. PICK g : Only({"ftyp", "moov"}, g) /\ file' = file \o g
      BY <1>2, HeaderFile DEF Opens
    <2>2. UNCHANGED tfraEntries
      BY <1>2 DEF Opens
    <2>3. IsFile(g) /\ \A k \in 1..Len(g) : g[k].kind \notin {"moof", "mfra"}
      BY <2>1 DEF Only
    <2> QED
      BY <2>1, <2>2, <2>3, QuietIndex
  <1>3. ASSUME NEW b, BatchInv(b), FlushBreaks(b)
        PROVE  IndexInv'
    <2> SUFFICES ASSUME ~opts.io PROVE IndexInv'
      BY DEF IndexInv
    <2>1. PICK g : Only(PreludeKinds, g) /\ file' = file \o g /\ UNCHANGED tfraEntries
      BY <1>3, BrokenIs
    <2>2. IsFile(g) /\ \A k \in 1..Len(g) : g[k].kind \notin {"moof", "mfra"}
      BY <2>1 DEF Only, PreludeKinds
    <2> QED
      BY <2>1, <2>2, QuietIndex
  <1>4. ASSUME headerWritten, NEW b, BatchInv(b), NEW extra, Completes(b, extra)
        PROVE  IndexInv'
    BY <1>4, ChunkIndex
  <1> QED
    BY <1>1, <1>2, <1>3, <1>4 DEF FileStep

LEMMA IndexInit == Init => IndexInv
  <1> SUFFICES ASSUME Init, NEW t \in Track PROVE Indexing(file, tfraEntries[t], t)
    BY DEF IndexInv
  <1> DEFINE e == <<>>
             rows == OfTrack(Listed(e), t)
  <1>1. file = e /\ tfraEntries[t] = e
    BY DEF Init, Empty
  <1>2. /\ IsFile(e) /\ Len(e) = 0 /\ e \in Seq(Found) /\ \A k \in 1..Len(e) : e[k].track = t
        /\ \A k \in 1..Len(e) : e[k] = <<>>
        /\ \A k \in 1..Len(e) : ~(e[k].moof < Len(e) + 1)
        /\ e \in Seq(Seq(Found))
    BY OnlyEmpty DEF Only
  <1>3. [m \in DOMAIN e |-> Rows(e, m)] = e
    OBVIOUS
  <1>4. Points(e, e, e)
    BY DEF Points
  <1> HIDE DEF e
  <1>5. Listed(e) = e
    <2>1. FlattenSeq(e) = e
      BY <1>2, FlattenNone DEF e
    <2> QED
      BY <1>3, <2>1, ListedIs
  <1>6. rows = e
    BY <1>2, <1>5, OfTrackWhole
  <1> HIDE DEF rows
  <1>7. KeysBefore(e, Len(e) + 1) = e
    BY <1>2, KeysNone DEF e
  <1>8. Points(e, e, KeysBefore(rows, Len(e) + 1))
    BY <1>4, <1>6, <1>7
  <1> QED
    BY <1>1, <1>2, <1>8 DEF Indexing, rows

LEMMA IndexAlways == Spec => []IndexInv
  <1>1. FileInv /\ RowsInv /\ RowsInv' /\ IndexInv /\ [Next]_vars => IndexInv'
    <2> SUFFICES ASSUME FileInv, RowsInv, RowsInv', IndexInv, [Next]_vars PROVE IndexInv'
      OBVIOUS
    <2>1. FileStep
      BY EveryStep DEF FileInv
    <2>2. UNCHANGED opts
      BY OptsFixed
    <2> QED
      BY <2>1, <2>2, IndexNext
  <1> QED
    BY <1>1, IndexInit, FileInvAlways, RowsAlways, PTL DEF Spec

(* In a file no write of which failed the index is exact: the entries of a *)
(* track's tfra are the sync samples a reader finds before the mfra, in    *)
(* order, each with its decode time, the position of its moof and its      *)
(* number in the run, cut off at what the field holds (record of the sync  *)
(* samples in flush_fragment, build_mfra_box, src/frag.rs).                *)
THEOREM IndexesExact == Spec => [](~opts.io => TfraExact)
  <1>1. FileInv /\ RowsInv /\ IndexInv => (~opts.io => TfraExact)
    <2> SUFFICES ASSUME FileInv, RowsInv, IndexInv, ~opts.io,
                        NEW m \in ToSet(OfKind(file, "mfra")), NEW t \in Track
                 PROVE  LET entries == IndexOf(m, t)
                            syncs == SyncsBefore(m, t)
                        IN  /\ Len(entries) = Len(syncs)
                            /\ \A n \in DOMAIN entries :
                                  /\ entries[n].time = syncs[n].dts
                                  /\ entries[n].moofOffset = Position(file, syncs[n].moof)
                                  /\ entries[n].sample = Min({syncs[n].nth, NumberMax})
      BY DEF TfraExact
    <2> DEFINE entries == IndexOf(m, t)
               syncs == SyncsBefore(m, t)
               rows == OfTrack(Listed(file), t)
    <2>1. m \in 1..Len(file) /\ file[m].kind = "mfra"
      BY OfKindIs DEF FileInv
    <2>2. SamplesOf(file, t) = rows
      BY RowsAreSamples
    <2>3. syncs = KeysBefore(rows, m)
      BY <2>2 DEF SyncsBefore
    <2>4. entries = Listing(file[m], t)
      BY DEF IndexOf, Listing
    <2>5. Indexed(file, entries, syncs)
      BY <2>1, <2>3, <2>4 DEF IndexInv, Indexing
    <2>6. syncs \in Seq(Found)
      <3>1. HasRows(Found, file)
        BY DEF RowsInv
      <3>2. Listed(file) \in Seq(Found)
        BY <3>1, ListedTyped
      <3>3. rows \in Seq(Found)
        BY <3>2, OfTrackTyped
      <3> HIDE DEF rows
      <3> QED
        BY <2>3, <3>3, KeysTyped
    <2> HIDE DEF entries, syncs
    <2>7. \A n \in 1..Len(syncs) : Min({syncs[n].nth, NumberMax}) = Capped(syncs[n].nth)
      <3> SUFFICES ASSUME NEW n \in 1..Len(syncs)
                   PROVE  Min({syncs[n].nth, NumberMax}) = Capped(syncs[n].nth)
        OBVIOUS
      <3> DEFINE x == syncs[n]
      <3>1. x \in Found
        BY <2>6
      <3> HIDE DEF x
      <3>2. x.nth \in Nat
        BY <3>1 DEF Found
      <3>3. syncs[n].nth \in Nat
        BY <3>2 DEF x
      <3> QED
        BY <3>3, CappedIsMin
    <2>8. /\ Len(entries) = Len(syncs)
          /\ \A n \in DOMAIN entries :
                /\ entries[n].time = syncs[n].dts
                /\ entries[n].moofOffset = Position(file, syncs[n].moof)
                /\ entries[n].sample = Min({syncs[n].nth, NumberMax})
      BY <2>5, <2>7 DEF Indexed
    <2> QED
      BY <2>8 DEF entries, syncs
  <1> QED
    BY <1>1, FileInvAlways, RowsAlways, IndexAlways, PTL

(***************************************************************************)
(* The duration the trailer seals.                                         *)
(***************************************************************************)
LEMMA MaxOfValues ==
    ASSUME NEW n \in Nat, NEW f \in [1..n -> Nat], NEW T \in SUBSET (1..n)
    PROVE  LET S == {0} \cup {f[t] : t \in T}
           IN  Max(S) \in S /\ \A x \in S : x <= Max(S)
  <1> DEFINE S == {0} \cup {f[t] : t \in T}
             P == {k \in Nat : k <= n => \E B \in Nat : \A t \in 1..k : f[t] <= B}
  <1>1. 0 \in P
    <2>1. \A t \in 1..0 : f[t] <= 0
      OBVIOUS
    <2> QED
      BY <2>1
  <1>2. ASSUME NEW k \in Nat, k \in P PROVE k + 1 \in P
    <2> SUFFICES ASSUME k + 1 <= n PROVE \E B \in Nat : \A t \in 1..(k + 1) : f[t] <= B
      OBVIOUS
    <2>1. PICK B \in Nat : \A t \in 1..k : f[t] <= B
      BY <1>2
    <2> DEFINE v == f[k + 1]
    <2>2. v \in Nat
      OBVIOUS
    <2> HIDE DEF v
    <2>3. B + v \in Nat /\ B <= B + v /\ v <= B + v
      BY <2>2
    <2>4. \A t \in 1..k : f[t] <= B + v
      <3> SUFFICES ASSUME NEW t \in 1..k PROVE f[t] <= B + v
        OBVIOUS
      <3>1. f[t] \in Nat /\ f[t] <= B
        BY <2>1
      <3> QED
        BY <2>2, <3>1
    <2>5. \A t \in 1..(k + 1) : t \in 1..k \/ t = k + 1
      OBVIOUS
    <2>6. \A t \in 1..(k + 1) : f[t] <= B + v
      BY <2>3, <2>4, <2>5 DEF v
    <2> QED
      BY <2>3, <2>6
  <1>3. n \in P
    <2> HIDE DEF P
    <2>1. Nat \subseteq P
      BY <1>1, <1>2, NumberInduction
    <2> QED
      BY <2>1
  <1>4. PICK B \in Nat : \A t \in 1..n : f[t] <= B
    BY <1>3
  <1>5. S \subseteq Nat /\ 0 \in S /\ \A x \in S : x <= B
    BY <1>4
  <1> HIDE DEF S
  <1> DEFINE U == {u \in Nat : \A x \in S : x <= u}
  <1>6. U \in SUBSET Nat /\ U # {}
    BY <1>5
  <1>7. PICK u \in U : \A w \in U : u <= w
    BY <1>6, LeastNumber
  <1>8. u \in S
    <2> SUFFICES ASSUME u \notin S PROVE FALSE
      OBVIOUS
    <2>1. \A x \in S : x \in Nat /\ x <= u /\ x # u
      BY <1>5
    <2>2. u \in Nat /\ u # 0
      BY <1>5
    <2>3. u - 1 \in Nat /\ \A x \in S : x <= u - 1
      BY <2>1, <2>2
    <2> QED
      BY <1>7, <2>2, <2>3
  <1>9. Max(S) = u
    <2>1. \A x \in S : x <= u
      OBVIOUS
    <2>2. \A x \in S : (\A y \in S : x >= y) => x = u
      BY <1>5, <1>8, <2>1
    <2>3. \A y \in S : u >= y
      BY <1>5, <2>1
    <2> QED
      BY <1>8, <2>2, <2>3 DEF Max
  <1> QED
    BY <1>8, <1>9 DEF S

LEMMA Rounded ==
    ASSUME NEW scale \in Nat, scale > 0, NEW end \in Nat
    PROVE  (end * 1000 + scale - 1) \div scale \in Nat
  <1> DEFINE n == end * 1000 + scale - 1
  <1>1. n \in Nat
    BY Z3
  <1> HIDE DEF n
  <1>2. n \div scale \in Nat
    BY <1>1
  <1> QED
    BY <1>2 DEF n

LEMMA LongestIs ==
    ASSUME opts \in Options, NEW bmdt \in [Track -> Nat]
    PROVE  LET timed == {t \in Track : opts.scale[t] > 0}
           IN  /\ \A t \in timed : MovieTime(bmdt, t) <= Longest(bmdt)
               /\ IF timed = {} THEN Longest(bmdt) = 0
                  ELSE \E t \in timed : MovieTime(bmdt, t) = Longest(bmdt)
  <1> DEFINE timed == {t \in Track : opts.scale[t] > 0}
             f == [t \in 1..NumTracks |-> IF t \in timed THEN MovieTime(bmdt, t) ELSE 0]
             S == {0} \cup {f[t] : t \in timed}
  <1>1. opts.scale \in [Track -> Nat] /\ NumTracks \in Nat /\ Track = 1..NumTracks
    BY OptionsAssumption, NumTracksAssumption DEF Track
  <1>2. \A t \in timed : MovieTime(bmdt, t) \in Nat
    <2> SUFFICES ASSUME NEW t \in timed PROVE MovieTime(bmdt, t) \in Nat
      OBVIOUS
    <2> DEFINE s == opts.scale[t]
               v == bmdt[t]
    <2>1. s \in Nat /\ s > 0 /\ v \in Nat
      BY <1>1
    <2>2. MovieTime(bmdt, t) = (v * 1000 + s - 1) \div s
      BY DEF MovieTime
    <2> HIDE DEF s, v
    <2> QED
      BY <2>1, <2>2, Rounded
  <1>3. f \in [1..NumTracks -> Nat] /\ timed \in SUBSET (1..NumTracks)
    BY <1>1, <1>2
  <1>4. \A t \in timed : f[t] = MovieTime(bmdt, t)
    BY <1>1
  <1> HIDE DEF f
  <1>5. Max(S) \in S /\ \A x \in S : x <= Max(S)
    <2> HIDE DEF timed
    <2> QED
      BY <1>1, <1>3, MaxOfValues
  <1>6. {MovieTime(bmdt, t) : t \in timed} = {f[t] : t \in timed}
    BY <1>4
  <1>7. Longest(bmdt) = Max(S)
    BY <1>6 DEF Longest
  <1> HIDE DEF timed
  <1> DEFINE m == Max(S)
  <1> HIDE DEF m
  <1>8. m \in S /\ (\A x \in S : x <= m) /\ Longest(bmdt) = m
    BY <1>5, <1>7 DEF m
  <1>9. \A t \in timed : MovieTime(bmdt, t) <= m
    BY <1>4, <1>8
  <1>10. timed = {} => m = 0
    BY <1>8
  <1>11. ASSUME timed # {} PROVE \E t \in timed : MovieTime(bmdt, t) = m
    <2>1. CASE m = 0
      <3>1. PICK t \in timed : TRUE
        BY <1>11
      <3>2. MovieTime(bmdt, t) \in Nat /\ MovieTime(bmdt, t) <= 0
        BY <1>2, <1>9, <2>1
      <3> QED
        BY <2>1, <3>2
    <2>2. CASE m # 0
      BY <1>4, <1>8, <2>2
    <2> QED
      BY <2>1, <2>2
  <1> QED
    BY <1>8, <1>9, <1>10, <1>11 DEF timed

(***************************************************************************)
(* What a step appends.  Only the trailer's last step writes an index, and *)
(* only it touches what was written before.                                *)
(***************************************************************************)
Unindexed == {"ftyp", "moov"} \cup SegmentKinds
Appends == UNCHANGED trailerWritten /\ \E g : Only(Unindexed, g) /\ file' = file \o g

LEMMA SegmentAppends ==
    ASSUME FileInv, NEW b, BatchInv(b), NEW extra, Only({"moof"}, extra)
    PROVE  \E g : Only(Unindexed, g) /\ FileAfter(b) \o extra = file \o g
  <1>1. FileAfter(b) \o extra = file \o Chunk(b, extra)
    BY ChunkIs DEF Only
  <1>2. Only(SegmentKinds, Segment(b)) /\ Only(SegmentKinds, extra)
    <2>1. Only(SegmentKinds, Segment(b))
      BY SegmentIs DEF FileInv, QueueInv, BatchInv
    <2>2. {"moof"} \subseteq SegmentKinds
      BY DEF SegmentKinds
    <2> QED
      BY <2>1, <2>2, OnlyWidens
  <1>3. Only(SegmentKinds, Segment(b) \o extra)
    BY <1>2, OnlyConcat
  <1>4. Only(SegmentKinds, Chunk(b, extra))
    BY <1>2, <1>3 DEF Chunk
  <1>5. Only(Unindexed, Chunk(b, extra))
    BY <1>4, OnlyWidens DEF Unindexed
  <1> QED
    BY <1>1, <1>5

LEMMA FlushAppends ==
    ASSUME FileInv, NEW b, BatchInv(b), Flush(b)
    PROVE  \E g : Only(Unindexed, g) /\ file' = file \o g
  <1>1. CASE FlushBreaks(b)
    <2>1. PICK g : Only(SegmentKinds, g) /\ file' = file \o g
      BY <1>1, BrokenIs
    <2>2. Only(Unindexed, g)
      BY <2>1, OnlyWidens DEF Unindexed
    <2> QED
      BY <2>1, <2>2
  <1>2. CASE FlushDone(b)
    <2> DEFINE e == <<>>
    <2>1. Only({"moof"}, e)
      BY OnlyEmpty
    <2>2. IsFile(FileAfter(b))
      BY SegmentedFile DEF FileInv, QueueInv
    <2>3. PICK S : FileAfter(b) \in Seq(S)
      BY <2>2 DEF IsFile
    <2>4. FileAfter(b) \o e = FileAfter(b)
      BY <2>3, ConcatEmptySeq
    <2> HIDE DEF e
    <2>5. file' = FileAfter(b) \o e
      BY <1>2, <2>4 DEF FlushDone
    <2> QED
      BY <2>1, <2>5, SegmentAppends
  <1> QED
    BY <1>1, <1>2 DEF Flush

LEMMA StillAppends ==
    ASSUME IsFile(file), file' = file
    PROVE  \E g : Only(Unindexed, g) /\ file' = file \o g
  <1>1. PICK S : file \in Seq(S)
    BY DEF IsFile
  <1>2. file' = file \o <<>>
    BY <1>1, ConcatEmptySeq
  <1> QED
    BY <1>2, OnlyEmpty

LEMMA SealStep ==
    ASSUME FileInv, ~opts.io, [Next]_vars
    PROVE  \/ WriteHeader
           \/ /\ UNCHANGED headerWritten
              /\ \/ Appends /\ (headerWritten \/ file' = file \/ ~opts.initOk)
                 \/ headerWritten /\ ~trailerWritten /\ TrailerDone
  <1>2. CASE QuietCall
    <2>0. UNCHANGED headerWritten
      BY <1>2, QuietOutcome
    <2>1. CASE HeaderFails
      <3>0. ~opts.initOk
        BY <2>1 DEF HeaderFails
      <3>1. file = <<>> /\ file' = <<Ftyp>> /\ UNCHANGED trailerWritten
        BY <2>1 DEF HeaderFails
      <3>2. <<>> \o <<Ftyp>> = <<Ftyp>>
        OBVIOUS
      <3>3. Only({"ftyp", "moov"}, <<Ftyp>>)
        BY HeaderFile
      <3>4. Only(Unindexed, <<Ftyp>>)
        BY <3>3, OnlyWidens DEF Unindexed
      <3> QED
        BY <2>0, <3>0, <3>1, <3>2, <3>4 DEF Appends
    <2>2. CASE ~HeaderFails
      <3>1. UNCHANGED <<trailerWritten, file>>
        BY <1>2, <2>2 DEF QuietCall, SetStyp, SetPrft, SetPssh, SetEmsg, Ask, vars, output
      <3> QED
        BY <2>0, <3>1, StillAppends DEF Appends, FileInv
    <2> QED
      BY <2>1, <2>2
  <1>3. ASSUME NEW p \in Packets, QueuePacket(p)
        PROVE  Appends /\ headerWritten /\ UNCHANGED headerWritten
    <2>0. headerWritten /\ UNCHANGED headerWritten
      BY <1>3 DEF QueuePacket, Admissible
    <2>1. Admissible(p) /\ UNCHANGED trailerWritten
      BY <1>3 DEF QueuePacket
    <2>2. CASE ~ShouldFlush(PendingWith(p), p)
      <3>1. UNCHANGED file
        BY <1>3, <2>2 DEF QueuePacket, output
      <3> QED
        BY <2>0, <2>1, <3>1, StillAppends DEF Appends, FileInv
    <2>3. CASE ShouldFlush(PendingWith(p), p)
      <3> DEFINE b == CadenceBatch(PendingWith(p), SencWith(p), SeigWith(p))
      <3>1. Flush(b)
        BY <1>3, <2>3 DEF QueuePacket
      <3>2. BatchInv(b)
        BY <2>1, <2>3, PacketBatch DEF FileInv
      <3> HIDE DEF b
      <3> QED
        BY <2>0, <2>1, <3>1, <3>2, FlushAppends DEF Appends
    <2> QED
      BY <2>2, <2>3
  <1>4. BatchInv(Queued)
    BY QueuedInv DEF FileInv
  <1>5. ASSUME FlushFragment PROVE Appends
    <2>1. Flush(Queued) /\ UNCHANGED trailerWritten
      BY <1>5 DEF FlushFragment
    <2> QED
      BY <1>4, <2>1, FlushAppends DEF Appends
  <1>6. ASSUME NEW t \in Track, NEW d \in GapDurations, InsertEmptyTime(t, d)
        PROVE  Appends
    <2>1. UNCHANGED trailerWritten
      BY <1>6 DEF InsertEmptyTime
    <2>2. CASE FlushBreaks(Queued)
      BY <1>4, <2>1, <2>2, FlushAppends DEF Appends, Flush
    <2>3. CASE ~FlushBreaks(Queued)
      <3> DEFINE box == GapMoof(SequenceAfter(Queued) + 1, t, BmdtAfter(Queued)[t], d)
      <3>1. file' = FileAfter(Queued) \o <<box>>
        BY <1>6, <2>3 DEF InsertEmptyTime, FlushThen
      <3>2. Only({"moof"}, <<box>>)
        BY GapIs
      <3> HIDE DEF box
      <3> QED
        BY <1>4, <2>1, <3>1, <3>2, SegmentAppends DEF Appends
    <2> QED
      BY <2>2, <2>3
  <1>7. ASSUME WriteTrailer
        PROVE  Appends \/ (headerWritten /\ ~trailerWritten /\ TrailerDone)
    <2>1. headerWritten /\ ~trailerWritten
      BY <1>7 DEF WriteTrailer
    <2>2. CASE TrailerDone
      BY <2>1, <2>2
    <2>3. CASE ~TrailerDone
      <3>1. FlushBreaks(Queued) /\ UNCHANGED trailerWritten
        BY <1>7, <2>3 DEF WriteTrailer, TrailerCut
      <3> QED
        BY <1>4, <3>1, FlushAppends DEF Appends, Flush
    <2> QED
      BY <2>2, <2>3
  <1>8. CASE FlushingCall
    <2>1. headerWritten /\ UNCHANGED headerWritten
      BY <1>8, FlushingOpen, FlushingOutcome DEF FileInv
    <2> QED
      BY <1>5, <1>6, <1>7, <1>8, <2>1 DEF FlushingCall
  <1> QED
    BY <1>2, <1>3, <1>8, StepIsACall

(***************************************************************************)
(* Without failing writes the header is written once, so its moov is the   *)
(* second box; the one index there is lies where the trailer put it.       *)
(***************************************************************************)
HasMoov(f) ==
    /\ Len(f) >= 2 /\ f[2].kind = "moov" /\ "mehd" \in DOMAIN f[2]
    /\ f[2] = [x \in DOMAIN f[2] |-> f[2][x]]
SealedBy(scale, f, mehd) ==
    LET timed == {t \in Track : scale[t] > 0}
        movie(t) == (TrackEnd(f, t) * 1000 + scale[t] - 1) \div scale[t]
    IN  /\ \A t \in timed : movie(t) <= mehd
        /\ IF timed = {} THEN mehd = 0 ELSE \E t \in timed : movie(t) = mehd
SealedAt(scale, f, m) == SealedBy(scale, SubSeq(f, 1, m), ValueOf(f[2].mehd, 0))
SealInv ==
    ~opts.io =>
        /\ ~headerWritten => ~trailerWritten /\ (opts.initOk => file = <<>>)
        /\ headerWritten => HasMoov(file)
        /\ ~trailerWritten => \A m \in 1..Len(file) : file[m].kind # "mfra"
        /\ trailerWritten /\ opts.mehd =>
             \A m \in 1..Len(file) : file[m].kind = "mfra" => SealedAt(opts.scale, file, m)

LEMMA SealAppends ==
    ASSUME FileInv, SealInv, ~opts.io, UNCHANGED <<opts, headerWritten, trailerWritten>>,
           NEW g, Only(Unindexed, g), file' = file \o g, headerWritten
    PROVE  SealInv'
  <1> DEFINE L == Len(file)
             N == Len(file')
             G == Len(g)
             h == file'
  <1>1. /\ IsFile(file) /\ IsFile(g) /\ L \in Nat /\ G \in Nat
        /\ \A k \in 1..G : g[k].kind # "mfra"
    <2>1. IsFile(file) /\ IsFile(g)
      BY DEF FileInv, Only
    <2>2. L \in Nat /\ G \in Nat
      BY <2>1 DEF IsFile
    <2>3. \A k \in 1..G : g[k].kind # "mfra"
      BY DEF Only, Unindexed, SegmentKinds, PreludeKinds
    <2> QED
      BY <2>1, <2>2, <2>3
  <1>2. /\ N = L + G /\ \A k \in 1..L : h[k] = file[k]
        /\ \A k \in 1..G : h[L + k] = g[k]
    BY <1>1, FileConcat
  <1>3. PICK S : file \in Seq(S)
    BY <1>1 DEF IsFile
  <1>4. PICK R : g \in Seq(R)
    BY <1>1 DEF IsFile
  <1>5. ASSUME NEW m \in 1..L PROVE SubSeq(h, 1, m) = SubSeq(file, 1, m)
    <2> DEFINE Z == S \cup R
    <2>1. file \in Seq(Z) /\ g \in Seq(Z) /\ m \in 0..Len(file)
      BY <1>3, <1>4
    <2> HIDE DEF Z
    <2>2. SubSeq(file \o g, 1, m) = SubSeq(file, 1, m)
      BY <2>1, PrefixOfConcat
    <2> QED
      BY <2>2
  <1>6. L >= 2 /\ h[2] = file[2] /\ HasMoov(h)
    <2>1. HasMoov(file) /\ L >= 2
      BY DEF SealInv, HasMoov
    <2>2. 2 \in 1..L
      BY <1>1, <2>1
    <2>3. h[2] = file[2]
      BY <1>2, <2>2
    <2> QED
      BY <1>1, <1>2, <2>1, <2>3 DEF HasMoov
  <1>7. ASSUME NEW m \in 1..N, h[m].kind = "mfra" PROVE m \in 1..L /\ h[m] = file[m]
    <2>1. CASE m \in 1..L
      BY <1>2, <2>1
    <2>2. CASE m \notin 1..L
      <3> DEFINE k == m - L
      <3> HIDE DEF L, N, G, h
      <3>1. k \in 1..G /\ m = L + k
        BY <1>1, <1>2, <2>2
      <3> HIDE DEF k
      <3> QED
        BY <1>1, <1>2, <1>7, <3>1
    <2> QED
      BY <2>1, <2>2
  <1>8. ~trailerWritten => \A m \in 1..N : h[m].kind # "mfra"
    BY <1>7 DEF SealInv
  <1>9. ASSUME trailerWritten, opts.mehd, NEW m \in 1..N, h[m].kind = "mfra"
        PROVE  SealedAt(opts.scale, h, m)
    <2>1. m \in 1..L /\ file[m].kind = "mfra"
      BY <1>7, <1>9
    <2>2. SealedAt(opts.scale, file, m)
      BY <1>9, <2>1 DEF SealInv
    <2> QED
      BY <1>5, <1>6, <2>1, <2>2 DEF SealedAt
  <1>10. /\ headerWritten' /\ HasMoov(file')
         /\ ~trailerWritten' => \A m \in 1..Len(file') : file'[m].kind # "mfra"
    BY <1>6, <1>8
  <1>11. ASSUME trailerWritten', opts'.mehd, NEW m \in 1..Len(file'), file'[m].kind = "mfra"
         PROVE  SealedAt(opts'.scale, file', m)
    BY <1>9, <1>11
  <1> QED
    BY <1>10, <1>11 DEF SealInv

LEMMA SealOpens ==
    ASSUME SealInv, ~opts.io, UNCHANGED opts, WriteHeader
    PROVE  SealInv'
  <1> DEFINE g == <<Ftyp, Moov(Present(opts.mehd, 0))>>
             box == Moov(Present(opts.mehd, 0))
  <1>1. file = <<>> /\ ~trailerWritten
    BY DEF SealInv, WriteHeader
  <1>2. file' = <<>> \o g /\ headerWritten' /\ ~trailerWritten'
    BY <1>1 DEF WriteHeader
  <1>3. <<>> \o g = g
    OBVIOUS
  <1>4. Len(g) = 2 /\ g[1] = Ftyp /\ g[2] = box /\ \A m \in 1..Len(g) : m = 1 \/ m = 2
    BY HeaderFile
  <1>5. box.kind = "moov" /\ "mehd" \in DOMAIN box /\ box = [x \in DOMAIN box |-> box[x]]
    BY DEF Moov
  <1>6. Ftyp.kind # "mfra"
    BY DEF Ftyp
  <1> HIDE DEF g, box
  <1>7. HasMoov(g) /\ \A m \in 1..Len(g) : g[m].kind # "mfra"
    BY <1>4, <1>5, <1>6 DEF HasMoov
  <1>8. file' = g
    BY <1>2, <1>3
  <1> QED
    BY <1>2, <1>7, <1>8 DEF SealInv

LEMMA SealCloses ==
    ASSUME FileInv, SealInv, ~opts.io, UNCHANGED <<opts, headerWritten>>, headerWritten,
           ~trailerWritten, TrailerDone, IsFile(file'),
           \A t \in Track : nextBmdt'[t] = TrackEnd(file', t)
    PROVE  SealInv'
  <1> DEFINE b == Queued
             extra == Index(TfraAfter(b))
             g == Chunk(b, extra)
             f == file \o g
             bmdt == BmdtAfter(b)
             L == Len(file)
             G == Len(g)
  <1>1. trailerWritten' /\ nextBmdt' = bmdt /\ file' = Seal(FileAfter(b) \o extra, bmdt)
    BY DEF TrailerDone
  <1>2. BatchInv(b)
    BY QueuedInv DEF FileInv
  <1>3. Ends(b, extra, bmdt)
    BY DEF Ends
  <1> HIDE DEF b
  <1>4. IsFile(extra) /\ bmdt \in [Track -> Nat]
    BY <1>2, <1>3, EndsTyped DEF Only
  <1>5. FileAfter(b) \o extra = f /\ IsFile(g) /\ IsFile(file)
    BY <1>2, <1>4, ChunkIs DEF FileInv
  <1>6. \A k \in 1..G : g[k].kind = "mfra" => k = G
    BY <1>2, <1>3, ChunkMfra
  <1> HIDE DEF g, bmdt
  <1>7. /\ IsFile(f) /\ Len(f) = L + G /\ L \in Nat /\ G \in Nat
        /\ \A k \in 1..L : f[k] = file[k]
        /\ \A k \in 1..G : f[L + k] = g[k]
    <2>1. L \in Nat /\ G \in Nat
      BY <1>5 DEF IsFile
    <2> QED
      BY <1>5, <2>1, FileConcat
  <1>8. HasMoov(f)
    <2>1. HasMoov(file) /\ L >= 2
      BY DEF SealInv, HasMoov
    <2>2. 2 \in 1..L /\ L + G >= 2
      BY <1>7, <2>1
    <2>3. f[2] = file[2] /\ Len(f) >= 2
      BY <1>7, <2>2
    <2> HIDE DEF f
    <2> QED
      BY <2>1, <2>3 DEF HasMoov
  <1>9. \A m \in 1..Len(f) : f[m].kind = "mfra" => m = Len(f)
    <2> SUFFICES ASSUME NEW m \in 1..Len(f), f[m].kind = "mfra" PROVE m = Len(f)
      OBVIOUS
    <2> HIDE DEF f, L, G
    <2>1. m \notin 1..L
      BY <1>7 DEF SealInv, L
    <2> DEFINE k == m - L
    <2>2. k \in 1..G /\ m = L + k
      BY <1>7, <2>1
    <2> HIDE DEF k
    <2> QED
      BY <1>6, <1>7, <2>2
  <1> DEFINE h == file'
             mehd == Longest(bmdt)
             box == [f[2] EXCEPT !.mehd = {mehd}]
  <1>10. h = Seal(f, bmdt)
    BY <1>1, <1>5 DEF bmdt
  <1> HIDE DEF f, mehd
  <1>11. HasMoov(h) /\ Len(h) = Len(f) /\ \A m \in 1..Len(h) : h[m].kind = f[m].kind
    <2>1. CASE ~opts.mehd
      BY <1>8, <1>10, <2>1 DEF Seal
    <2>2. CASE opts.mehd
      <3>1. h = [f EXCEPT ![2] = box]
        BY <1>8, <1>10, <2>2 DEF Seal, HasMoov, mehd
      <3>2. PICK S : f \in Seq(S)
        BY <1>7 DEF IsFile
      <3>3. 2 \in 1..Len(f) /\ DOMAIN f = 1..Len(f) /\ Len(f) >= 2
        BY <1>8, <3>2 DEF HasMoov
      <3>4. /\ box.kind = "moov" /\ "mehd" \in DOMAIN box /\ f[2].kind = "moov"
            /\ box = [x \in DOMAIN box |-> box[x]]
        <4> DEFINE r == f[2]
        <4>1. r.kind = "moov" /\ "mehd" \in DOMAIN r /\ r = [x \in DOMAIN r |-> r[x]]
          BY <1>8 DEF HasMoov
        <4>2. box = [r EXCEPT !.mehd = {mehd}]
          OBVIOUS
        <4> HIDE DEF r, box
        <4>3. /\ DOMAIN box = DOMAIN r /\ box.kind = r.kind
              /\ box = [x \in DOMAIN box |-> box[x]]
          BY <4>1, <4>2
        <4> QED
          BY <4>1, <4>3 DEF r
      <3> HIDE DEF box, h
      <3>5. Len(h) = Len(f) /\ h[2] = box /\ \A m \in 1..Len(f) : m # 2 => h[m] = f[m]
        BY <3>1, <3>2, <3>3
      <3> QED
        BY <3>3, <3>4, <3>5 DEF HasMoov
    <2> QED
      BY <2>1, <2>2
  <1>12. ASSUME opts.mehd PROVE h[2].mehd = {mehd}
    <2>1. h = [f EXCEPT ![2] = box]
      BY <1>8, <1>10, <1>12 DEF Seal, HasMoov, mehd
    <2>2. PICK S : f \in Seq(S)
      BY <1>7 DEF IsFile
    <2>3. 2 \in DOMAIN f
      BY <1>8, <2>2 DEF HasMoov
    <2>4. box.mehd = {mehd}
      BY <1>8 DEF HasMoov
    <2> HIDE DEF box, h
    <2>5. h[2] = box
      BY <2>1, <2>3
    <2> QED
      BY <2>4, <2>5
  <1>13. ASSUME opts.mehd, NEW m \in 1..Len(h), h[m].kind = "mfra"
         PROVE  SealedAt(opts.scale, h, m)
    <2>1. m = Len(h)
      BY <1>9, <1>11, <1>13
    <2>2. SubSeq(h, 1, m) = h
      <3>1. PICK S : h \in Seq(S)
        BY DEF IsFile
      <3> HIDE DEF h
      <3>2. SubSeq(h, 1, Len(h)) = h
        BY <3>1
      <3> QED
        BY <2>1, <3>2
    <2>3. ValueOf(h[2].mehd, 0) = mehd
      BY <1>12, <1>13 DEF ValueOf
    <2> DEFINE timed == {t \in Track : opts.scale[t] > 0}
    <2>4. /\ \A t \in timed : MovieTime(bmdt, t) <= mehd
          /\ IF timed = {} THEN mehd = 0 ELSE \E t \in timed : MovieTime(bmdt, t) = mehd
      BY <1>4, LongestIs DEF mehd, FileInv, QueueInv, QueueTypes
    <2>5. \A t \in timed :
             MovieTime(bmdt, t) = (TrackEnd(h, t) * 1000 + opts.scale[t] - 1) \div opts.scale[t]
      BY <1>1 DEF MovieTime, bmdt
    <2> HIDE DEF h, mehd
    <2>6. SealedBy(opts.scale, h, mehd)
      BY <2>4, <2>5 DEF SealedBy
    <2> QED
      BY <2>2, <2>3, <2>6 DEF SealedAt
  <1> QED
    BY <1>1, <1>11, <1>13 DEF SealInv

LEMMA SealNext ==
    ASSUME FileInv, FileInv', SealInv, [Next]_vars,
           ~opts.io => \A t \in Track : nextBmdt'[t] = TrackEnd(file', t)
    PROVE  SealInv'
  <1>1. UNCHANGED opts
    BY OptsFixed
  <1> SUFFICES ASSUME ~opts.io PROVE SealInv'
    BY <1>1 DEF SealInv
  <1>2. CASE WriteHeader
    BY <1>1, <1>2, SealOpens
  <1>3. CASE UNCHANGED headerWritten /\ headerWritten /\ Appends
    <2>1. PICK g : Only(Unindexed, g) /\ file' = file \o g
      BY <1>3 DEF Appends
    <2> QED
      BY <1>1, <1>3, <2>1, SealAppends DEF Appends
  <1>4. CASE /\ UNCHANGED headerWritten /\ ~headerWritten /\ Appends
             /\ file' = file \/ ~opts.initOk
    <2>1. file' \in {<<>>, <<Ftyp>>}
      BY <1>4 DEF FileInv, HeaderInv
    <2>2. \A m \in 1..Len(file') : file'[m].kind # "mfra"
      <3>1. \A m \in 1..Len(<<Ftyp>>) : <<Ftyp>>[m].kind # "mfra"
        BY DEF Ftyp
      <3>2. \A m \in 1..Len(<<>>) : <<>>[m].kind # "mfra"
        OBVIOUS
      <3> QED
        BY <2>1, <3>1, <3>2
    <2>3. ~trailerWritten' /\ ~headerWritten' /\ (opts'.initOk => file' = <<>>)
      BY <1>1, <1>4 DEF Appends, SealInv
    <2> QED
      BY <2>2, <2>3 DEF SealInv
  <1>5. CASE UNCHANGED headerWritten /\ headerWritten /\ ~trailerWritten /\ TrailerDone
    BY <1>1, <1>5, SealCloses DEF FileInv
  <1> QED
    BY <1>2, <1>3, <1>4, <1>5, SealStep

LEMMA SealInit == Init => SealInv
  BY DEF Init, SealInv

LEMMA SealAlways == Spec => []SealInv
  <1>1. /\ FileInv /\ FileInv' /\ SealInv /\ [Next]_vars /\ (~opts.io => Contiguous)'
        => SealInv'
    <2> SUFFICES ASSUME FileInv, FileInv', SealInv, [Next]_vars, (~opts.io => Contiguous)'
                 PROVE  SealInv'
      OBVIOUS
    <2>1. UNCHANGED opts
      BY OptsFixed
    <2>2. ~opts.io => \A t \in Track : nextBmdt'[t] = TrackEnd(file', t)
      BY <2>1 DEF Contiguous
    <2> QED
      BY <2>2, SealNext
  <1> QED
    BY <1>1, SealInit, FileInvAlways, TimelinesContiguous, PTL DEF Spec

(* In a file no write of which failed, once the trailer is written, the    *)
(* mehd holds the duration of the longest track as the file up to the      *)
(* index tells it, rounded up to movie ticks; what a later call appends    *)
(* does not change that (write_trailer, src/frag.rs).                      *)
THEOREM DurationSealed == Spec => [](~opts.io => Sealed)
  <1>1. FileInv /\ SealInv => (~opts.io => Sealed)
    <2> SUFFICES ASSUME FileInv, SealInv, ~opts.io, trailerWritten, opts.mehd,
                        NEW m \in ToSet(OfKind(file, "mfra"))
                 PROVE  SealedWith(SubSeq(file, 1, m), ValueOf(file[2].mehd, 0))
      BY DEF Sealed
    <2>1. m \in 1..Len(file) /\ file[m].kind = "mfra"
      BY OfKindIs DEF FileInv
    <2>2. SealedBy(opts.scale, SubSeq(file, 1, m), ValueOf(file[2].mehd, 0))
      BY <2>1 DEF SealInv, SealedAt
    <2> QED
      BY <2>2 DEF SealedBy, SealedWith
  <1> QED
    BY <1>1, FileInvAlways, SealAlways, PTL

(***************************************************************************)
(* The requests of a fragment and the fragments they annotate.  A box      *)
(* carries the requests it was made from; an emsg or prft is loose until a *)
(* moof follows it, which then is the fragment it annotates.               *)
(***************************************************************************)
Carried(box) ==
    CASE box.kind = "moof" -> RequestIds(box.pssh)
      [] box.kind \in {"emsg", "prft"} -> {box.id}
      [] OTHER -> {}
CarriedBy(f) == UNION {Carried(f[k]) : k \in 1..Len(f)}
Marks(f, i, m) ==
    /\ m \in 1..Len(f) /\ f[m].kind = "moof"
    /\ \E k \in 1..m : /\ i \in Carried(f[k])
                       /\ \A j \in k..(m - 1) : f[j].kind # "moof"
Loose(f, i) ==
    \E k \in 1..Len(f) : /\ i \in Carried(f[k])
                         /\ \A j \in k..Len(f) : f[j].kind # "moof"

(* Box by box, the fragments and what they are annotated with come in the  *)
(* order of the requests, of which 1..n were made and W still wait.        *)
Orderly(f, W, n) ==
    /\ \A m, q, i, j : Marks(f, i, m) /\ Marks(f, j, q) /\ m < q => i < j
    /\ \A m, i : Marks(f, i, m) => i \in 1..n /\ f[m].trafs[1].trun # {}
    /\ \A m, i : Marks(f, i, m) => \A j \in W : i < j
    /\ \A i : Loose(f, i) => i \in 1..n
    /\ \A m, i, j : Loose(f, i) /\ Marks(f, j, m) => j < i
    /\ W \subseteq 1..n

Grown(f, g, h) ==
    /\ Len(f) \in Nat /\ Len(g) \in Nat /\ Len(h) = Len(f) + Len(g)
    /\ \A k \in 1..Len(f) : h[k] = f[k]
    /\ \A k \in 1..Len(g) : h[Len(f) + k] = g[k]

LEMMA ConcatGrown ==
    ASSUME NEW f, NEW g, IsFile(f), IsFile(g)
    PROVE  Grown(f, g, f \o g) /\ IsFile(f \o g)
  <1>1. Len(f) \in Nat /\ Len(g) \in Nat
    BY DEF IsFile
  <1> QED
    BY <1>1, FileConcat DEF Grown

LEMMA GrownAt ==
    ASSUME NEW f, NEW g, NEW h, Grown(f, g, h), NEW k \in 1..Len(h)
    PROVE  \/ k \in 1..Len(f) /\ h[k] = f[k]
           \/ \E j \in 1..Len(g) : k = Len(f) + j /\ h[k] = g[j]
  <1>1. CASE k \in 1..Len(f)
    BY <1>1 DEF Grown
  <1>2. CASE k \notin 1..Len(f)
    <2> DEFINE j == k - Len(f)
    <2>1. j \in 1..Len(g) /\ k = Len(f) + j
      BY <1>2 DEF Grown
    <2> HIDE DEF j
    <2> QED
      BY <2>1 DEF Grown
  <1> QED
    BY <1>1, <1>2

(* Boxes that are no moof leave the fragments as they were annotated. *)
LEMMA QuietMarks ==
    ASSUME NEW f, NEW g, NEW h, Grown(f, g, h), \A k \in 1..Len(g) : g[k].kind # "moof"
    PROVE  /\ \A i, m : Marks(h, i, m) => Marks(f, i, m) /\ h[m] = f[m]
           /\ \A i : Loose(h, i) => Loose(f, i) \/ i \in CarriedBy(g)
  <1>0. Len(f) \in Nat /\ Len(g) \in Nat /\ Len(h) = Len(f) + Len(g)
    BY DEF Grown
  <1>1. ASSUME NEW i, NEW m, Marks(h, i, m) PROVE Marks(f, i, m) /\ h[m] = f[m]
    <2>1. m \in 1..Len(h) /\ h[m].kind = "moof"
      BY <1>1 DEF Marks
    <2>2. m \in 1..Len(f) /\ h[m] = f[m]
      <3>1. \A j \in 1..Len(g) : h[m] # g[j]
        BY <2>1
      <3> QED
        BY <2>1, <3>1, GrownAt
    <2>3. PICK k \in 1..m : i \in Carried(h[k]) /\ \A j \in k..(m - 1) : h[j].kind # "moof"
      BY <1>1 DEF Marks
    <2>4. \A j \in k..m : j \in 1..Len(f) /\ h[j] = f[j]
      BY <1>0, <2>2 DEF Grown
    <2>5. k \in k..m /\ \A j \in k..(m - 1) : j \in k..m
      BY <1>0, <2>2
    <2>6. i \in Carried(f[k]) /\ \A j \in k..(m - 1) : f[j].kind # "moof"
      BY <2>3, <2>4, <2>5
    <2> QED
      BY <2>1, <2>2, <2>6 DEF Marks
  <1>2. ASSUME NEW i, Loose(h, i) PROVE Loose(f, i) \/ i \in CarriedBy(g)
    <2>1. PICK k \in 1..Len(h) : i \in Carried(h[k]) /\ \A j \in k..Len(h) : h[j].kind # "moof"
      BY <1>2 DEF Loose
    <2>2. CASE k \in 1..Len(f) /\ h[k] = f[k]
      <3>1. \A j \in k..Len(f) : j \in k..Len(h) /\ h[j] = f[j]
        BY <1>0, <2>2 DEF Grown
      <3>2. i \in Carried(f[k]) /\ \A j \in k..Len(f) : f[j].kind # "moof"
        BY <2>1, <2>2, <3>1
      <3> QED
        BY <2>2, <3>2 DEF Loose
    <2>3. CASE \E j \in 1..Len(g) : k = Len(f) + j /\ h[k] = g[j]
      BY <2>1, <2>3 DEF CarriedBy
    <2> QED
      BY <2>2, <2>3, GrownAt
  <1> QED
    BY <1>1, <1>2

(* A moof is annotated with what it carries and with what was loose. *)
LEMMA MoofMarks ==
    ASSUME NEW f, NEW g, NEW h, Grown(f, g, h), Len(g) = 1, g[1].kind = "moof"
    PROVE  /\ \A i, m : Marks(h, i, m) =>
                 \/ Marks(f, i, m) /\ h[m] = f[m]
                 \/ m = Len(f) + 1 /\ h[m] = g[1] /\ (i \in Carried(g[1]) \/ Loose(f, i))
           /\ \A i : ~Loose(h, i)
           /\ \A i, m : Marks(f, i, m) => m <= Len(f)
  <1>0. Len(f) \in Nat /\ Len(h) = Len(f) + 1 /\ h[Len(f) + 1] = g[1]
    BY DEF Grown
  <1>1. ASSUME NEW i, NEW m, Marks(h, i, m)
        PROVE  \/ Marks(f, i, m) /\ h[m] = f[m]
               \/ m = Len(f) + 1 /\ h[m] = g[1] /\ (i \in Carried(g[1]) \/ Loose(f, i))
    <2>1. m \in 1..Len(h) /\ h[m].kind = "moof"
      BY <1>1 DEF Marks
    <2>3. PICK k \in 1..m : i \in Carried(h[k]) /\ \A j \in k..(m - 1) : h[j].kind # "moof"
      BY <1>1 DEF Marks
    <2>4. CASE m \in 1..Len(f)
      <3>1. \A j \in k..m : j \in 1..Len(f) /\ h[j] = f[j]
        BY <1>0, <2>4 DEF Grown
      <3>2. k \in k..m /\ m \in k..m /\ \A j \in k..(m - 1) : j \in k..m
        BY <1>0, <2>4
      <3>3. i \in Carried(f[k]) /\ \A j \in k..(m - 1) : f[j].kind # "moof"
        BY <2>3, <3>1, <3>2
      <3> QED
        BY <2>1, <2>4, <3>1, <3>2, <3>3 DEF Marks
    <2>5. CASE m = Len(f) + 1 /\ k = m
      BY <1>0, <2>3, <2>5
    <2>6. CASE m = Len(f) + 1 /\ k # m
      <3>1. k \in 1..Len(f)
        BY <1>0, <2>6
      <3>2. \A j \in k..Len(f) : j \in k..(m - 1) /\ h[j] = f[j]
        BY <1>0, <2>6, <3>1 DEF Grown
      <3>3. k \in k..Len(f)
        BY <1>0, <3>1
      <3>4. i \in Carried(f[k]) /\ \A j \in k..Len(f) : f[j].kind # "moof"
        BY <2>3, <3>2, <3>3
      <3>5. Loose(f, i)
        BY <3>1, <3>4 DEF Loose
      <3> QED
        BY <1>0, <2>6, <3>5
    <2> QED
      BY <1>0, <2>1, <2>4, <2>5, <2>6
  <1>2. ASSUME NEW i, Loose(h, i) PROVE FALSE
    <2>1. PICK k \in 1..Len(h) : \A j \in k..Len(h) : h[j].kind # "moof"
      BY <1>2 DEF Loose
    <2>2. Len(h) \in k..Len(h)
      BY <1>0
    <2> QED
      BY <1>0, <2>1, <2>2
  <1>3. \A i, m : Marks(f, i, m) => m <= Len(f)
    BY <1>0 DEF Marks
  <1> QED
    BY <1>1, <1>2, <1>3

(* Requests that are taken from those that wait may go in a box. *)
LEMMA QuietOrderly ==
    ASSUME NEW f, NEW g, NEW h, Grown(f, g, h), \A k \in 1..Len(g) : g[k].kind # "moof",
           NEW n \in Nat, NEW W, Orderly(f, W, n), CarriedBy(g) \subseteq W
    PROVE  Orderly(h, W, n)
  <1>1. /\ \A i, m : Marks(h, i, m) => Marks(f, i, m) /\ h[m] = f[m]
        /\ \A i : Loose(h, i) => Loose(f, i) \/ i \in W
    BY QuietMarks
  <1> QED
    BY <1>1, ZenonT(60), SMTT(30) DEF Orderly

(* A fragment that has samples takes what waits. *)
LEMMA MoofOrderly ==
    ASSUME NEW f, NEW g, NEW h, Grown(f, g, h), Len(g) = 1, g[1].kind = "moof",
           g[1].trafs[1].trun # {},
           NEW n \in Nat, NEW W, Orderly(f, W, n), Carried(g[1]) \subseteq W
    PROVE  Orderly(h, {}, n) /\ \A i : ~Loose(h, i)
  <1>1. /\ \A i, m : Marks(h, i, m) =>
              \/ Marks(f, i, m) /\ h[m] = f[m]
              \/ m = Len(f) + 1 /\ h[m] = g[1] /\ (i \in W \/ Loose(f, i))
        /\ \A i : ~Loose(h, i)
        /\ \A i, m : Marks(f, i, m) => m <= Len(f)
    BY MoofMarks
  <1>2. \A m, q, i, j : Marks(h, i, m) /\ Marks(h, j, q) /\ m < q => i < j
    <2> SUFFICES ASSUME NEW m, NEW q, NEW i, NEW j, Marks(h, i, m), Marks(h, j, q), m < q
                 PROVE  i < j
      OBVIOUS
    <2>1. Len(f) \in Nat
      BY DEF Grown
    <2>2. Marks(f, i, m)
      <3>1. q \in Nat /\ q <= Len(f) + 1
        BY <2>1 DEF Marks, Grown
      <3>2. m # Len(f) + 1
        BY <2>1, <3>1
      <3> QED
        BY <1>1, <3>2
    <2> QED
      BY <1>1, <2>2 DEF Orderly
  <1>3. \A m, i : Marks(h, i, m) => i \in 1..n /\ h[m].trafs[1].trun # {}
    BY <1>1 DEF Orderly
  <1> QED
    BY <1>1, <1>2, <1>3 DEF Orderly

(* A gap fragment takes nothing, where nothing is loose. *)
LEMMA GapOrderly ==
    ASSUME NEW f, NEW g, NEW h, Grown(f, g, h), Len(g) = 1, g[1].kind = "moof",
           Carried(g[1]) = {}, \A i : ~Loose(f, i),
           NEW n \in Nat, NEW W, Orderly(f, W, n)
    PROVE  Orderly(h, W, n) /\ \A i : ~Loose(h, i)
  <1>1. /\ \A i, m : Marks(h, i, m) => Marks(f, i, m) /\ h[m] = f[m]
        /\ \A i : ~Loose(h, i)
    BY MoofMarks
  <1> QED
    BY <1>1 DEF Orderly

LEMMA AlikeOrderly ==
    ASSUME NEW f, NEW h, IsFile(f), Alike(f, h), NEW n, NEW W, Orderly(f, W, n)
    PROVE  Orderly(h, W, n) /\ ((\A i : ~Loose(f, i)) => \A i : ~Loose(h, i))
  <1>0. Len(h) = Len(f) /\ Len(f) \in Nat
    BY DEF Alike, IsFile
  <1>1. ASSUME NEW k \in 1..Len(f)
        PROVE  /\ Carried(h[k]) = Carried(f[k]) /\ h[k].kind = f[k].kind
               /\ f[k].kind = "moof" => h[k] = f[k]
    <2>1. CASE f[k].kind # "moov"
      BY <2>1 DEF Alike
    <2>2. CASE f[k].kind = "moov"
      BY <2>2 DEF Alike, Carried
    <2> QED
      BY <2>1, <2>2
  <1>2. ASSUME NEW i, NEW m, Marks(h, i, m) PROVE Marks(f, i, m) /\ h[m] = f[m]
    <2>1. m \in 1..Len(f) /\ f[m].kind = "moof" /\ h[m] = f[m]
      BY <1>0, <1>1, <1>2 DEF Marks
    <2>2. PICK k \in 1..m : i \in Carried(h[k]) /\ \A j \in k..(m - 1) : h[j].kind # "moof"
      BY <1>2 DEF Marks
    <2>3. k \in 1..Len(f) /\ \A j \in k..(m - 1) : j \in 1..Len(f)
      BY <1>0, <2>1
    <2>4. i \in Carried(f[k]) /\ \A j \in k..(m - 1) : f[j].kind # "moof"
      BY <1>1, <2>2, <2>3
    <2> QED
      BY <2>1, <2>4 DEF Marks
  <1>3. ASSUME NEW i, Loose(h, i) PROVE Loose(f, i)
    <2>1. PICK k \in 1..Len(f) : i \in Carried(h[k]) /\ \A j \in k..Len(f) : h[j].kind # "moof"
      BY <1>0, <1>3 DEF Loose
    <2>2. \A j \in k..Len(f) : j \in 1..Len(f)
      BY <1>0
    <2>3. i \in Carried(f[k]) /\ \A j \in k..Len(f) : f[j].kind # "moof"
      BY <1>1, <2>1, <2>2
    <2> QED
      BY <2>3 DEF Loose
  <1>4. Orderly(h, W, n)
    BY <1>2, <1>3 DEF Orderly
  <1> QED
    BY <1>3, <1>4

(***************************************************************************)
(* The boxes of a segment carry what waits.                                *)
(***************************************************************************)
AllWaiting == Waiting \cup {x.id : x \in pendingPrft}

LEMMA CarriesNothing ==
    ASSUME NEW K, NEW g, Only(K, g), "moof" \notin K, "emsg" \notin K, "prft" \notin K
    PROVE  CarriedBy(g) = {} /\ \A k \in 1..Len(g) : g[k].kind # "moof"
  <1>1. ASSUME NEW k \in 1..Len(g) PROVE Carried(g[k]) = {} /\ g[k].kind # "moof"
    <2>1. g[k].kind \in K
      BY DEF Only
    <2>2. g[k].kind # "moof" /\ g[k].kind # "emsg" /\ g[k].kind # "prft"
      BY <2>1
    <2> QED
      BY <2>2 DEF Carried
  <1> QED
    BY <1>1 DEF CarriedBy

LEMMA CarriedConcat ==
    ASSUME NEW f, NEW g, IsFile(f), IsFile(g)
    PROVE  CarriedBy(f \o g) \subseteq CarriedBy(f) \cup CarriedBy(g)
  <1> DEFINE h == f \o g
  <1>1. Grown(f, g, h)
    BY ConcatGrown
  <1> HIDE DEF h
  <1>2. ASSUME NEW i \in CarriedBy(h) PROVE i \in CarriedBy(f) \cup CarriedBy(g)
    <2>1. PICK k \in 1..Len(h) : i \in Carried(h[k])
      BY DEF CarriedBy
    <2>2. CASE k \in 1..Len(f) /\ h[k] = f[k]
      BY <2>1, <2>2 DEF CarriedBy
    <2>3. CASE \E j \in 1..Len(g) : k = Len(f) + j /\ h[k] = g[j]
      BY <2>1, <2>3 DEF CarriedBy
    <2> QED
      BY <1>1, <2>2, <2>3, GrownAt
  <1> QED
    BY <1>2 DEF h

LEMMA EmsgCarries ==
    RequestsInv => CarriedBy(Emsg) \subseteq RequestIds(pendingEmsg)
  <1> SUFFICES ASSUME RequestsInv, NEW i \in CarriedBy(Emsg)
               PROVE  i \in RequestIds(pendingEmsg)
    OBVIOUS
  <1>1. PICK k \in 1..Len(Emsg) : i \in Carried(Emsg[k])
    BY DEF CarriedBy
  <1>2. Len(Emsg) = Len(pendingEmsg) /\ DOMAIN pendingEmsg = 1..Len(pendingEmsg)
    BY EmsgIs DEF RequestsInv, IsFile
  <1>3. Emsg[k].kind = "emsg" /\ Emsg[k].id = pendingEmsg[k].id
    BY <1>2 DEF Emsg
  <1>4. i = pendingEmsg[k].id
    BY <1>1, <1>3 DEF Carried
  <1> QED
    BY <1>2, <1>4 DEF RequestIds

LEMMA PrftCarries == CarriedBy(Prft) \subseteq {x.id : x \in pendingPrft}
  <1>1. CASE pendingPrft = {}
    BY <1>1 DEF Prft, CarriedBy
  <1>2. CASE pendingPrft # {}
    <2> DEFINE r == ValueOf(pendingPrft, {})
               box == [kind |-> "prft", size |-> r.size, id |-> r.id]
    <2>1. r \in pendingPrft
      BY <1>2, SomeValue
    <2>2. Prft = <<box>>
      BY <1>2 DEF Prft
    <2>3. Carried(box) = {r.id}
      BY DEF Carried
    <2> HIDE DEF box, r
    <2>4. CarriedBy(<<box>>) \subseteq Carried(box)
      BY DEF CarriedBy
    <2> QED
      BY <2>1, <2>2, <2>3, <2>4
  <1> QED
    BY <1>1, <1>2

LEMMA PreludeCarries ==
    ASSUME QueueTypes, RequestsInv, NEW b
    PROVE  CarriedBy(Prelude(b)) \subseteq AllWaiting
  <1> DEFINE x == Indexes(b)
             e == Emsg \o Prft
  <1>1. /\ Only({"sidx", "ssix"}, x) /\ Only({"styp"}, Styp)
        /\ Only({"emsg"}, Emsg) /\ Only({"prft"}, Prft)
    BY IndexesIs, StypIs, EmsgIs, PrftIs
  <1>2. IsFile(x) /\ IsFile(Styp) /\ IsFile(Emsg) /\ IsFile(Prft)
    BY <1>1 DEF Only
  <1>3. CarriedBy(e) \subseteq AllWaiting /\ IsFile(e)
    BY <1>2, CarriedConcat, ConcatGrown, EmsgCarries, PrftCarries DEF AllWaiting, Waiting
  <1>4. CarriedBy(x) = {} /\ CarriedBy(Styp) = {}
    BY <1>1, CarriesNothing
  <1>5. Prelude(b) = x \o (Styp \o e)
    <2> DEFINE s == Styp
               m == Emsg
               p == Prft
    <2>1. PICK S1 : x \in Seq(S1)
      BY <1>2 DEF IsFile
    <2>2. PICK S2 : s \in Seq(S2)
      BY <1>2 DEF IsFile
    <2>3. PICK S3 : m \in Seq(S3)
      BY <1>2 DEF IsFile
    <2>4. PICK S4 : p \in Seq(S4)
      BY <1>2 DEF IsFile
    <2>5. Prelude(b) = ((x \o s) \o m) \o p
      BY DEF Prelude
    <2> HIDE DEF x, s, m, p
    <2> DEFINE S == S1 \cup S2 \cup S3 \cup S4
    <2>6. x \in Seq(S) /\ s \in Seq(S) /\ m \in Seq(S) /\ p \in Seq(S)
      BY <2>1, <2>2, <2>3, <2>4
    <2> HIDE DEF S
    <2>7. /\ x \o s \in Seq(S) /\ m \o p \in Seq(S)
      BY <2>6
    <2>8. ((x \o s) \o m) \o p = (x \o s) \o (m \o p)
      BY <2>6, <2>7, ConcatAssociative, SMTT(30), ZenonT(60)
    <2>9. (x \o s) \o (m \o p) = x \o (s \o (m \o p))
      <3> DEFINE y == m \o p
      <3>1. y \in Seq(S)
        BY <2>7
      <3> HIDE DEF y
      <3>2. (x \o s) \o y = x \o (s \o y)
        BY <2>6, <3>1, ConcatAssociative, SMTT(30), ZenonT(60)
      <3> QED
        BY <3>2 DEF y
    <2> QED
      BY <2>5, <2>8, <2>9 DEF s, m, p
  <1> HIDE DEF x, e
  <1>6. CarriedBy(Styp \o e) \subseteq AllWaiting /\ IsFile(Styp \o e)
    BY <1>2, <1>3, <1>4, CarriedConcat, ConcatGrown
  <1> QED
    BY <1>2, <1>4, <1>5, <1>6, CarriedConcat

LEMMA PreludePart ==
    ASSUME QueueTypes, RequestsInv, NEW b, NEW n \in 0..Len(Prelude(b))
    PROVE  LET g == SubSeq(Prelude(b), 1, n)
           IN  /\ IsFile(g) /\ CarriedBy(g) \subseteq AllWaiting
               /\ \A k \in 1..Len(g) : g[k].kind # "moof"
  <1> DEFINE p == Prelude(b)
             g == SubSeq(p, 1, n)
  <1>1. Only(PreludeKinds, p) /\ CarriedBy(p) \subseteq AllWaiting
    BY PreludeIs, PreludeCarries
  <1> HIDE DEF p
  <1>2. Only(PreludeKinds, g)
    BY <1>1, OnlyPart DEF p
  <1>3. IsFile(g) /\ \A k \in 1..Len(g) : g[k].kind # "moof"
    BY <1>2 DEF Only, PreludeKinds
  <1>4. PICK S : p \in Seq(S)
    BY <1>1 DEF Only, IsFile
  <1>5. n \in 0..Len(p)
    BY DEF p
  <1>6. Len(g) = n /\ \A k \in 1..n : g[k] = p[k] /\ k \in 1..Len(p)
    BY <1>4, <1>5, PrefixIs
  <1>7. CarriedBy(g) \subseteq CarriedBy(p)
    BY <1>6 DEF CarriedBy
  <1> QED
    BY <1>1, <1>3, <1>7 DEF p

LEMMA MoofCarries ==
    ASSUME NEW b, ~Idle(b)
    PROVE  /\ BuildMoof(b).kind = "moof" /\ BuildMoof(b).trafs[1].trun # {}
           /\ Carried(BuildMoof(b)) \subseteq AllWaiting
  <1> DEFINE moof == BuildMoof(b)
             traf == TrafAfter(b, moof.size + 8, moof.trafs, 1)
  <1>1. /\ IsTrafs(b, moof.size + 8, moof.trafs, Len(Contributing(b)))
        /\ moof.kind = "moof" /\ moof.pssh = pendingMoofPssh
    BY MoofIs
  <1>2. Len(Contributing(b)) >= 1 /\ Len(Contributing(b)) \in Nat
    BY IdleIs, ContributingIs
  <1>3. 1 \in 1..Len(Contributing(b))
    BY <1>2
  <1>4. moof.trafs[1] = traf
    <2> HIDE DEF moof
    <2> QED
      BY <1>1, <1>3 DEF IsTrafs
  <1>5. traf.trun # {}
    BY DEF TrafAfter, BuildTraf
  <1>6. Carried(moof) \subseteq AllWaiting
    <2> HIDE DEF moof
    <2>1. Carried(moof) = RequestIds(pendingMoofPssh)
      BY <1>1 DEF Carried
    <2> QED
      BY <2>1 DEF AllWaiting, Waiting
  <1> QED
    BY <1>1, <1>4, <1>5, <1>6

(* The file after the metadata and the moof of a segment: what waited, and *)
(* what was loose, annotates the moof.                                     *)
LEMMA MoofWritten ==
    ASSUME QueueTypes, RequestsInv, IsFile(file), asked \in Nat,
           Orderly(file, AllWaiting, asked), NEW b, ~Idle(b),
           BatchTyped(b.pending, b.senc, b.seig)
    PROVE  LET h == (file \o Prelude(b)) \o <<BuildMoof(b)>>
           IN  /\ IsFile(h) /\ Orderly(h, {}, asked) /\ \A i : ~Loose(h, i)
  <1> DEFINE p == Prelude(b)
             q == file \o p
             box == BuildMoof(b)
             g == <<box>>
             h == q \o g
  <1>1. Only(PreludeKinds, p) /\ CarriedBy(p) \subseteq AllWaiting
    BY PreludeIs, PreludeCarries
  <1>2. IsFile(p) /\ \A k \in 1..Len(p) : p[k].kind # "moof"
    BY <1>1 DEF Only, PreludeKinds
  <1>3. /\ box.kind = "moof" /\ box.trafs[1].trun # {}
        /\ Carried(box) \subseteq AllWaiting /\ box.size \in Nat \ {0}
    BY MoofCarries, BoxesSized
  <1> HIDE DEF p, box
  <1>4. Grown(file, p, q) /\ IsFile(q)
    BY <1>2, ConcatGrown
  <1>5. Orderly(q, AllWaiting, asked)
    BY <1>1, <1>2, <1>4, QuietOrderly
  <1>6. IsFile(g) /\ Len(g) = 1 /\ g[1] = box
    BY <1>3, OnlyOne DEF Only
  <1> HIDE DEF q, g
  <1>7. Grown(q, g, h) /\ IsFile(h)
    BY <1>4, <1>6, ConcatGrown
  <1> HIDE DEF h
  <1>8. Orderly(h, {}, asked) /\ \A i : ~Loose(h, i)
    BY <1>3, <1>5, <1>6, <1>7, MoofOrderly
  <1> QED
    BY <1>7, <1>8 DEF h, q, g, p, box

LEMMA QuietAfter ==
    ASSUME NEW f, IsFile(f), NEW g, IsFile(g), CarriedBy(g) = {},
           \A k \in 1..Len(g) : g[k].kind # "moof",
           NEW n \in Nat, NEW W, Orderly(f, W, n)
    PROVE  /\ IsFile(f \o g) /\ Orderly(f \o g, W, n)
           /\ (\A i : ~Loose(f, i)) => \A i : ~Loose(f \o g, i)
  <1> DEFINE h == f \o g
  <1>1. Grown(f, g, h) /\ IsFile(h)
    BY ConcatGrown
  <1> HIDE DEF h
  <1>2. Orderly(h, W, n) /\ \A i : Loose(h, i) => Loose(f, i)
    BY <1>1, QuietOrderly, QuietMarks
  <1> QED
    BY <1>1, <1>2 DEF h

(* What a completed call writes after its segment.                         *)
LEMMA ExtraAfter ==
    ASSUME FileInv, NEW b, BatchInv(b), NEW extra, NEW bmdt, Ends(b, extra, bmdt),
           NEW f, IsFile(f), NEW n \in Nat, NEW W, Orderly(f, W, n), \A i : ~Loose(f, i)
    PROVE  IsFile(f \o extra) /\ Orderly(f \o extra, W, n) /\ \A i : ~Loose(f \o extra, i)
  <1>1. CASE Only({"mfra"}, extra)
    <2>1. CarriedBy(extra) = {} /\ \A k \in 1..Len(extra) : extra[k].kind # "moof"
      BY <1>1, CarriesNothing
    <2>2. IsFile(extra)
      BY <1>1 DEF Only
    <2> QED
      BY <2>1, <2>2, QuietAfter
  <1>2. CASE \E t, d, seq :
                extra = <<GapMoof(seq, t, BmdtAfter(b)[t], d)>>
    <2>1. PICK t, d, seq :
                 extra = <<GapMoof(seq, t, BmdtAfter(b)[t], d)>>
      BY <1>2
    <2> DEFINE start == BmdtAfter(b)[t]
               box == GapMoof(seq, t, start, d)
               h == f \o extra
    <2> HIDE DEF start
    <2>2. Only({"moof"}, <<box>>) /\ box.kind = "moof" /\ box.pssh = <<>>
      <3>1. Only({"moof"}, <<box>>)
        BY GapIs
      <3>2. box.kind = "moof" /\ box.pssh = <<>>
        BY DEF GapMoof, MoofBox
      <3> QED
        BY <3>1, <3>2
    <2> HIDE DEF box
    <2>3. Carried(box) = {}
      BY <2>2 DEF Carried, RequestIds
    <2>4. IsFile(extra) /\ Len(extra) = 1 /\ extra[1] = box
      BY <2>1, <2>2 DEF Only, box, start
    <2>5. Grown(f, extra, h) /\ IsFile(h)
      BY <2>4, ConcatGrown
    <2> HIDE DEF h
    <2>6. Orderly(h, W, n) /\ \A i : ~Loose(h, i)
      BY <2>2, <2>3, <2>4, <2>5, GapOrderly
    <2> QED
      BY <2>5, <2>6 DEF h
  <1>3. CASE extra = <<>>
    BY <1>1, <1>3, OnlyEmpty
  <1>4. CASE extra = Index(TfraAfter(b))
    BY <1>1, <1>4, TfraTyped, IndexIs
  <1> QED
    BY <1>2, <1>3, <1>4 DEF Ends

LEMMA MdatWritten ==
    ASSUME NEW f, IsFile(f), NEW n \in Nat, NEW W, Orderly(f, W, n), \A i : ~Loose(f, i),
           NEW b, RequestsInv, BatchTyped(b.pending, b.senc, b.seig)
    PROVE  /\ IsFile(f \o <<BuildMdat(b)>>) /\ Orderly(f \o <<BuildMdat(b)>>, W, n)
           /\ \A i : ~Loose(f \o <<BuildMdat(b)>>, i)
  <1> DEFINE box == BuildMdat(b)
             g == <<box>>
  <1>1. box.size \in Nat \ {0} /\ box.kind = "mdat"
    BY BoxesSized
  <1> HIDE DEF box
  <1>2. Only({"mdat"}, g)
    BY <1>1, OnlyOne
  <1>3. CarriedBy(g) = {} /\ \A k \in 1..Len(g) : g[k].kind # "moof"
    BY <1>2, CarriesNothing
  <1>4. IsFile(g)
    BY <1>2 DEF Only
  <1> HIDE DEF g
  <1> QED
    BY <1>3, <1>4, QuietAfter DEF g, box

FiveLists(S, a, b, c, d, e) ==
    a \in Seq(S) /\ b \in Seq(S) /\ c \in Seq(S) /\ d \in Seq(S) /\ e \in Seq(S)

LEMMA FiveConcat ==
    ASSUME NEW S, NEW a, NEW b, NEW c, NEW d, NEW e, FiveLists(S, a, b, c, d, e)
    PROVE  a \o ((b \o (c \o d)) \o e) = (((a \o b) \o c) \o d) \o e
  <1> DEFINE cd == c \o d
             bcd == b \o cd
             ab == a \o b
             abc == ab \o c
  <1> USE DEF FiveLists
  <1>1. cd \in Seq(S) /\ ab \in Seq(S)
    OBVIOUS
  <1>2. bcd \in Seq(S) /\ abc \in Seq(S)
    BY <1>1
  <1>3. abc \o d = ab \o cd
    BY <1>1, ConcatAssociative, SMTT(30), ZenonT(60)
  <1> HIDE DEF cd
  <1>4. ab \o cd = a \o bcd
    BY <1>1, ConcatAssociative, SMTT(30), ZenonT(60)
  <1> HIDE DEF bcd
  <1>5. (a \o bcd) \o e = a \o (bcd \o e)
    BY <1>2, ConcatAssociative, SMTT(30), ZenonT(60)
  <1> QED
    BY <1>3, <1>4, <1>5 DEF cd, bcd

(***************************************************************************)
(* Every call keeps the order.  A loose emsg or prft is the trace of a     *)
(* flush that broke off, so there are samples queued for its fragment.     *)
(***************************************************************************)
OrderInv ==
    /\ Orderly(file, AllWaiting, asked)
    /\ pending = Empty => \A i : ~Loose(file, i)

LEMMA FewerWait ==
    ASSUME NEW f, NEW n, NEW W, NEW V, Orderly(f, W, n), V \subseteq W
    PROVE  Orderly(f, V, n)
  BY DEF Orderly

LEMMA OneMoreWaits ==
    ASSUME NEW f, NEW n \in Nat, NEW W, NEW V, Orderly(f, W, n), V \subseteq W \cup {n + 1}
    PROVE  Orderly(f, V, n + 1)
  <1>1. 1..n \subseteq 1..(n + 1) /\ n + 1 \in 1..(n + 1) /\ \A i \in 1..n : i < n + 1
    OBVIOUS
  <1>2. \A m, i : Marks(f, i, m) => i \in 1..(n + 1) /\ f[m].trafs[1].trun # {}
    BY <1>1 DEF Orderly
  <1>3. \A m, i : Marks(f, i, m) => \A j \in V : i < j
    BY <1>1 DEF Orderly
  <1>4. V \subseteq 1..(n + 1)
    BY <1>1 DEF Orderly
  <1> QED
    BY <1>1, <1>2, <1>3, <1>4 DEF Orderly

LEMMA StillWaiting ==
    ASSUME UNCHANGED <<pendingPrft, pendingMoofPssh, pendingEmsg>>
    PROVE  AllWaiting' = AllWaiting
  BY DEF AllWaiting, Waiting

LEMMA NoneWaiting ==
    ASSUME pendingPrft' = {}, pendingMoofPssh' = <<>>, pendingEmsg' = <<>>
    PROVE  AllWaiting' = {}
  <1>1. RequestIds(<<>>) = {}
    BY DEF RequestIds
  <1> QED
    BY <1>1 DEF AllWaiting, Waiting

LEMMA FewerWaiting ==
    ASSUME Takes
    PROVE  AllWaiting' \subseteq AllWaiting
  <1>1. RequestIds(<<>>) = {}
    BY DEF RequestIds
  <1> QED
    BY <1>1 DEF Takes, AllWaiting, Waiting

LEMMA CompletesOrder ==
    ASSUME FileInv, OrderInv, headerWritten, UNCHANGED asked, NEW b, BatchInv(b),
           Idle(b) => pending = Empty, NEW extra, Completes(b, extra), TakeRequests(b)
    PROVE  OrderInv'
  <1> DEFINE h == file \o Chunk(b, extra)
             W == AllWaiting'
  <1>1. /\ IsFile(file) /\ QueueTypes /\ RequestsInv /\ asked \in Nat
        /\ BatchTyped(b.pending, b.senc, b.seig)
    BY DEF FileInv, QueueInv, BatchInv
  <1>2. Ends(b, extra, nextBmdt') /\ Orderly(file, AllWaiting, asked)
    BY DEF Completes, OrderInv
  <1>3. IsFile(h) /\ Orderly(h, W, asked) /\ \A i : ~Loose(h, i)
    <2>1. CASE Idle(b)
      <3>1. Chunk(b, extra) = extra /\ W = AllWaiting
        BY <2>1, StillWaiting DEF Chunk, TakeRequests, requests
      <3>2. \A i : ~Loose(file, i)
        BY <2>1 DEF OrderInv
      <3>3. /\ IsFile(file \o extra) /\ Orderly(file \o extra, AllWaiting, asked)
            /\ \A i : ~Loose(file \o extra, i)
        BY <1>1, <1>2, <3>2, ExtraAfter
      <3> QED
        BY <3>1, <3>3
    <2>2. CASE ~Idle(b)
      <3> DEFINE p == Prelude(b)
                 moof == <<BuildMoof(b)>>
                 mdat == <<BuildMdat(b)>>
                 f == (file \o p) \o moof
                 g == f \o mdat
      <3>1. W = {}
        BY <2>2, NoneWaiting DEF TakeRequests
      <3>2. IsFile(f) /\ Orderly(f, {}, asked) /\ \A i : ~Loose(f, i)
        BY <1>1, <1>2, <2>2, MoofWritten
      <3>3. IsFile(g) /\ Orderly(g, {}, asked) /\ \A i : ~Loose(g, i)
        <4> HIDE DEF f
        <4> QED
          BY <1>1, <3>2, MdatWritten
      <3>4. h = g \o extra
        <4>1. IsFile(p) /\ IsFile(moof) /\ IsFile(mdat) /\ IsFile(extra)
          <5>1. IsFile(p)
            BY <1>1, PreludeIs DEF Only
          <5>2. BuildMoof(b).size \in Nat \ {0} /\ BuildMdat(b).size \in Nat \ {0}
            BY <1>1, BoxesSized
          <5>3. Only({BuildMoof(b).kind}, moof) /\ Only({BuildMdat(b).kind}, mdat)
            BY <5>2, OnlyOne
          <5>4. IsFile(extra)
            BY <1>2, EndsTyped DEF Only
          <5> QED
            BY <5>1, <5>3, <5>4 DEF Only
        <4>2. Chunk(b, extra) = (p \o Pair(b)) \o extra
          BY <1>1, <2>2, SegmentIs DEF Chunk
        <4>3. Pair(b) = moof \o mdat
          BY PairIs DEF Pair
        <4>4. h = file \o ((p \o (moof \o mdat)) \o extra)
          BY <4>2, <4>3
        <4>5. PICK S1 : file \in Seq(S1)
          BY <1>1 DEF IsFile
        <4>6. PICK S2 : p \in Seq(S2)
          BY <4>1 DEF IsFile
        <4>7. PICK S3 : moof \in Seq(S3)
          BY <4>1 DEF IsFile
        <4>8. PICK S4 : mdat \in Seq(S4)
          BY <4>1 DEF IsFile
        <4>9. PICK S5 : extra \in Seq(S5)
          BY <4>1 DEF IsFile
        <4> HIDE DEF p, moof, mdat, h
        <4> DEFINE S == S1 \cup S2 \cup S3 \cup S4 \cup S5
        <4>10. FiveLists(S, file, p, moof, mdat, extra)
          BY <4>5, <4>6, <4>7, <4>8, <4>9 DEF FiveLists
        <4> HIDE DEF S
        <4> QED
          <5>1. file \o ((p \o (moof \o mdat)) \o extra)
                  = (((file \o p) \o moof) \o mdat) \o extra
            BY <4>10, FiveConcat
          <5> QED
            BY <4>4, <5>1
      <3> HIDE DEF g, h
      <3>5. /\ IsFile(g \o extra) /\ Orderly(g \o extra, {}, asked)
            /\ \A i : ~Loose(g \o extra, i)
        BY <1>1, <1>2, <3>3, ExtraAfter
      <3> QED
        BY <3>1, <3>4, <3>5
    <2> QED
      BY <2>1, <2>2
  <1>4. Alike(h, file')
    BY CompletedFile
  <1> HIDE DEF h, W
  <1>5. Orderly(file', W, asked) /\ \A i : ~Loose(file', i)
    BY <1>3, <1>4, AlikeOrderly
  <1> QED
    BY <1>5 DEF OrderInv, W

LEMMA BreaksOrder ==
    ASSUME FileInv, OrderInv, UNCHANGED asked, NEW b, BatchInv(b), FlushBreaks(b)
    PROVE  OrderInv'
  <1>1. /\ IsFile(file) /\ QueueTypes /\ RequestsInv /\ asked \in Nat
        /\ BatchTyped(b.pending, b.senc, b.seig) /\ Orderly(file, AllWaiting, asked)
    BY DEF FileInv, QueueInv, BatchInv, OrderInv
  <1>2. ~Idle(b) /\ pending' = b.pending
    BY DEF FlushBreaks, FlushRejected, FlushCut, FlushFails
  <1>3. pending' # Empty
    BY <1>2 DEF Idle, Empty
  <1>4. AllWaiting' \subseteq AllWaiting
    BY BreaksTakes, FewerWaiting
  <1>5. Orderly(file', AllWaiting', asked)
    <2>1. CASE file' = file
      BY <1>1, <1>4, <2>1, FewerWait
    <2>2. ASSUME NEW n \in 0..9, FlushCut(b, n) PROVE Orderly(file', AllWaiting', asked)
      <3> DEFINE s == Segment(b)
                 p == Prelude(b)
      <3>1. n < Len(s) /\ file' = file \o SubSeq(s, 1, n)
        BY <2>2 DEF FlushCut
      <3>2. /\ Len(s) = Len(p) + 2 /\ IsFile(s) /\ IsFile(p)
            /\ \A k \in 1..(Len(s) - 1) :
                  SubSeq(s, 1, k) = IF k <= Len(p) THEN SubSeq(p, 1, k)
                                    ELSE p \o <<BuildMoof(b)>>
        BY <1>1, SegmentIs, PreludeIs DEF Only
      <3>3. Len(p) \in Nat /\ Len(s) \in Nat
        BY <3>2 DEF IsFile
      <3>4. CASE n <= Len(p)
        <4> DEFINE g == SubSeq(p, 1, n)
                   h == file \o g
        <4>1. n \in 0..Len(p)
          BY <3>3, <3>4
        <4>2. IsFile(g) /\ CarriedBy(g) \subseteq AllWaiting /\ \A k \in 1..Len(g) : g[k].kind # "moof"
          BY <1>1, <4>1, PreludePart
        <4>3. SubSeq(s, 1, n) = g
          <5>1. CASE n = 0
            <6>1. PICK S : p \in Seq(S)
              BY <3>2 DEF IsFile
            <6>2. PICK R : s \in Seq(R)
              BY <3>2 DEF IsFile
            <6> HIDE DEF p, s
            <6> QED
              BY <3>3, <5>1, <6>1, <6>2, PrefixIs
          <5>2. CASE n # 0
            <6>1. n \in 1..(Len(s) - 1)
              BY <3>1, <3>3, <5>2
            <6> QED
              BY <3>2, <3>4, <6>1
          <5> QED
            BY <5>1, <5>2
        <4> HIDE DEF g
        <4>4. Grown(file, g, h)
          BY <1>1, <4>2, ConcatGrown
        <4> HIDE DEF h
        <4>5. Orderly(h, AllWaiting, asked)
          BY <1>1, <4>2, <4>4, QuietOrderly
        <4> QED
          BY <1>4, <3>1, <4>3, <4>5, FewerWait DEF h
      <3>5. CASE n > Len(p)
        <4> DEFINE moof == <<BuildMoof(b)>>
        <4>1. n = Len(p) + 1 /\ n \in 1..(Len(s) - 1)
          BY <3>1, <3>2, <3>3, <3>5
        <4>2. file' = file \o (p \o moof)
          <5>1. ~(n <= Len(p))
            BY <3>3, <4>1
          <5>2. SubSeq(s, 1, n) = p \o moof
            BY <3>2, <4>1, <5>1
          <5> QED
            BY <3>1, <5>2
        <4>3. file \o (p \o moof) = (file \o p) \o moof
          <5>1. IsFile(moof)
            <6>1. BuildMoof(b).size \in Nat \ {0}
              BY <1>1, BoxesSized
            <6>2. Only({BuildMoof(b).kind}, moof)
              BY <6>1, OnlyOne
            <6> QED
              BY <6>2 DEF Only
          <5>2. PICK S1 : file \in Seq(S1)
            BY <1>1 DEF IsFile
          <5>3. PICK S2 : p \in Seq(S2)
            BY <3>2 DEF IsFile
          <5>4. PICK S3 : moof \in Seq(S3)
            BY <5>1 DEF IsFile
          <5> HIDE DEF p, moof
          <5> DEFINE S == S1 \cup S2 \cup S3
          <5>5. file \in Seq(S) /\ p \in Seq(S) /\ moof \in Seq(S)
            BY <5>2, <5>3, <5>4
          <5> HIDE DEF S
          <5> QED
            BY <5>5, ConcatAssociative
        <4>4. Orderly((file \o p) \o moof, {}, asked)
          BY <1>1, <1>2, MoofWritten
        <4>5. AllWaiting' = {}
          <5> DEFINE q == Indexes(b) \o Styp \o Emsg
          <5>1. IsFile(q) /\ IsFile(Prft) /\ p = q \o Prft
            <6>1. IsFile(Indexes(b)) /\ IsFile(Styp) /\ IsFile(Emsg) /\ IsFile(Prft)
              BY <1>1, IndexesIs, StypIs, EmsgIs, PrftIs DEF Only
            <6>2. IsFile(Indexes(b) \o Styp)
              BY <6>1, FileConcat
            <6> QED
              BY <6>1, <6>2, FileConcat DEF Prelude
          <5> HIDE DEF q
          <5>2. Len(p) = Len(q) + Len(Prft) /\ Len(q) \in Nat /\ Len(Prft) \in Nat
            BY <5>1, FileConcat DEF IsFile
          <5>3. n >= Len(q)
            BY <3>5, <5>2
          <5>4. pendingPrft' = {}
            BY <2>2, <5>3 DEF FlushCut, q
          <5>5. pendingMoofPssh' = <<>> /\ pendingEmsg' = <<>>
            BY <2>2 DEF FlushCut, FlushFails
          <5> QED
            BY <5>4, <5>5, NoneWaiting
        <4> QED
          BY <4>2, <4>3, <4>4, <4>5
      <3> QED
        BY <3>3, <3>4, <3>5
    <2> QED
      BY <2>1, <2>2 DEF FlushBreaks, FlushRejected
  <1> QED
    BY <1>3, <1>5 DEF OrderInv

LEMMA FlushOrder ==
    ASSUME FileInv, OrderInv, headerWritten, UNCHANGED asked, NEW b, BatchInv(b),
           Idle(b) => pending = Empty,
           FlushBreaks(b) \/ \E extra : Completes(b, extra),
           FlushBreaks(b) \/ TakeRequests(b)
    PROVE  OrderInv'
  <1>1. CASE FlushBreaks(b)
    BY <1>1, BreaksOrder
  <1>2. CASE ~FlushBreaks(b)
    BY <1>2, CompletesOrder
  <1> QED
    BY <1>1, <1>2

LEMMA AsksOrder ==
    ASSUME FileInv, OrderInv, Ask, AllWaiting' \subseteq AllWaiting \cup {asked + 1}
    PROVE  OrderInv'
  <1>1. UNCHANGED <<file, pending>> /\ asked' = asked + 1 /\ asked \in Nat
    BY DEF Ask, output, queues, FileInv
  <1>2. Orderly(file, AllWaiting', asked + 1)
    BY <1>1, OneMoreWaits DEF OrderInv
  <1> QED
    BY <1>1, <1>2 DEF OrderInv

LEMMA AppendIds ==
    ASSUME NEW q, IsFile(q), NEW x
    PROVE  RequestIds(Append(q, x)) \subseteq RequestIds(q) \cup {x.id}
  <1>1. PICK S : q \in Seq(S)
    BY DEF IsFile
  <1> DEFINE r == Append(q, x)
  <1>2. DOMAIN r = 1..(Len(q) + 1) /\ Len(q) \in Nat /\ DOMAIN q = 1..Len(q)
    BY <1>1
  <1>3. r[Len(q) + 1] = x /\ \A k \in 1..Len(q) : r[k] = q[k]
    BY <1>1
  <1> HIDE DEF r
  <1>4. ASSUME NEW k \in DOMAIN r PROVE r[k].id \in RequestIds(q) \cup {x.id}
    BY <1>2, <1>3 DEF RequestIds
  <1>5. RequestIds(r) \subseteq RequestIds(q) \cup {x.id}
    BY <1>4 DEF RequestIds
  <1> QED
    BY <1>5 DEF r

LEMMA QuietOrder ==
    ASSUME FileInv, OrderInv, QuietCall \/ WriteHeader
    PROVE  OrderInv'
  <1>1. CASE UNCHANGED vars
    BY <1>1 DEF vars, output, queues, requests, OrderInv, AllWaiting, Waiting
  <1>2. CASE WriteHeader \/ HeaderFails
    <2>1. PICK g : Only({"ftyp", "moov"}, g) /\ file' = file \o g
      <3>1. CASE WriteHeader
        BY <3>1, HeaderFile DEF WriteHeader
      <3>2. CASE HeaderFails
        <4>1. <<>> \o <<Ftyp>> = <<Ftyp>>
          OBVIOUS
        <4>2. file' = file \o <<Ftyp>>
          BY <3>2, <4>1 DEF HeaderFails
        <4> QED
          BY <4>2, HeaderFile
      <3> QED
        BY <1>2, <3>1, <3>2
    <2>2. UNCHANGED <<pending, asked, pendingPrft, pendingMoofPssh, pendingEmsg>>
      BY <1>2 DEF WriteHeader, HeaderFails, queues, requests
    <2>3. AllWaiting' = AllWaiting
      BY <2>2, StillWaiting
    <2>4. CarriedBy(g) = {} /\ (\A k \in 1..Len(g) : g[k].kind # "moof") /\ IsFile(g)
      BY <2>1, CarriesNothing DEF Only
    <2>5. /\ Orderly(file \o g, AllWaiting, asked)
          /\ (\A i : ~Loose(file, i)) => \A i : ~Loose(file \o g, i)
      BY <2>4, QuietAfter DEF FileInv, OrderInv
    <2> QED
      BY <2>1, <2>2, <2>3, <2>5 DEF OrderInv
  <1>3. ASSUME NEW size, SetStyp(size) PROVE OrderInv'
    BY <1>3, StillWaiting, AsksOrder DEF SetStyp
  <1>4. ASSUME NEW size, SetPrft(size) PROVE OrderInv'
    <2>1. Ask /\ UNCHANGED <<pendingMoofPssh, pendingEmsg>>
      BY <1>4 DEF SetPrft
    <2>2. {x.id : x \in pendingPrft'} = {asked + 1}
      BY <1>4 DEF SetPrft
    <2>3. AllWaiting' \subseteq AllWaiting \cup {asked + 1}
      BY <2>1, <2>2 DEF AllWaiting, Waiting
    <2> QED
      BY <2>1, <2>3, AsksOrder
  <1>5. ASSUME NEW x, SetPssh(x) PROVE OrderInv'
    <2>1. Ask /\ UNCHANGED <<pendingPrft, pendingEmsg>>
      BY <1>5 DEF SetPssh
    <2>2. RequestIds(pendingMoofPssh') \subseteq RequestIds(pendingMoofPssh) \cup {asked + 1}
      BY <1>5, AppendIds DEF SetPssh, FileInv, RequestsInv
    <2>3. AllWaiting' \subseteq AllWaiting \cup {asked + 1}
      BY <2>1, <2>2 DEF AllWaiting, Waiting
    <2> QED
      BY <2>1, <2>3, AsksOrder
  <1>6. ASSUME NEW x, SetEmsg(x) PROVE OrderInv'
    <2>1. Ask /\ UNCHANGED <<pendingPrft, pendingMoofPssh>>
      BY <1>6 DEF SetEmsg
    <2>2. RequestIds(pendingEmsg') \subseteq RequestIds(pendingEmsg) \cup {asked + 1}
      BY <1>6, AppendIds DEF SetEmsg, FileInv, RequestsInv
    <2>3. AllWaiting' \subseteq AllWaiting \cup {asked + 1}
      BY <2>1, <2>2 DEF AllWaiting, Waiting
    <2> QED
      BY <2>1, <2>3, AsksOrder
  <1> QED
    BY <1>1, <1>2, <1>3, <1>4, <1>5, <1>6 DEF QuietCall

LEMMA PacketOrder ==
    ASSUME FileInv, OrderInv, NEW p \in Packets, QueuePacket(p)
    PROVE  OrderInv'
  <1>1. IsFile(file) /\ QueueInv /\ QueueTypes /\ RequestsInv /\ HeaderInv
    BY DEF FileInv, QueueInv
  <1>2. Admissible(p) /\ headerWritten /\ UNCHANGED asked
    BY DEF QueuePacket, Admissible
  <1>3. PendingWith(p) # Empty /\ p.track \in Track
    <2>1. p.track \in Track /\ pending[p.track] \in Seq(Sample) /\ SampleOf(p) \in Sample
      BY <1>1, PacketFields, SampleTyped DEF QueueTypes
    <2>2. PendingWith(p)[p.track] = Append(pending[p.track], SampleOf(p))
      BY <1>1, <2>1 DEF PendingWith, QueueTypes
    <2>3. PendingWith(p)[p.track] # <<>>
      BY <2>1, <2>2, FrontOfAppend
    <2> QED
      BY <2>1, <2>3 DEF Empty
  <1>4. CASE ~ShouldFlush(PendingWith(p), p)
    <2>1. /\ pending' = PendingWith(p)
          /\ UNCHANGED <<file, pendingPrft, pendingMoofPssh, pendingEmsg>>
      BY <1>4 DEF QueuePacket, requests, output
    <2>2. AllWaiting' = AllWaiting
      BY <2>1, StillWaiting
    <2> QED
      BY <1>2, <1>3, <2>1, <2>2 DEF OrderInv
  <1>5. CASE ShouldFlush(PendingWith(p), p)
    <2> DEFINE b == CadenceBatch(PendingWith(p), SencWith(p), SeigWith(p))
    <2>1. Flush(b)
      BY <1>5 DEF QueuePacket
    <2>2. BatchInv(b)
      BY <1>1, <1>2, <1>5, PacketBatch
    <2>3. b.pending = PendingWith(p) \/ b.pending = pending
      <3>1. b = WholeBatch(PendingWith(p), SencWith(p), SeigWith(p)) \/ b = HeldBatch(p)
        BY <1>1, <1>2, <1>5, CadenceBatchIs
      <3> HIDE DEF b
      <3> QED
        BY <3>1 DEF WholeBatch, HeldBatch
    <2> HIDE DEF b
    <2>4. Idle(b) => pending = Empty
      BY <1>3, <2>2, <2>3, IdleIsEmpty
    <2>5. FlushBreaks(b) \/ \E extra : Completes(b, extra)
      BY <1>1, <2>1, <2>2, SegmentedFile, FlushIsStep
    <2>6. FlushBreaks(b) \/ TakeRequests(b)
      BY <2>1 DEF Flush, FlushDone
    <2> QED
      BY <1>2, <2>2, <2>4, <2>5, <2>6, FlushOrder
  <1> QED
    BY <1>4, <1>5

LEMMA CallOrder ==
    ASSUME FileInv, OrderInv, FlushingCall
    PROVE  OrderInv'
  <1>1. IsFile(file) /\ QueueInv /\ RequestsInv /\ HeaderInv
    BY DEF FileInv
  <1>2. BatchInv(Queued) /\ headerWritten
    BY <1>1, QueuedInv, FlushingOpen
  <1>3. FlushBreaks(Queued) \/ \E extra : Completes(Queued, extra)
    BY <1>1, FlushingStep
  <1>4. FlushBreaks(Queued) \/ TakeRequests(Queued)
    <2>1. \A extra, seq, bmdt : FlushThen(extra, seq, bmdt) => TakeRequests(Queued)
      BY DEF FlushThen
    <2>2. FlushFragment => FlushBreaks(Queued) \/ TakeRequests(Queued)
      BY DEF FlushFragment, Flush, FlushDone
    <2>3. \A t \in Track, d \in GapDurations :
              InsertEmptyTime(t, d) => FlushBreaks(Queued) \/ TakeRequests(Queued)
      BY <2>1 DEF InsertEmptyTime
    <2>4. WriteTrailer => FlushBreaks(Queued) \/ TakeRequests(Queued)
      BY <2>1 DEF WriteTrailer, TrailerDone, TrailerCut
    <2> QED
      BY <2>2, <2>3, <2>4 DEF FlushingCall
  <1>5. Idle(Queued) => pending = Empty
    <2>1. Queued.pending = pending
      BY DEF Queued, WholeBatch
    <2> QED
      BY <1>2, <2>1, IdleIsEmpty
  <1>6. UNCHANGED asked
    BY DEF FlushingCall, FlushFragment, InsertEmptyTime, WriteTrailer
  <1> QED
    BY <1>2, <1>3, <1>4, <1>5, <1>6, FlushOrder

LEMMA OrderInit == Init => OrderInv
  <1> SUFFICES ASSUME Init PROVE OrderInv
    OBVIOUS
  <1>1. file = <<>> /\ AllWaiting = {}
    BY DEF Init, AllWaiting, Waiting, RequestIds
  <1>2. \A i, m : ~Marks(<<>>, i, m) /\ ~Loose(<<>>, i)
    BY DEF Marks, Loose
  <1> QED
    BY <1>1, <1>2 DEF OrderInv, Orderly

LEMMA OrderAlways == Spec => []OrderInv
  <1>1. FileInv /\ OrderInv /\ [Next]_vars => OrderInv'
    BY StepIsACall, QuietOrder, PacketOrder, CallOrder
  <1> QED
    BY <1>1, OrderInit, FileInvAlways, PTL DEF Spec

LEMMA AnnotatesIs ==
    ASSUME IsFile(file), OrderInv, NEW i
    PROVE  Annotates(i) = {m \in 1..Len(file) : Marks(file, i, m)}
  <1>1. ToSet(Moofs(file)) = {m \in 1..Len(file) : file[m].kind = "moof"}
    BY OfKindIs DEF Moofs
  <1>2. Len(file) \in Nat
    BY DEF IsFile
  <1>3. ASSUME NEW m \in Annotates(i) PROVE Marks(file, i, m)
    <2>1. m \in 1..Len(file) /\ file[m].kind = "moof"
      BY <1>1, <1>3 DEF Annotates
    <2>2. CASE i \in RequestIds(file[m].pssh)
      <3>1. i \in Carried(file[m])
        BY <2>1, <2>2 DEF Carried
      <3>2. m \in 1..m /\ \A j \in m..(m - 1) : FALSE
        BY <1>2, <2>1
      <3> QED
        BY <2>1, <3>1, <3>2 DEF Marks
    <2>3. CASE \E k \in 1..(m - 1) :
                  /\ file[k].kind \in {"emsg", "prft"} /\ file[k].id = i
                  /\ \A j \in k..(m - 1) : file[j].kind # "moof"
      <3>1. PICK k \in 1..(m - 1) :
                  /\ file[k].kind \in {"emsg", "prft"} /\ file[k].id = i
                  /\ \A j \in k..(m - 1) : file[j].kind # "moof"
        BY <2>3
      <3>2. i \in Carried(file[k]) /\ k \in 1..m
        BY <1>2, <2>1, <3>1 DEF Carried
      <3> QED
        BY <2>1, <3>1, <3>2 DEF Marks
    <2> QED
      BY <1>3, <2>2, <2>3 DEF Annotates
  <1>4. ASSUME NEW m, Marks(file, i, m) PROVE m \in Annotates(i)
    <2>1. m \in 1..Len(file) /\ file[m].kind = "moof"
      BY <1>4 DEF Marks
    <2>2. PICK k \in 1..m : i \in Carried(file[k]) /\ \A j \in k..(m - 1) : file[j].kind # "moof"
      BY <1>4 DEF Marks
    <2>3. CASE k = m
      BY <1>1, <2>1, <2>2, <2>3 DEF Annotates, Carried
    <2>4. CASE k # m
      <3>1. k \in 1..(m - 1) /\ k \in k..(m - 1)
        BY <1>2, <2>1, <2>4
      <3>2. file[k].kind # "moof"
        BY <2>2, <3>1
      <3>3. file[k].kind \in {"emsg", "prft"} /\ file[k].id = i
        BY <2>2, <3>2 DEF Carried
      <3>4. \E n \in 1..(m - 1) :
                  /\ file[n].kind \in {"emsg", "prft"} /\ file[n].id = i
                  /\ \A j \in n..(m - 1) : file[j].kind # "moof"
        BY <2>2, <3>1, <3>3
      <3> QED
        BY <1>1, <2>1, <3>4 DEF Annotates
    <2> QED
      BY <2>3, <2>4
  <1>5. \A m \in Annotates(i) : m \in 1..Len(file)
    BY <1>1 DEF Annotates
  <1> QED
    BY <1>3, <1>4, <1>5

(* Each pssh, emsg and prft request annotates at most one fragment, one    *)
(* that has samples; they come out in the order they were made, and one    *)
(* that still waits was made after all that have come out, also in a file  *)
(* whose flushes broke off half way (set_next_segment_*, flush_fragment,   *)
(* src/frag.rs).                                                           *)
THEOREM RequestsStayInOrder == Spec => []RequestsInOrder
  <1>1. FileInv /\ OrderInv => RequestsInOrder
    <2> SUFFICES ASSUME FileInv, OrderInv PROVE RequestsInOrder
      OBVIOUS
    <2> DEFINE out == {i \in 1..asked : Annotates(i) # {}}
    <2>1. \A i : \A m \in Annotates(i) : m \in 1..Len(file) /\ Marks(file, i, m)
      BY AnnotatesIs DEF FileInv
    <2>2. Len(file) \in Nat
      BY DEF FileInv, IsFile
    <2>3. Orderly(file, AllWaiting, asked)
      BY DEF OrderInv
    <2>4. ASSUME NEW i \in out PROVE Cardinality(Annotates(i)) = 1
      <3>1. PICK m : m \in Annotates(i)
        OBVIOUS
      <3>2. ASSUME NEW n \in Annotates(i) PROVE n = m
        <4>1. Marks(file, i, m) /\ Marks(file, i, n) /\ m \in Int /\ n \in Int
          BY <2>1, <2>2, <3>1, <3>2
        <4>2. ~(i < i)
          OBVIOUS
        <4>3. ~(m < n) /\ ~(n < m)
          BY <2>3, <4>1, <4>2 DEF Orderly
        <4> QED
          BY <4>1, <4>3
      <3>3. Annotates(i) = {m}
        BY <3>1, <3>2
      <3> QED
        BY <3>3, FS_Singleton
    <2>5. \A i \in out : \A m \in Annotates(i) : file[m].trafs[1].trun # {}
      BY <2>1, <2>3 DEF Orderly
    <2>6. ASSUME NEW i \in out, NEW j \in out, NEW m \in Annotates(i), NEW n \in Annotates(j), i < j
          PROVE  m <= n
      <3>1. Marks(file, i, m) /\ Marks(file, j, n) /\ m \in Int /\ n \in Int
        BY <2>1, <2>2
      <3>2. ~(j < i)
        BY <2>6
      <3>3. ~(n < m)
        BY <2>3, <3>1, <3>2 DEF Orderly
      <3> QED
        BY <3>1, <3>3
    <2>7. ASSUME NEW i \in out, NEW j \in AllWaiting PROVE i < j
      <3>1. PICK m : m \in Annotates(i)
        OBVIOUS
      <3> QED
        BY <2>1, <2>3, <3>1 DEF Orderly
    <2> HIDE DEF out
    <2> QED
      BY <2>4, <2>5, <2>6, <2>7 DEF RequestsInOrder, out, AllWaiting
  <1> QED
    BY <1>1, FileInvAlways, OrderAlways, PTL
=============================================================================
