-------------------------- MODULE FragMuxerProofs ---------------------------
(***************************************************************************)
(* What holds of the queues of FragMuxer for every number of tracks, every *)
(* option and packet set and every bound: their types, the alignment of    *)
(* the CENC queues, and that the muxer implements the log of SegmentStream *)
(* -- failing calls included; and at the end the types of all variables,   *)
(* the file among them.                                                    *)
(*                                                                         *)
(* The argument: a packet joins queues that are typed and in step, and     *)
(* leaves them so (PacketJoins); the batch a cadence makes is either the   *)
(* whole of the queues, or exactly the queues as they were before the      *)
(* packet, with the packet held (CadenceBatchIs); so a flush either        *)
(* publishes everything but the held packet or leaves the batch queued.    *)
(***************************************************************************)
EXTENDS FragContract, TrackProofs

(***************************************************************************)
(* The queues.  A queued sample is annotated as its packet was: its        *)
(* auxiliary record says what the caller gave, at the width the track      *)
(* prescribes, and it has at most one override; and where keyframes cut    *)
(* fragments, only the first queued sample of the anchor is one.           *)
(***************************************************************************)
Silent == [iv |-> 0, subs |-> 0]
Width(t) == IF opts.prot[t].supply = "sample" THEN opts.prot[t].size ELSE 0
Says(t, s, x) ==
    /\ s.given.senc # {} /\ x.iv = Width(t)
    /\ x.iv = ValueOf(s.given.senc, Silent).iv
    /\ x.subs = ValueOf(s.given.senc, Silent).subs
Given(t, q, senc) ==
    /\ senc = <<>> => \A k \in 1..Len(q) : q[k].given.senc = {} /\ q[k].given.seig = {}
    /\ \A k \in 1..Len(senc) : Says(t, q[k], senc[k])
    /\ \A k \in 1..Len(q) : \A x, y \in q[k].given.seig : x = y
KeysOpen(t, q) ==
    opts.cadence = "keyframe" /\ t = Anchor => \A k \in 1..Len(q) : q[k].key => k = 1
Annotated(p, sc) == \A t \in Track : Given(t, p[t], sc[t]) /\ KeysOpen(t, p[t])

QueueInv == QueueTypes /\ QueuesInStep /\ Annotated(pending, pendingSenc)

(***************************************************************************)
(* Sequences.                                                              *)
(***************************************************************************)
LEMMA FrontOfAppend ==
    ASSUME NEW S, NEW q \in Seq(S), NEW x \in S
    PROVE  /\ Front(Append(q, x)) = q
           /\ Last(Append(q, x)) = x
           /\ Append(q, x) # <<>>
  <1>1. Len(Append(q, x)) = Len(q) + 1 /\ \A k \in 1..Len(q) : Append(q, x)[k] = q[k]
    OBVIOUS
  <1>2. SubSeq(Append(q, x), 1, Len(q)) = q
    BY <1>1
  <1>3. Append(q, x)[Len(q) + 1] = x
    OBVIOUS
  <1> QED
    BY <1>1, <1>2, <1>3 DEF Front, Last

LEMMA EmptyConcat ==
    ASSUME NEW S, NEW q \in Seq(S)
    PROVE  <<>> \o q = q /\ q \o <<>> = q /\ <<>> \in Seq(S)
  OBVIOUS

(* The numbers of the samples of a concatenation.                          *)
LEMMA SampleIds == \A s \in Sample : s.id \in Nat
  BY DEF Sample

LEMMA IdsOf ==
    ASSUME NEW q \in Seq(Sample)
    PROVE  /\ Ids(q) \in Seq(Nat) /\ Len(Ids(q)) = Len(q)
           /\ \A k \in 1..Len(q) : Ids(q)[k] = q[k].id
  <1>1. DOMAIN q = 1..Len(q) /\ \A k \in 1..Len(q) : q[k] \in Sample
    OBVIOUS
  <1>2. \A k \in 1..Len(q) : q[k].id \in Nat
    BY <1>1, SampleIds
  <1> QED
    BY <1>1, <1>2 DEF Ids

LEMMA IdsConcat ==
    ASSUME NEW p \in Seq(Sample), NEW q \in Seq(Sample)
    PROVE  Ids(p \o q) = Ids(p) \o Ids(q)
  <1> DEFINE a == Ids(p)
             b == Ids(q)
             c == Ids(p \o q)
  <1>1. /\ p \o q \in Seq(Sample) /\ Len(p \o q) = Len(p) + Len(q)
        /\ \A k \in 1..(Len(p) + Len(q)) :
              (p \o q)[k] = IF k <= Len(p) THEN p[k] ELSE q[k - Len(p)]
    OBVIOUS
  <1>2. /\ a \in Seq(Nat) /\ Len(a) = Len(p)
        /\ \A k \in 1..Len(p) : a[k] = p[k].id
    BY IdsOf
  <1>3. /\ b \in Seq(Nat) /\ Len(b) = Len(q)
        /\ \A k \in 1..Len(q) : b[k] = q[k].id
    BY IdsOf
  <1>4. /\ c \in Seq(Nat) /\ Len(c) = Len(p) + Len(q)
        /\ \A k \in 1..(Len(p) + Len(q)) : c[k] = (p \o q)[k].id
    BY <1>1, IdsOf
  <1> HIDE DEF a, b, c
  <1>5. \A k \in 1..(Len(p) + Len(q)) :
          c[k] = IF k <= Len(p) THEN p[k].id ELSE q[k - Len(p)].id
    BY <1>1, <1>4
  <1>6. /\ a \o b \in Seq(Nat) /\ Len(a \o b) = Len(p) + Len(q)
        /\ \A k \in 1..(Len(p) + Len(q)) :
              (a \o b)[k] = IF k <= Len(p) THEN a[k] ELSE b[k - Len(p)]
    BY <1>2, <1>3, ConcatProperties
  <1>7. \A k \in 1..Len(c) : c[k] = (a \o b)[k]
    <2> SUFFICES ASSUME NEW k \in 1..(Len(p) + Len(q)) PROVE c[k] = (a \o b)[k]
      BY <1>4
    <2>1. Len(p) \in Nat /\ Len(q) \in Nat
      OBVIOUS
    <2>2. CASE k <= Len(p)
      <3>1. k \in 1..Len(p)
        BY <2>1, <2>2
      <3> QED
        BY <1>2, <1>5, <1>6, <2>2, <3>1
    <2>3. CASE ~(k <= Len(p))
      <3>1. k - Len(p) \in 1..Len(q)
        BY <2>1, <2>3
      <3> QED
        BY <1>3, <1>5, <1>6, <2>3, <3>1
    <2> QED
      BY <2>2, <2>3
  <1>8. c = a \o b
    BY <1>4, <1>6, <1>7, SeqEqual
  <1> QED
    BY <1>8 DEF a, b, c

LEMMA IdsAppend ==
    ASSUME NEW p \in Seq(Sample), NEW s \in Sample
    PROVE  Ids(Append(p, s)) = Append(Ids(p), s.id)
  <1>1. Append(p, s) = p \o <<s>> /\ <<s>> \in Seq(Sample)
    OBVIOUS
  <1>2. Ids(<<s>>) = <<s.id>>
    BY DEF Ids
  <1>3. Ids(p) \in Seq(Nat) /\ s.id \in Nat
    BY IdsOf DEF Sample
  <1>4. Ids(p \o <<s>>) = Ids(p) \o Ids(<<s>>)
    BY <1>1, IdsConcat
  <1> QED
    BY <1>1, <1>2, <1>3, <1>4, AppendIsConcat

(***************************************************************************)
(* What a packet adds to the queues is typed.                              *)
(***************************************************************************)
LEMMA ValueOfIn ==
    ASSUME NEW S, NEW o \in SUBSET S, NEW d \in S
    PROVE  ValueOf(o, d) \in S
  BY DEF ValueOf

LEMMA SomeValue ==
    ASSUME NEW S, NEW o \in SUBSET S, NEW d, o # {}
    PROVE  ValueOf(o, d) \in S /\ ValueOf(o, d) \in o
  BY DEF ValueOf

LEMMA RescaleInt ==
    ASSUME NEW v \in Int, NEW num \in Nat, NEW den \in Nat, NEW scale \in Nat
    PROVE  Rescale(v, num, den, scale) \in Int
  <1>1. \A a \in Int, d \in Nat : d # 0 => a \div d \in Int
    OBVIOUS
  <1>2. \A a, b \in Int : a * b \in Int
    OBVIOUS
  <1>3. v * num * scale \in Int /\ -v * num * scale \in Int
    BY <1>2
  <1>4. den # 0 => /\ (v * num * scale) \div den \in Int
                   /\ -((-v * num * scale) \div den) \in Int
    BY <1>1, <1>3
  <1> QED
    BY <1>4 DEF Rescale

LEMMA PacketFields ==
    ASSUME NEW p \in Packets
    PROVE  /\ p.track \in Track
           /\ p.pts \in SUBSET Int /\ p.dts \in SUBSET Int
           /\ p.duration \in SUBSET Int
           /\ p.num \in Nat /\ p.den \in Nat /\ p.key \in BOOLEAN /\ p.size \in Nat
           /\ p.senc \in SUBSET SencGiven /\ p.seig \in SUBSET SeigGiven
  BY PacketsAssumption

LEMMA MediaTsInt ==
    ASSUME opts \in Options, NEW p \in Packets, NEW v \in Int
    PROVE  MediaTs(p, v) \in Int
  <1>1. opts.scale[p.track] \in Nat
    BY PacketFields, OptionsAssumption
  <1> QED
    BY <1>1, PacketFields, RescaleInt DEF MediaTs

LEMMA TimingTyped ==
    ASSUME QueueTypes, NEW p \in Packets
    PROVE  /\ PacketDuration(p) \in Nat \ {0}
           /\ CompositionOffset(p) \in Int
           /\ PrevPtsAfter(p) \in SUBSET Int
  <1> USE PacketFields
  <1>1. opts \in Options /\ prevPts[p.track] \in SUBSET Int
    BY DEF QueueTypes
  <1>2. \A v \in Int : MediaTs(p, v) \in Int
    BY <1>1, MediaTsInt
  <1>3. /\ ValueOf(p.pts, 0) \in Int /\ ValueOf(p.dts, 0) \in Int
        /\ ValueOf(p.duration, 0) \in Int /\ ValueOf(prevPts[p.track], 0) \in Int
    BY <1>1, ValueOfIn
  <1>4. \A v \in Int : AtLeastOne(v) \in Nat \ {0}
    BY DEF AtLeastOne
  <1>5. /\ MediaTs(p, ValueOf(p.pts, 0)) \in Int
        /\ MediaTs(p, ValueOf(p.dts, 0)) \in Int
        /\ MediaTs(p, ValueOf(p.duration, 0)) \in Int
    BY <1>2, <1>3
  <1>6. PacketDuration(p) \in Nat \ {0}
    BY <1>3, <1>4, <1>5 DEF PacketDuration
  <1>7. CompositionOffset(p) \in Int
    BY <1>5 DEF CompositionOffset
  <1>8. PrevPtsAfter(p) \in SUBSET Int
    BY <1>3, <1>5, <1>6 DEF PrevPtsAfter
  <1> QED
    BY <1>6, <1>7, <1>8

LEMMA SampleTyped ==
    ASSUME QueueTypes, NEW p \in Packets
    PROVE  /\ SampleOf(p) \in Sample
           /\ SampleOf(p).id = packetsTotal[p.track] + 1
           /\ SencOf(p) \in Seq(AuxRecord)
           /\ SeigOf(p) \in Seq(SUBSET SeigGiven)
  <1> USE PacketFields
  <1>1. packetsTotal[p.track] + 1 \in Nat
    BY DEF QueueTypes
  <1>2. (IF p.senc = {} THEN {} ELSE p.seig) \in SUBSET SeigGiven
    OBVIOUS
  <1>3. SampleOf(p) \in Sample /\ SampleOf(p).id = packetsTotal[p.track] + 1
    BY <1>1, <1>2, TimingTyped DEF SampleOf, Sample
  <1>4. SencOf(p) \in Seq(AuxRecord)
    <2>1. CASE p.senc = {}
      BY <2>1 DEF SencOf
    <2>2. CASE p.senc # {}
      <3>1. ValueOf(p.senc, {}) \in SencGiven
        BY <2>2, SomeValue
      <3>2. [of |-> packetsTotal[p.track] + 1, iv |-> ValueOf(p.senc, {}).iv,
             subs |-> ValueOf(p.senc, {}).subs] \in AuxRecord
        BY <1>1, <3>1 DEF SencGiven, AuxRecord
      <3> QED
        BY <2>2, <3>2 DEF SencOf
    <2> QED
      BY <2>1, <2>2
  <1>5. SeigOf(p) \in Seq(SUBSET SeigGiven)
    <2>1. <<>> \in Seq(SUBSET SeigGiven) /\ <<p.seig>> \in Seq(SUBSET SeigGiven)
      OBVIOUS
    <2> QED
      BY <2>1 DEF SeigOf
  <1> QED
    BY <1>3, <1>4, <1>5

(***************************************************************************)
(* A packet joins the queues.                                              *)
(***************************************************************************)
BatchTyped(p, sc, sg) ==
    /\ p \in [Track -> Seq(Sample)]
    /\ sc \in [Track -> Seq(AuxRecord)]
    /\ sg \in [Track -> Seq(SUBSET SeigGiven)]
InStep(p, sc, sg) == \A t \in Track : TrackInStep(p[t], sc[t], sg[t])

LEMMA EmptyInStep == \A q : TrackInStep(q, <<>>, <<>>)
  BY DEF TrackInStep

LEMMA AppendInStep ==
    ASSUME NEW q \in Seq(Sample), NEW sc \in Seq(AuxRecord),
           NEW sg \in Seq(SUBSET SeigGiven), TrackInStep(q, sc, sg),
           Len(sc) = Len(q),
           NEW s \in Sample, NEW x \in AuxRecord, x.of = s.id
    PROVE  TrackInStep(Append(q, s), Append(sc, x), Append(sg, s.given.seig))
  <1>1. s.given.seig \in SUBSET SeigGiven
    BY DEF Sample
  <1>2. /\ Len(sg) = Len(sc) /\ DOMAIN sc = 1..Len(sc)
        /\ \A k \in 1..Len(sc) : sc[k].of = q[k].id /\ sg[k] = q[k].given.seig
    BY DEF TrackInStep
  <1>3. /\ Append(q, s) \in Seq(Sample) /\ Len(Append(q, s)) = Len(q) + 1
        /\ \A k \in 1..Len(q) : Append(q, s)[k] = q[k]
        /\ Append(q, s)[Len(q) + 1] = s
    BY AppendProperties
  <1>4. /\ Append(sc, x) \in Seq(AuxRecord) /\ Len(Append(sc, x)) = Len(sc) + 1
        /\ \A k \in 1..Len(sc) : Append(sc, x)[k] = sc[k]
        /\ Append(sc, x)[Len(sc) + 1] = x
    BY AppendProperties
  <1> DEFINE y == s.given.seig
  <1>5. /\ Len(Append(sg, y)) = Len(sg) + 1
        /\ \A k \in 1..Len(sg) : Append(sg, y)[k] = sg[k]
        /\ Append(sg, y)[Len(sg) + 1] = y
    BY <1>1, AppendProperties
  <1>6. DOMAIN Append(sc, x) = 1..(Len(sc) + 1)
    BY <1>4
  <1>7. \A k \in 1..(Len(sc) + 1) : k \in 1..Len(sc) \/ k = Len(sc) + 1
    OBVIOUS
  <1>8. \A k \in 1..(Len(sc) + 1) :
           /\ Append(sc, x)[k].of = Append(q, s)[k].id
           /\ Append(sg, y)[k] = Append(q, s)[k].given.seig
    BY <1>2, <1>3, <1>4, <1>5, <1>7
  <1> QED
    BY <1>2, <1>3, <1>4, <1>5, <1>6, <1>8 DEF TrackInStep

LEMMA PacketInStep ==
    ASSUME QueueInv, NEW p \in Packets, Admissible(p)
    PROVE  LET t == p.track IN
           TrackInStep(Append(pending[t], SampleOf(p)),
                       pendingSenc[t] \o SencOf(p), pendingSeig[t] \o SeigOf(p))
  <1> DEFINE t == p.track
             x == [of |-> packetsTotal[t] + 1, iv |-> ValueOf(p.senc, {}).iv,
                   subs |-> ValueOf(p.senc, {}).subs]
  <1>1. /\ t \in Track
        /\ pending[t] \in Seq(Sample) /\ pendingSenc[t] \in Seq(AuxRecord)
        /\ pendingSeig[t] \in Seq(SUBSET SeigGiven)
        /\ TrackInStep(pending[t], pendingSenc[t], pendingSeig[t])
    BY PacketFields DEF QueueInv, QueueTypes, QueuesInStep
  <1>2. SampleOf(p) \in Sample /\ SampleOf(p).id = packetsTotal[t] + 1
    BY SampleTyped DEF QueueInv
  <1>3. CASE p.senc = {}
    <2>1. SencOf(p) = <<>> /\ SeigOf(p) = <<>> /\ pendingSenc[t] = <<>>
      BY <1>3 DEF SencOf, SeigOf, Admissible, SencAllowed
    <2>2. Len(pendingSeig[t]) = 0
      BY <1>1, <2>1 DEF TrackInStep
    <2>3. pendingSeig[t] = <<>>
      BY <1>1, <2>2
    <2>4. <<>> \o <<>> = <<>>
      OBVIOUS
    <2> QED
      BY <2>1, <2>3, <2>4, EmptyInStep
  <1>4. CASE p.senc # {}
    <2>1. SencOf(p) = <<x>> /\ SeigOf(p) = <<p.seig>>
      BY <1>4 DEF SencOf, SeigOf
    <2>2. Len(pendingSenc[t]) = Len(pending[t])
      BY <1>4 DEF Admissible, SencAllowed
    <2>3. x \in AuxRecord /\ x.of = SampleOf(p).id
      <3>1. ValueOf(p.senc, {}) \in SencGiven
        BY <1>4, PacketFields, SomeValue
      <3>2. packetsTotal[t] + 1 \in Nat
        BY <1>1 DEF QueueInv, QueueTypes
      <3> QED
        BY <1>2, <3>1, <3>2 DEF SencGiven, AuxRecord
    <2>4. SampleOf(p).given.seig = p.seig
      BY <1>4 DEF SampleOf
    <2>5. TrackInStep(Append(pending[t], SampleOf(p)), Append(pendingSenc[t], x),
                      Append(pendingSeig[t], SampleOf(p).given.seig))
      BY <1>1, <1>2, <2>2, <2>3, AppendInStep
    <2>6. p.seig \in SUBSET SeigGiven
      BY PacketFields
    <2>7. /\ Append(pendingSenc[t], x) = pendingSenc[t] \o <<x>>
          /\ Append(pendingSeig[t], p.seig) = pendingSeig[t] \o <<p.seig>>
      BY <1>1, <2>3, <2>6, AppendIsConcat
    <2> QED
      BY <2>1, <2>4, <2>5, <2>7
  <1> QED
    BY <1>3, <1>4

LEMMA PacketJoins ==
    ASSUME QueueInv, NEW p \in Packets, Admissible(p)
    PROVE  /\ BatchTyped(PendingWith(p), SencWith(p), SeigWith(p))
           /\ InStep(PendingWith(p), SencWith(p), SeigWith(p))
  <1> DEFINE t == p.track
  <1>1. /\ t \in Track /\ SampleOf(p) \in Sample
        /\ SencOf(p) \in Seq(AuxRecord) /\ SeigOf(p) \in Seq(SUBSET SeigGiven)
    BY PacketFields, SampleTyped DEF QueueInv
  <1>2. /\ pending \in [Track -> Seq(Sample)]
        /\ pendingSenc \in [Track -> Seq(AuxRecord)]
        /\ pendingSeig \in [Track -> Seq(SUBSET SeigGiven)]
    BY DEF QueueInv, QueueTypes
  <1>3. /\ Append(pending[t], SampleOf(p)) \in Seq(Sample)
        /\ pendingSenc[t] \o SencOf(p) \in Seq(AuxRecord)
        /\ pendingSeig[t] \o SeigOf(p) \in Seq(SUBSET SeigGiven)
    BY <1>1, <1>2
  <1>4. BatchTyped(PendingWith(p), SencWith(p), SeigWith(p))
    BY <1>1, <1>2, <1>3 DEF BatchTyped, PendingWith, SencWith, SeigWith
  <1>5. \A u \in Track :
          /\ PendingWith(p)[u] = IF u = t THEN Append(pending[t], SampleOf(p))
                                 ELSE pending[u]
          /\ SencWith(p)[u] = IF u = t THEN pendingSenc[t] \o SencOf(p)
                              ELSE pendingSenc[u]
          /\ SeigWith(p)[u] = IF u = t THEN pendingSeig[t] \o SeigOf(p)
                              ELSE pendingSeig[u]
    BY <1>1, <1>2 DEF PendingWith, SencWith, SeigWith
  <1>6. InStep(PendingWith(p), SencWith(p), SeigWith(p))
    BY <1>5, PacketInStep DEF InStep, QueueInv, QueuesInStep
  <1> QED
    BY <1>4, <1>6

(* ... with its annotations, and while it cuts no fragment, as the first   *)
(* of the anchor's queue if it is a keyframe.                              *)
Stays(p) == opts.cadence = "keyframe" => ~ShouldFlush(PendingWith(p), p)

LEMMA EmptyGiven == \A t : Given(t, <<>>, <<>>) /\ KeysOpen(t, <<>>)
  BY DEF Given, KeysOpen

LEMMA SampleSays ==
    ASSUME QueueInv, NEW p \in Packets, Admissible(p)
    PROVE  /\ SampleOf(p).given.senc = p.senc
           /\ \A x, y \in SampleOf(p).given.seig : x = y
           /\ p.senc = {} => SampleOf(p).given.seig = {} /\ SencOf(p) = <<>>
                              /\ pendingSenc[p.track] = <<>>
           /\ p.senc # {} => \E x \in AuxRecord : /\ SencOf(p) = <<x>>
                                                  /\ Says(p.track, SampleOf(p), x)
  <1> DEFINE s == SampleOf(p)
             g == [senc |-> p.senc, seig |-> IF p.senc = {} THEN {} ELSE p.seig]
  <1>1. s.given = g
    BY DEF SampleOf
  <1>2. s.given.senc = p.senc /\ s.given.seig = IF p.senc = {} THEN {} ELSE p.seig
    BY <1>1
  <1> HIDE DEF s
  <1>3. \A x, y \in p.seig : x = y
    BY OverridesAssumption
  <1>4. \A x, y \in s.given.seig : x = y
    BY <1>2, <1>3
  <1>5. CASE p.senc = {}
    BY <1>2, <1>4, <1>5 DEF s, SencOf, Admissible, SencAllowed
  <1>6. CASE p.senc # {}
    <2> DEFINE e == ValueOf(p.senc, {})
               x == [of |-> packetsTotal[p.track] + 1, iv |-> e.iv, subs |-> e.subs]
    <2>1. e \in SencGiven /\ ValueOf(p.senc, Silent) = e
      <3>1. e \in SencGiven
        BY <1>6, PacketFields, SomeValue
      <3>2. ValueOf(p.senc, Silent) = e
        BY <1>6 DEF ValueOf
      <3> QED
        BY <3>1, <3>2
    <2>2. packetsTotal[p.track] + 1 \in Nat
      BY PacketFields DEF QueueInv, QueueTypes
    <2>3. e.iv = Width(p.track)
      BY <1>6 DEF Admissible, SencAllowed, Width
    <2>4. SencOf(p) = <<x>>
      BY <1>6 DEF SencOf
    <2> HIDE DEF e
    <2>5. x \in AuxRecord /\ x.iv = e.iv /\ x.subs = e.subs
      BY <2>1, <2>2 DEF SencGiven, AuxRecord
    <2> HIDE DEF x
    <2>6. Says(p.track, s, x)
      BY <1>2, <1>6, <2>1, <2>3, <2>5 DEF Says
    <2> QED
      BY <1>2, <1>4, <1>6, <2>4, <2>5, <2>6 DEF s
  <1> QED
    BY <1>5, <1>6

LEMMA AppendGiven ==
    ASSUME NEW t, NEW q \in Seq(Sample), NEW sc \in Seq(AuxRecord), Given(t, q, sc),
           NEW s \in Sample, \A x, y \in s.given.seig : x = y
    PROVE  /\ sc = <<>> /\ s.given.senc = {} /\ s.given.seig = {}
                => Given(t, Append(q, s), <<>>)
           /\ Len(sc) = Len(q) => \A x \in AuxRecord :
                Says(t, s, x) => Given(t, Append(q, s), Append(sc, x))
  <1> DEFINE r == Append(q, s)
  <1>1. /\ Len(r) = Len(q) + 1 /\ Len(q) \in Nat /\ r[Len(q) + 1] = s
        /\ \A k \in 1..Len(q) : r[k] = q[k]
    BY AppendProperties
  <1> HIDE DEF r
  <1>2. \A k \in 1..Len(r) : k \in 1..Len(q) \/ k = Len(q) + 1
    BY <1>1
  <1>3. \A k \in 1..Len(r) : \A x, y \in r[k].given.seig : x = y
    BY <1>1, <1>2 DEF Given
  <1>4. ASSUME sc = <<>>, s.given.senc = {}, s.given.seig = {}
        PROVE  Given(t, r, <<>>)
    <2> DEFINE e == <<>>
    <2>1. Len(e) = 0
      OBVIOUS
    <2>2. \A k \in 1..Len(q) : q[k].given.senc = {} /\ q[k].given.seig = {}
      BY <1>4 DEF Given
    <2>3. \A k \in 1..Len(r) : r[k].given.senc = {} /\ r[k].given.seig = {}
      BY <1>1, <1>2, <1>4, <2>2
    <2> HIDE DEF e
    <2>4. \A k \in 1..Len(e) : Says(t, r[k], e[k])
      BY <2>1
    <2>5. Given(t, r, e)
      BY <1>3, <2>3, <2>4 DEF Given
    <2> QED
      BY <2>5 DEF e
  <1>5. ASSUME Len(sc) = Len(q), NEW x \in AuxRecord, Says(t, s, x)
        PROVE  Given(t, r, Append(sc, x))
    <2> DEFINE u == Append(sc, x)
    <2>1. /\ Len(u) = Len(q) + 1 /\ u[Len(q) + 1] = x /\ \A k \in 1..Len(q) : u[k] = sc[k]
      BY <1>5, AppendProperties
    <2>2. u # <<>>
      BY <2>1, <1>1
    <2> HIDE DEF u
    <2>3. \A k \in 1..Len(q) : Says(t, q[k], sc[k])
      BY <1>5 DEF Given
    <2>4. \A k \in 1..Len(u) : Says(t, r[k], u[k])
      BY <1>1, <1>2, <1>5, <2>1, <2>3
    <2>5. Given(t, r, u)
      BY <1>3, <2>2, <2>4 DEF Given
    <2> QED
      BY <2>5 DEF u
  <1> QED
    BY <1>4, <1>5 DEF r

LEMMA PacketGiven ==
    ASSUME QueueInv, NEW p \in Packets, Admissible(p)
    PROVE  Given(p.track, Append(pending[p.track], SampleOf(p)),
                 pendingSenc[p.track] \o SencOf(p))
  <1> DEFINE t == p.track
             q == pending[t]
             sc == pendingSenc[t]
             s == SampleOf(p)
  <1>1. t \in Track /\ q \in Seq(Sample) /\ sc \in Seq(AuxRecord) /\ Given(t, q, sc)
    BY PacketFields DEF QueueInv, QueueTypes, Annotated
  <1>2. s \in Sample /\ \A x, y \in s.given.seig : x = y
    BY SampleTyped, SampleSays DEF QueueInv
  <1>3. CASE p.senc = {}
    <2>1. s.given.senc = {} /\ s.given.seig = {} /\ SencOf(p) = <<>> /\ sc = <<>>
      BY <1>3, SampleSays
    <2>2. <<>> \o <<>> = <<>>
      OBVIOUS
    <2> HIDE DEF q, sc, s, t
    <2> QED
      BY <1>1, <1>2, <2>1, <2>2, AppendGiven, ZenonT(60), SMTT(30) DEF q, sc, s, t
  <1>4. CASE p.senc # {}
    <2>1. PICK x \in AuxRecord : SencOf(p) = <<x>> /\ Says(t, s, x)
      BY <1>4, SampleSays
    <2>2. Len(sc) = Len(q)
      BY <1>4 DEF Admissible, SencAllowed
    <2> HIDE DEF q, sc, s, t
    <2>3. Append(sc, x) = sc \o <<x>>
      BY <1>1, AppendIsConcat
    <2>4. Given(t, Append(q, s), Append(sc, x))
      BY <1>1, <1>2, <2>1, <2>2, AppendGiven
    <2> QED
      BY <2>1, <2>3, <2>4 DEF q, sc, s, t
  <1> QED
    BY <1>3, <1>4

LEMMA PacketOpens ==
    ASSUME QueueInv, NEW p \in Packets, Stays(p)
    PROVE  KeysOpen(p.track, Append(pending[p.track], SampleOf(p)))
  <1> SUFFICES ASSUME opts.cadence = "keyframe", p.track = Anchor,
                      NEW k \in 1..Len(Append(pending[Anchor], SampleOf(p))),
                      Append(pending[Anchor], SampleOf(p))[k].key
               PROVE  k = 1
    BY DEF KeysOpen
  <1> DEFINE q == pending[Anchor]
             s == SampleOf(p)
             r == Append(q, s)
  <1>1. /\ Anchor \in Track /\ q \in Seq(Sample) /\ s \in Sample
        /\ \A j \in 1..Len(q) : q[j].key => j = 1
    BY PacketFields, SampleTyped DEF QueueInv, QueueTypes, Annotated, KeysOpen
  <1>2. s.key = p.key
    BY DEF SampleOf
  <1>3. PendingWith(p)[Anchor] = r
    BY <1>1 DEF PendingWith, QueueInv, QueueTypes
  <1>4. ~(p.key /\ Len(r) >= 2)
    BY <1>3 DEF Stays, ShouldFlush
  <1> HIDE DEF q, s
  <1>5. /\ Len(r) = Len(q) + 1 /\ Len(q) \in Nat /\ r[Len(q) + 1] = s
        /\ \A j \in 1..Len(q) : r[j] = q[j]
    BY <1>1, AppendProperties
  <1>6. k \in 1..Len(r) /\ r[k].key
    BY DEF q, s
  <1> HIDE DEF r
  <1>7. CASE k \in 1..Len(q)
    BY <1>1, <1>5, <1>6, <1>7
  <1>8. CASE k = Len(q) + 1
    <2>1. p.key
      BY <1>2, <1>5, <1>6, <1>8
    <2> QED
      BY <1>4, <1>5, <1>8, <2>1
  <1> QED
    BY <1>5, <1>6, <1>7, <1>8

LEMMA PacketAnnotated ==
    ASSUME QueueInv, NEW p \in Packets, Admissible(p), Stays(p)
    PROVE  Annotated(PendingWith(p), SencWith(p))
  <1> DEFINE t == p.track
  <1>1. t \in Track /\ pending \in [Track -> Seq(Sample)]
        /\ pendingSenc \in [Track -> Seq(AuxRecord)]
    BY PacketFields DEF QueueInv, QueueTypes
  <1>2. \A u \in Track :
          /\ PendingWith(p)[u] = IF u = t THEN Append(pending[t], SampleOf(p))
                                 ELSE pending[u]
          /\ SencWith(p)[u] = IF u = t THEN pendingSenc[t] \o SencOf(p)
                              ELSE pendingSenc[u]
    BY <1>1 DEF PendingWith, SencWith
  <1> QED
    BY <1>2, PacketGiven, PacketOpens DEF Annotated, QueueInv

(***************************************************************************)
(* The batch of a cadence.  Detaching the keyframe undoes its queueing: the *)
(* batch is what was queued before the packet, and the packet is held.     *)
(***************************************************************************)
HeldBatch(p) ==
    [pending |-> pending, senc |-> pendingSenc, seig |-> pendingSeig,
     held |-> <<SampleOf(p)>>, heldSenc |-> SencOf(p), heldSeig |-> SeigOf(p)]

(* Replacing the entry of a function twice, the second time by the first.  *)
LEMMA Restored ==
    ASSUME NEW S, NEW T, NEW f \in [S -> T], NEW s \in S, NEW x
    PROVE  [[f EXCEPT ![s] = x] EXCEPT ![s] = f[s]] = f
  OBVIOUS

LEMMA CadenceBatchIs ==
    ASSUME QueueInv, NEW p \in Packets, Admissible(p),
           ShouldFlush(PendingWith(p), p)
    PROVE  LET b == CadenceBatch(PendingWith(p), SencWith(p), SeigWith(p))
           IN  \/ b = WholeBatch(PendingWith(p), SencWith(p), SeigWith(p)) /\ Stays(p)
               \/ p.track = Anchor /\ b = HeldBatch(p)
  <1> DEFINE q == pending[Anchor]
             sc == pendingSenc[Anchor]
             sg == pendingSeig[Anchor]
  <1>1. CASE opts.cadence # "keyframe"
    BY <1>1 DEF CadenceBatch, Stays
  <1>2. CASE opts.cadence = "keyframe"
    <2>1. p.track = Anchor /\ p.key /\ Anchor \in Track
      BY <1>2, PacketFields DEF ShouldFlush
    <2>2. /\ pending \in [Track -> Seq(Sample)]
          /\ pendingSenc \in [Track -> Seq(AuxRecord)]
          /\ pendingSeig \in [Track -> Seq(SUBSET SeigGiven)]
          /\ TrackInStep(q, sc, sg)
      BY <2>1 DEF QueueInv, QueueTypes, QueuesInStep
    <2>3. q \in Seq(Sample) /\ sc \in Seq(AuxRecord) /\ sg \in Seq(SUBSET SeigGiven)
      BY <2>1, <2>2
    <2>4. SampleOf(p) \in Sample /\ SampleOf(p).key = TRUE
      BY <2>1, SampleTyped DEF QueueInv, SampleOf
    <2>5. /\ PendingWith(p)[Anchor] = Append(q, SampleOf(p))
          /\ SencWith(p)[Anchor] = sc \o SencOf(p)
          /\ SeigWith(p)[Anchor] = sg \o SeigOf(p)
      BY <2>1, <2>2 DEF PendingWith, SencWith, SeigWith
    <2>6. /\ Front(PendingWith(p)[Anchor]) = q
          /\ Last(PendingWith(p)[Anchor]) = SampleOf(p)
          /\ PendingWith(p)[Anchor] # <<>>
      <3> HIDE DEF q
      <3>1. /\ Front(Append(q, SampleOf(p))) = q
            /\ Last(Append(q, SampleOf(p))) = SampleOf(p)
            /\ Append(q, SampleOf(p)) # <<>>
        BY <2>3, <2>4, FrontOfAppend
      <3> QED
        BY <2>5, <3>1
    <2>7. [PendingWith(p) EXCEPT ![Anchor] = q] = pending
      BY <2>1, <2>2, Restored DEF PendingWith
    <2>8. CASE p.senc = {}
      <3>1. SencOf(p) = <<>> /\ SeigOf(p) = <<>> /\ sc = <<>>
        BY <2>1, <2>8 DEF SencOf, SeigOf, Admissible, SencAllowed
      <3>2. SencWith(p)[Anchor] = <<>> /\ sg = <<>>
        BY <2>2, <2>3, <2>5, <3>1, EmptyConcat DEF TrackInStep
      <3>3. SencWith(p) = pendingSenc /\ SeigWith(p) = pendingSeig
        BY <2>1, <2>2, <2>3, <3>1, EmptyConcat DEF SencWith, SeigWith
      <3>4. ~(Len(SencWith(p)[Anchor]) > Len(q))
        BY <2>3, <3>2
      <3>5. DetachKeyframe(PendingWith(p), SencWith(p), SeigWith(p)) = HeldBatch(p)
        BY <2>4, <2>6, <2>7, <3>1, <3>3, <3>4 DEF DetachKeyframe, HeldBatch
      <3> QED
        BY <1>2, <2>1, <3>5 DEF CadenceBatch
    <2>9. CASE p.senc # {}
      <3> DEFINE x == [of |-> packetsTotal[p.track] + 1,
                       iv |-> ValueOf(p.senc, {}).iv,
                       subs |-> ValueOf(p.senc, {}).subs]
      <3>1. SencOf(p) = <<x>> /\ SeigOf(p) = <<p.seig>>
        BY <2>9 DEF SencOf, SeigOf
      <3>2. Len(sc) = Len(q)
        BY <2>1, <2>9 DEF Admissible, SencAllowed
      <3>3. x \in AuxRecord /\ p.seig \in SUBSET SeigGiven
        <4>1. ValueOf(p.senc, {}) \in SencGiven
          BY <2>9, PacketFields, SomeValue
        <4>2. packetsTotal[p.track] + 1 \in Nat
          BY PacketFields DEF QueueInv, QueueTypes
        <4> QED
          BY <4>1, <4>2, PacketFields DEF SencGiven, AuxRecord
      <3> HIDE DEF x
      <3>4. /\ SencWith(p)[Anchor] = Append(sc, x)
            /\ SeigWith(p)[Anchor] = Append(sg, p.seig)
        BY <2>3, <2>5, <3>1, <3>3, AppendIsConcat
      <3>5. Len(SencWith(p)[Anchor]) > Len(q)
        BY <2>3, <3>2, <3>3, <3>4
      <3>6. /\ Front(SencWith(p)[Anchor]) = sc /\ Last(SencWith(p)[Anchor]) = x
            /\ SencWith(p)[Anchor] # <<>>
        <4> HIDE DEF sc
        <4>1. /\ Front(Append(sc, x)) = sc /\ Last(Append(sc, x)) = x
              /\ Append(sc, x) # <<>>
          BY <2>3, <3>3, FrontOfAppend
        <4> QED
          BY <3>4, <4>1
      <3>7. /\ Front(SeigWith(p)[Anchor]) = sg /\ Last(SeigWith(p)[Anchor]) = p.seig
            /\ SeigWith(p)[Anchor] # <<>>
        <4> HIDE DEF sg
        <4>1. /\ Front(Append(sg, p.seig)) = sg /\ Last(Append(sg, p.seig)) = p.seig
              /\ Append(sg, p.seig) # <<>>
          BY <2>3, <3>3, FrontOfAppend
        <4> QED
          BY <3>4, <4>1
      <3>8. /\ Trim(SencWith(p)[Anchor]) = sc
            /\ TakeLast(SencWith(p)[Anchor]) = SencOf(p)
            /\ Trim(SeigWith(p)[Anchor]) = sg
            /\ TakeLast(SeigWith(p)[Anchor]) = SeigOf(p)
        BY <3>1, <3>6, <3>7 DEF Trim, TakeLast
      <3>9. /\ [SencWith(p) EXCEPT ![Anchor] = sc] = pendingSenc
            /\ [SeigWith(p) EXCEPT ![Anchor] = sg] = pendingSeig
        BY <2>1, <2>2, Restored DEF SencWith, SeigWith
      <3>10. DetachKeyframe(PendingWith(p), SencWith(p), SeigWith(p)) = HeldBatch(p)
        <4>1. /\ [SencWith(p) EXCEPT ![Anchor] = Trim(@)] = pendingSenc
              /\ [SeigWith(p) EXCEPT ![Anchor] = Trim(@)] = pendingSeig
          BY <3>8, <3>9
        <4> QED
          BY <2>4, <2>6, <2>7, <3>5, <3>8, <4>1 DEF DetachKeyframe, HeldBatch
      <3> QED
        BY <1>2, <2>1, <3>10 DEF CadenceBatch
    <2> QED
      BY <2>8, <2>9
  <1> QED
    BY <1>1, <1>2

(***************************************************************************)
(* A flush.                                                                *)
(***************************************************************************)
(* It publishes the batch and leaves only what was held ...                *)
Publishes(b) ==
    /\ pending' = [Empty EXCEPT ![Anchor] = b.held]
    /\ pendingSenc' = [Empty EXCEPT ![Anchor] = b.heldSenc]
    /\ pendingSeig' = [Empty EXCEPT ![Anchor] = b.heldSeig]
    /\ published' = PublishedAfter(b)

(* ... or it fails and leaves the batch queued.                            *)
Keeps(b) ==
    /\ pending' = b.pending /\ pendingSenc' = b.senc /\ pendingSeig' = b.seig
    /\ published' = published

BatchInv(b) ==
    /\ BatchTyped(b.pending, b.senc, b.seig)
    /\ InStep(b.pending, b.senc, b.seig)
    /\ b.held \in Seq(Sample) /\ b.heldSenc \in Seq(AuxRecord)
    /\ b.heldSeig \in Seq(SUBSET SeigGiven)
    /\ TrackInStep(b.held, b.heldSenc, b.heldSeig)
    /\ Annotated(b.pending, b.senc)
    /\ Given(Anchor, b.held, b.heldSenc) /\ KeysOpen(Anchor, b.held)

LEMMA AnchorTrack == Anchor \in Track
  BY NumTracksAssumption DEF Anchor, Track

(* Only an empty queue is idle, and then nothing stands beside it.         *)
LEMMA IdleIsEmpty ==
    ASSUME NEW b, BatchInv(b), Idle(b)
    PROVE  b.pending = Empty /\ b.senc = Empty /\ b.seig = Empty
  <1>1. /\ b.pending \in [Track -> Seq(Sample)]
        /\ b.senc \in [Track -> Seq(AuxRecord)]
        /\ b.seig \in [Track -> Seq(SUBSET SeigGiven)]
    BY DEF BatchInv, BatchTyped
  <1>2. \A t \in Track : b.pending[t] = <<>> /\ TrackInStep(b.pending[t], b.senc[t], b.seig[t])
    BY DEF BatchInv, InStep, Idle
  <1>3. \A t \in Track : b.senc[t] = <<>> /\ b.seig[t] = <<>>
    <2> SUFFICES ASSUME NEW t \in Track PROVE b.senc[t] = <<>> /\ b.seig[t] = <<>>
      OBVIOUS
    <2>1. b.senc[t] \in Seq(AuxRecord) /\ b.seig[t] \in Seq(SUBSET SeigGiven)
      BY <1>1
    <2>2. b.senc[t] = <<>>
      <3>1. b.senc[t] # <<>> => Len(b.senc[t]) = 0
        BY <1>2 DEF TrackInStep
      <3> QED
        BY <2>1, <3>1
    <2>3. Len(b.seig[t]) = 0
      BY <1>2, <2>2 DEF TrackInStep
    <2> QED
      BY <2>1, <2>2, <2>3
  <1>4. b.pending = [t \in Track |-> b.pending[t]]
        /\ b.senc = [t \in Track |-> b.senc[t]] /\ b.seig = [t \in Track |-> b.seig[t]]
    BY <1>1
  <1> QED
    BY <1>2, <1>3, <1>4 DEF Empty

LEMMA DrainedIs ==
    ASSUME NEW b, BatchInv(b)
    PROVE  /\ Drained(b, b.pending) = Empty
           /\ Drained(b, b.senc) = Empty /\ Drained(b, b.seig) = Empty
  BY IdleIsEmpty DEF Drained

LEMMA RequeueEmpty ==
    ASSUME NEW S, NEW q \in Seq(S)
    PROVE  Requeue(Empty, q) = [Empty EXCEPT ![Anchor] = q]
  <1>1. <<>> \o q = q
    BY EmptyConcat
  <1>2. Empty[Anchor] = <<>>
    BY AnchorTrack DEF Empty
  <1> QED
    BY <1>1, <1>2 DEF Requeue

LEMMA EmptiedQueues ==
    ASSUME NEW b, BatchInv(b), EmptyQueues(b), published' = PublishedAfter(b)
    PROVE  Publishes(b)
  <1>1. /\ b.held \in Seq(Sample) /\ b.heldSenc \in Seq(AuxRecord)
        /\ b.heldSeig \in Seq(SUBSET SeigGiven)
    BY DEF BatchInv
  <1>2. /\ Requeue(Empty, b.held) = [Empty EXCEPT ![Anchor] = b.held]
        /\ Requeue(Empty, b.heldSenc) = [Empty EXCEPT ![Anchor] = b.heldSenc]
        /\ Requeue(Empty, b.heldSeig) = [Empty EXCEPT ![Anchor] = b.heldSeig]
    BY <1>1, RequeueEmpty
  <1> QED
    BY <1>2, DrainedIs DEF EmptyQueues, Publishes

LEMMA FlushBreaksKeeps == \A b : FlushBreaks(b) => Keeps(b)
  BY DEF FlushBreaks, FlushRejected, FlushCut, FlushFails, Keeps

LEMMA FlushOutcome ==
    ASSUME NEW b, BatchInv(b), Flush(b)
    PROVE  Publishes(b) \/ Keeps(b)
  BY EmptiedQueues, FlushBreaksKeeps DEF Flush, FlushDone

LEMMA PublishedTyped ==
    ASSUME NEW b, BatchInv(b), published \in [Track -> Seq(Sample)]
    PROVE  PublishedAfter(b) \in [Track -> Seq(Sample)]
  <1>1. \A t \in Track : published[t] \o b.pending[t] \in Seq(Sample)
    BY DEF BatchInv, BatchTyped
  <1> QED
    BY <1>1 DEF PublishedAfter

(* Whichever way it goes, the queues stay typed and in step.               *)
LEMMA OutcomeInv ==
    ASSUME NEW b, BatchInv(b), published \in [Track -> Seq(Sample)],
           Publishes(b) \/ Keeps(b)
    PROVE  /\ BatchTyped(pending', pendingSenc', pendingSeig')
           /\ InStep(pending', pendingSenc', pendingSeig')
           /\ Annotated(pending', pendingSenc')
           /\ published' \in [Track -> Seq(Sample)]
  <1>1. CASE Keeps(b)
    BY <1>1 DEF Keeps, BatchInv
  <1>2. CASE Publishes(b)
    <2>1. /\ b.held \in Seq(Sample) /\ b.heldSenc \in Seq(AuxRecord)
          /\ b.heldSeig \in Seq(SUBSET SeigGiven)
          /\ TrackInStep(b.held, b.heldSenc, b.heldSeig)
      BY DEF BatchInv
    <2>2. <<>> \in Seq(Sample) /\ <<>> \in Seq(AuxRecord) /\ <<>> \in Seq(SUBSET SeigGiven)
      OBVIOUS
    <2>3. BatchTyped(pending', pendingSenc', pendingSeig')
      BY <1>2, <2>1, <2>2 DEF Publishes, BatchTyped, Empty
    <2>4. \A t \in Track :
            /\ pending'[t] = IF t = Anchor THEN b.held ELSE <<>>
            /\ pendingSenc'[t] = IF t = Anchor THEN b.heldSenc ELSE <<>>
            /\ pendingSeig'[t] = IF t = Anchor THEN b.heldSeig ELSE <<>>
      BY <1>2 DEF Publishes, Empty
    <2>5. InStep(pending', pendingSenc', pendingSeig')
      BY <2>1, <2>4, EmptyInStep DEF InStep
    <2>6. published' \in [Track -> Seq(Sample)]
      BY <1>2, PublishedTyped DEF Publishes
    <2>7. Annotated(pending', pendingSenc')
      <3>1. Given(Anchor, b.held, b.heldSenc) /\ KeysOpen(Anchor, b.held)
        BY DEF BatchInv
      <3> QED
        BY <2>4, <3>1, EmptyGiven DEF Annotated
    <2> QED
      BY <2>3, <2>5, <2>6, <2>7
  <1> QED
    BY <1>1, <1>2

(* The three batches a flush is ever given.                                *)
LEMMA QueuedInv == QueueInv => BatchInv(Queued)
  <1>1. /\ <<>> \in Seq(Sample) /\ <<>> \in Seq(AuxRecord)
        /\ <<>> \in Seq(SUBSET SeigGiven)
    OBVIOUS
  <1> QED
    BY <1>1, EmptyInStep, EmptyGiven DEF QueueInv, QueueTypes, QueuesInStep, BatchInv,
       BatchTyped, InStep, Queued, WholeBatch

LEMMA WholeInv ==
    ASSUME QueueInv, NEW p \in Packets, Admissible(p), Stays(p)
    PROVE  BatchInv(WholeBatch(PendingWith(p), SencWith(p), SeigWith(p)))
  <1>1. /\ <<>> \in Seq(Sample) /\ <<>> \in Seq(AuxRecord)
        /\ <<>> \in Seq(SUBSET SeigGiven)
    OBVIOUS
  <1> QED
    BY <1>1, PacketJoins, PacketAnnotated, EmptyInStep, EmptyGiven DEF BatchInv, WholeBatch

LEMMA HeldInv ==
    ASSUME QueueInv, NEW p \in Packets, Admissible(p), p.track = Anchor
    PROVE  BatchInv(HeldBatch(p))
  <1>1. /\ BatchTyped(pending, pendingSenc, pendingSeig)
        /\ InStep(pending, pendingSenc, pendingSeig)
    BY DEF QueueInv, QueueTypes, QueuesInStep, BatchTyped, InStep
  <1>2. /\ SampleOf(p) \in Sample /\ SampleOf(p).id = packetsTotal[p.track] + 1
        /\ SencOf(p) \in Seq(AuxRecord) /\ SeigOf(p) \in Seq(SUBSET SeigGiven)
    BY SampleTyped DEF QueueInv
  <1>3. <<SampleOf(p)>> \in Seq(Sample)
    BY <1>2
  <1>4. TrackInStep(<<SampleOf(p)>>, SencOf(p), SeigOf(p))
    <2>1. CASE p.senc = {}
      BY <2>1, EmptyInStep DEF SencOf, SeigOf
    <2>2. CASE p.senc # {}
      <3>1. SampleOf(p).given.seig = p.seig
        BY <2>2 DEF SampleOf
      <3>2. /\ Len(SencOf(p)) = 1 /\ Len(SeigOf(p)) = 1
            /\ SencOf(p)[1].of = packetsTotal[p.track] + 1 /\ SeigOf(p)[1] = p.seig
            /\ DOMAIN SencOf(p) = 1..1
        BY <2>2 DEF SencOf, SeigOf
      <3>3. \A k \in DOMAIN SencOf(p) : k = 1
        BY <3>2
      <3> DEFINE q == <<SampleOf(p)>>
      <3>4. Len(q) = 1 /\ q[1] = SampleOf(p)
        OBVIOUS
      <3> HIDE DEF q
      <3>5. TrackInStep(q, SencOf(p), SeigOf(p))
        BY <1>2, <3>1, <3>2, <3>3, <3>4 DEF TrackInStep
      <3> QED
        BY <3>5 DEF q
    <2> QED
      BY <2>1, <2>2
  <1>5. Annotated(pending, pendingSenc)
    BY DEF QueueInv
  <1>6. Given(Anchor, <<SampleOf(p)>>, SencOf(p)) /\ KeysOpen(Anchor, <<SampleOf(p)>>)
    <2> DEFINE e == <<>>
               s == SampleOf(p)
    <2>1. e \in Seq(Sample) /\ e \in Seq(AuxRecord) /\ Len(e) = 0 /\ Append(e, s) = <<s>>
      OBVIOUS
    <2>2. Given(Anchor, e, e) /\ s \in Sample /\ \A x, y \in s.given.seig : x = y
      BY <1>2, EmptyGiven, SampleSays
    <2>3. \A x : Append(e, x) = <<x>>
      OBVIOUS
    <2>4. Given(Anchor, <<s>>, SencOf(p))
      <3>1. CASE p.senc = {}
        <4>1. s.given.senc = {} /\ s.given.seig = {} /\ SencOf(p) = e
          BY <3>1, SampleSays
        <4> HIDE DEF s
        <4>2. Given(Anchor, Append(e, s), <<>>)
          BY <2>1, <2>2, <4>1, AppendGiven DEF e
        <4> QED
          BY <2>3, <4>1, <4>2
      <3>2. CASE p.senc # {}
        <4>1. PICK x \in AuxRecord : SencOf(p) = <<x>> /\ Says(Anchor, s, x)
          BY <3>2, SampleSays
        <4> HIDE DEF s, e
        <4>2. Given(Anchor, Append(e, s), Append(e, x))
          BY <2>1, <2>2, <4>1, AppendGiven
        <4> QED
          BY <2>3, <4>1, <4>2
      <3> QED
        BY <3>1, <3>2
    <2> DEFINE u == <<s>>
    <2>5. \A k \in 1..Len(u) : k = 1
      OBVIOUS
    <2> HIDE DEF u
    <2>6. KeysOpen(Anchor, u)
      BY <2>5 DEF KeysOpen
    <2> QED
      BY <2>4, <2>6 DEF u
  <1> QED
    BY <1>1, <1>2, <1>3, <1>4, <1>5, <1>6 DEF BatchInv, HeldBatch

(***************************************************************************)
(* The calls.                                                              *)
(***************************************************************************)
(* What a packet does to the queues and to what is published.              *)
Joins(p) == Keeps(WholeBatch(PendingWith(p), SencWith(p), SeigWith(p)))

LEMMA PacketOutcome ==
    ASSUME QueueInv, NEW p \in Packets, QueuePacket(p)
    PROVE  \/ Joins(p) /\ Stays(p)
           \/ Publishes(WholeBatch(PendingWith(p), SencWith(p), SeigWith(p))) /\ Stays(p)
           \/ /\ p.track = Anchor
              /\ Publishes(HeldBatch(p)) \/ Keeps(HeldBatch(p))
  <1>1. Admissible(p)
    BY DEF QueuePacket
  <1>2. CASE ~ShouldFlush(PendingWith(p), p)
    BY <1>2 DEF QueuePacket, Joins, Keeps, WholeBatch, output, Stays
  <1>3. CASE ShouldFlush(PendingWith(p), p)
    <2> DEFINE b == CadenceBatch(PendingWith(p), SencWith(p), SeigWith(p))
               w == WholeBatch(PendingWith(p), SencWith(p), SeigWith(p))
    <2>1. Flush(b)
      BY <1>3 DEF QueuePacket
    <2>2. (b = w /\ Stays(p)) \/ (p.track = Anchor /\ b = HeldBatch(p))
      BY <1>1, <1>3, CadenceBatchIs
    <2>3. /\ Stays(p) => BatchInv(w)
          /\ p.track = Anchor => BatchInv(HeldBatch(p))
      BY <1>1, WholeInv, HeldInv
    <2> HIDE DEF b, w
    <2>4. Publishes(b) \/ Keeps(b)
      BY <2>1, <2>2, <2>3, FlushOutcome
    <2>5. (Keeps(w) => Joins(p))
      BY DEF w, Joins
    <2> QED
      BY <2>2, <2>4, <2>5 DEF w
  <1> QED
    BY <1>2, <1>3

(* The calls that flush what is queued.                                    *)
FlushingCall ==
    \/ FlushFragment
    \/ \E t \in Track, d \in GapDurations : InsertEmptyTime(t, d)
    \/ WriteTrailer

LEMMA FlushingOutcome ==
    ASSUME QueueInv, FlushingCall
    PROVE  /\ Publishes(Queued) \/ Keeps(Queued)
           /\ UNCHANGED <<opts, headerWritten, prevPts, packetsTotal>>
  <1>1. BatchInv(Queued)
    BY QueuedInv
  <1>2. CASE FlushFragment
    BY <1>1, <1>2, FlushOutcome DEF FlushFragment
  <1>3. \A extra, seq, bmdt : FlushThen(extra, seq, bmdt) => Publishes(Queued)
    BY <1>1, EmptiedQueues DEF FlushThen
  <1>4. ASSUME NEW t \in Track, NEW d \in GapDurations, InsertEmptyTime(t, d)
        PROVE  /\ Publishes(Queued) \/ Keeps(Queued)
               /\ UNCHANGED <<opts, headerWritten, prevPts, packetsTotal>>
    BY <1>3, <1>4, FlushBreaksKeeps DEF InsertEmptyTime
  <1>5. CASE WriteTrailer
    <2>1. UNCHANGED <<opts, headerWritten, prevPts, packetsTotal>>
      BY <1>5 DEF WriteTrailer
    <2>2. TrailerDone => Publishes(Queued)
      BY <1>1, EmptiedQueues DEF TrailerDone
    <2>3. TrailerCut => Publishes(Queued)
      BY <1>3 DEF TrailerCut
    <2> QED
      BY <1>5, <2>1, <2>2, <2>3, FlushBreaksKeeps DEF WriteTrailer
  <1> QED
    BY <1>2, <1>4, <1>5 DEF FlushingCall

(* The calls that leave the queues alone.                                  *)
QuietCall ==
    \/ HeaderFails
    \/ \E size \in StypSizes : SetStyp(size)
    \/ \E size \in PrftSizes : SetPrft(size)
    \/ \E x \in PsshBoxes : SetPssh(x)
    \/ \E x \in EmsgBoxes : SetEmsg(x)
    \/ UNCHANGED vars

LEMMA QuietOutcome ==
    QuietCall =>
        UNCHANGED <<opts, headerWritten, packetsTotal, prevPts, pending,
                    pendingSenc, pendingSeig, published>>
  BY DEF QuietCall, HeaderFails, SetStyp, SetPrft, SetPssh, SetEmsg, Ask, vars,
     queues, output

LEMMA StepIsACall ==
    [Next]_vars =>
        \/ WriteHeader \/ QuietCall \/ FlushingCall
        \/ \E p \in Packets : QueuePacket(p)
  BY DEF Next, QuietCall, FlushingCall

(***************************************************************************)
(* The queues are typed, and the CENC queues in step, in every state.      *)
(***************************************************************************)
LEMMA QueueInvInit == Init => QueueInv
  <1> SUFFICES ASSUME Init PROVE QueueInv
    OBVIOUS
  <1>1. /\ <<>> \in Seq(Sample) /\ <<>> \in Seq(AuxRecord)
        /\ <<>> \in Seq(SUBSET SeigGiven)
    OBVIOUS
  <1>2. QueueTypes
    BY <1>1 DEF Init, Empty, QueueTypes
  <1>3. QueuesInStep /\ Annotated(pending, pendingSenc)
    BY EmptyInStep, EmptyGiven DEF Init, Empty, QueuesInStep, Annotated
  <1> QED
    BY <1>2, <1>3 DEF QueueInv

(* The annotations depend on the options, which never change.              *)
LEMMA SameAnnotated ==
    UNCHANGED opts /\ Annotated(pending', pendingSenc') => Annotated(pending, pendingSenc)'
  BY DEF Annotated, Given, KeysOpen, Says, Width

LEMMA PacketInv ==
    ASSUME QueueInv, NEW p \in Packets, QueuePacket(p)
    PROVE  QueueInv'
  <1>1. /\ opts' = opts /\ headerWritten' = headerWritten
        /\ packetsTotal' = [packetsTotal EXCEPT ![p.track] = @ + 1]
        /\ prevPts' = [prevPts EXCEPT ![p.track] = PrevPtsAfter(p)]
        /\ Admissible(p)
    BY DEF QueuePacket
  <1>2. /\ packetsTotal' \in [Track -> Nat] /\ prevPts' \in [Track -> SUBSET Int]
        /\ opts' \in Options /\ headerWritten' \in BOOLEAN
        /\ published \in [Track -> Seq(Sample)]
    BY <1>1, PacketFields, TimingTyped DEF QueueInv, QueueTypes
  <1>3. /\ BatchTyped(pending', pendingSenc', pendingSeig')
        /\ InStep(pending', pendingSenc', pendingSeig')
        /\ Annotated(pending', pendingSenc')
        /\ published' \in [Track -> Seq(Sample)]
    BY <1>1, <1>2, PacketOutcome, WholeInv, HeldInv, OutcomeInv DEF Joins
  <1>4. Annotated(pending, pendingSenc)'
    BY <1>1, <1>3, SameAnnotated
  <1> QED
    BY <1>2, <1>3, <1>4 DEF BatchTyped, InStep, QueueInv, QueueTypes, QueuesInStep

LEMMA FlushingInv ==
    ASSUME QueueInv, FlushingCall
    PROVE  QueueInv'
  <1>1. /\ Publishes(Queued) \/ Keeps(Queued)
        /\ UNCHANGED <<opts, headerWritten, prevPts, packetsTotal>>
    BY FlushingOutcome
  <1>2. published \in [Track -> Seq(Sample)]
    BY DEF QueueInv, QueueTypes
  <1>3. /\ BatchTyped(pending', pendingSenc', pendingSeig')
        /\ InStep(pending', pendingSenc', pendingSeig')
        /\ Annotated(pending', pendingSenc')
        /\ published' \in [Track -> Seq(Sample)]
    BY <1>1, <1>2, QueuedInv, OutcomeInv
  <1>4. Annotated(pending, pendingSenc)'
    BY <1>1, <1>3, SameAnnotated
  <1> QED
    BY <1>1, <1>3, <1>4 DEF BatchTyped, InStep, QueueInv, QueueTypes, QueuesInStep

LEMMA QueueInvNext == QueueInv /\ [Next]_vars => QueueInv'
  <1> SUFFICES ASSUME QueueInv, [Next]_vars PROVE QueueInv'
    OBVIOUS
  <1>1. CASE WriteHeader
    BY <1>1, SameAnnotated DEF WriteHeader, queues, QueueInv, QueueTypes, QueuesInStep
  <1>2. CASE QuietCall
    BY <1>2, QuietOutcome, SameAnnotated DEF QueueInv, QueueTypes, QueuesInStep
  <1>3. CASE FlushingCall
    BY <1>3, FlushingInv
  <1>4. CASE \E p \in Packets : QueuePacket(p)
    BY <1>4, PacketInv
  <1> QED
    BY <1>1, <1>2, <1>3, <1>4, StepIsACall

LEMMA QueueInvAlways == Spec => []QueueInv
  BY QueueInvInit, QueueInvNext, PTL DEF Spec

(* The queues of FragTrackState hold what their types say in every         *)
(* reachable state: samples with a positive duration, their auxiliary      *)
(* records and key-rotation overrides.                                     *)
THEOREM QueuesTyped == Spec => []QueueTypes
  <1>1. QueueInv => QueueTypes
    BY DEF QueueInv
  <1> QED
    BY <1>1, QueueInvAlways, PTL

(* The CENC queues stay parallel to the sample queue: through the detach   *)
(* and replay of a keyframe in flush_fragment_inner, gaps, the trailer and *)
(* every failing call.                                                     *)
THEOREM CencInStep == Spec => []QueuesInStep
  <1>1. QueueInv => QueuesInStep
    BY DEF QueueInv
  <1> QED
    BY <1>1, QueueInvAlways, PTL

(***************************************************************************)
(* The muxer implements the log of SegmentStream.                          *)
(***************************************************************************)
Waits == [t \in Track |-> Ids(pending[t])]
Logged == [t \in Track |-> Ids(published[t])]

LEMMA EmptyIds == Ids(<<>>) = <<>>
  BY DEF Ids

LEMMA IdsOfEmpty == [t \in Track |-> Ids(Empty[t])] = [t \in Track |-> <<>>]
  BY EmptyIds DEF Empty

(* A batch is published, and something may stay behind on the anchor.      *)
LEMMA PublishesLogs ==
    ASSUME NEW b, BatchInv(b), published \in [Track -> Seq(Sample)], Publishes(b)
    PROVE  /\ Waits' = [[t \in Track |-> <<>>] EXCEPT ![Anchor] = Ids(b.held)]
           /\ Logged' = [t \in Track |-> Ids(published[t]) \o Ids(b.pending[t])]
  <1>1. \A t \in Track : Ids(published[t] \o b.pending[t])
                           = Ids(published[t]) \o Ids(b.pending[t])
    BY IdsConcat DEF BatchInv, BatchTyped
  <1>2. Logged' = [t \in Track |-> Ids(published[t]) \o Ids(b.pending[t])]
    BY <1>1 DEF Publishes, PublishedAfter, Logged
  <1>3. \A t \in Track : pending'[t] = IF t = Anchor THEN b.held ELSE <<>>
    BY DEF Publishes, Empty
  <1>4. Waits' = [[t \in Track |-> <<>>] EXCEPT ![Anchor] = Ids(b.held)]
    BY <1>3, EmptyIds DEF Waits
  <1> QED
    BY <1>2, <1>4

LEMMA KeepsLogs ==
    ASSUME NEW b, Keeps(b)
    PROVE  Waits' = [t \in Track |-> Ids(b.pending[t])] /\ Logged' = Logged
  BY DEF Keeps, Waits, Logged

(* The packet p, queued, is the next number.                               *)
LEMMA JoinedIds ==
    ASSUME QueueInv, NEW p \in Packets
    PROVE  [t \in Track |-> Ids(PendingWith(p)[t])]
             = [Waits EXCEPT ![p.track] = Append(@, packetsTotal[p.track] + 1)]
  <1>1. /\ SampleOf(p) \in Sample /\ SampleOf(p).id = packetsTotal[p.track] + 1
        /\ pending \in [Track -> Seq(Sample)] /\ p.track \in Track
    BY SampleTyped, PacketFields DEF QueueInv, QueueTypes
  <1>2. Ids(Append(pending[p.track], SampleOf(p)))
          = Append(Ids(pending[p.track]), packetsTotal[p.track] + 1)
    BY <1>1, IdsAppend
  <1>3. \A t \in Track :
          PendingWith(p)[t] = IF t = p.track THEN Append(pending[t], SampleOf(p))
                              ELSE pending[t]
    BY <1>1 DEF PendingWith
  <1> QED
    BY <1>1, <1>2, <1>3 DEF Waits

LEMMA AbsDefs ==
    /\ ABS!Nothing = [t \in Track |-> <<>>]
    /\ \A w : ABS!Extended(w) = [t \in Track |-> Logged[t] \o w[t]]
    /\ \A t : ABS!Joined(t) = [Waits EXCEPT ![t] = Append(@, packetsTotal[t] + 1)]
  BY DEF ABS!Nothing, ABS!Extended, ABS!Joined, Waits, Logged

(* The steps of the log, in terms of the muxer.                            *)
LEMMA AbsAccept ==
    ASSUME NEW t, headerWritten, UNCHANGED headerWritten,
           packetsTotal' = [packetsTotal EXCEPT ![t] = @ + 1],
           \/ Waits' = ABS!Joined(t) /\ Logged' = Logged
           \/ Waits' = ABS!Nothing /\ Logged' = ABS!Extended(ABS!Joined(t))
           \/ /\ t = Anchor
              /\ Waits' = [ABS!Nothing EXCEPT ![Anchor] = <<packetsTotal[t] + 1>>]
              /\ Logged' = ABS!Extended(Waits)
           \/ t = Anchor /\ Waits' = Waits /\ Logged' = Logged
    PROVE  ABS!Accept(t)
  BY DEF ABS!Accept, Waits, Logged

LEMMA AbsPublish ==
    ASSUME UNCHANGED <<headerWritten, packetsTotal>>,
           Waits' = ABS!Nothing, Logged' = ABS!Extended(Waits)
    PROVE  ABS!Publish
  BY DEF ABS!Publish, Waits, Logged

LEMMA AbsStutter ==
    ASSUME UNCHANGED <<headerWritten, packetsTotal>>,
           Waits' = Waits, Logged' = Logged
    PROVE  UNCHANGED ABS!streamVars
  BY DEF ABS!streamVars, Waits, Logged

LEMMA AbsInit == Init => ABS!StreamInit
  BY IdsOfEmpty DEF Init, ABS!StreamInit, ABS!Nothing

LEMMA PacketIsAccept ==
    ASSUME QueueInv, NEW p \in Packets, QueuePacket(p)
    PROVE  ABS!Accept(p.track)
  <1> DEFINE t == p.track
             w == WholeBatch(PendingWith(p), SencWith(p), SeigWith(p))
             h == HeldBatch(p)
  <1>1. /\ Admissible(p) /\ UNCHANGED headerWritten
        /\ packetsTotal' = [packetsTotal EXCEPT ![t] = @ + 1]
    BY DEF QueuePacket
  <1>2. headerWritten
    BY <1>1 DEF Admissible
  <1>3. /\ published \in [Track -> Seq(Sample)] /\ SampleOf(p) \in Sample
        /\ SampleOf(p).id = packetsTotal[t] + 1
    BY SampleTyped DEF QueueInv, QueueTypes
  <1>4. /\ Stays(p) => BatchInv(w)
        /\ t = Anchor => BatchInv(h)
    BY <1>1, WholeInv, HeldInv
  <1>5. /\ w.pending = PendingWith(p) /\ w.held = <<>>
        /\ h.pending = pending /\ h.held = <<SampleOf(p)>>
    BY DEF WholeBatch, HeldBatch
  <1>6. [u \in Track |-> Ids(PendingWith(p)[u])] = ABS!Joined(t)
    BY JoinedIds, AbsDefs
  <1>7. Ids(<<SampleOf(p)>>) = <<packetsTotal[t] + 1>>
    BY <1>3 DEF Ids
  <1>8. Joins(p) \/ (Publishes(w) /\ Stays(p)) \/ (t = Anchor /\ (Publishes(h) \/ Keeps(h)))
    BY PacketOutcome
  <1> HIDE DEF w, h
  <1>9. CASE Joins(p)
    <2>1. Keeps(w)
      BY <1>9 DEF Joins, w
    <2>2. Waits' = ABS!Joined(t) /\ Logged' = Logged
      BY <2>1, <1>5, <1>6, KeepsLogs
    <2> QED
      BY <2>2, <1>1, <1>2, AbsAccept
  <1>10. CASE Publishes(w) /\ Stays(p)
    <2>1. /\ Waits' = [[u \in Track |-> <<>>] EXCEPT ![Anchor] = Ids(w.held)]
          /\ Logged' = [u \in Track |-> Ids(published[u]) \o Ids(w.pending[u])]
      BY <1>3, <1>4, <1>10, PublishesLogs
    <2>2. [[u \in Track |-> <<>>] EXCEPT ![Anchor] = Ids(w.held)] = [u \in Track |-> <<>>]
      BY <1>5, EmptyIds
    <2>3. Waits' = ABS!Nothing
      BY <2>1, <2>2, AbsDefs
    <2>4. Logged' = ABS!Extended([u \in Track |-> Ids(PendingWith(p)[u])])
      BY <2>1, <1>5, AbsDefs DEF Logged
    <2> QED
      BY <2>3, <2>4, <1>1, <1>2, <1>6, AbsAccept
  <1>11. CASE t = Anchor /\ Publishes(h)
    <2>1. /\ Waits' = [[u \in Track |-> <<>>] EXCEPT ![Anchor] = Ids(h.held)]
          /\ Logged' = [u \in Track |-> Ids(published[u]) \o Ids(h.pending[u])]
      BY <1>3, <1>4, <1>11, PublishesLogs
    <2>2. Waits' = [ABS!Nothing EXCEPT ![Anchor] = <<packetsTotal[t] + 1>>]
      BY <2>1, <1>5, <1>7, AbsDefs
    <2>3. Logged' = ABS!Extended(Waits)
      BY <2>1, <1>5, AbsDefs DEF Logged, Waits
    <2> QED
      BY <2>2, <2>3, <1>1, <1>2, <1>11, AbsAccept
  <1>12. CASE t = Anchor /\ Keeps(h)
    <2>1. Waits' = Waits /\ Logged' = Logged
      BY <1>5, <1>12, KeepsLogs DEF Waits
    <2> QED
      BY <2>1, <1>1, <1>2, <1>12, AbsAccept
  <1> QED
    BY <1>8, <1>9, <1>10, <1>11, <1>12

LEMMA FlushingIsPublish ==
    ASSUME QueueInv, FlushingCall
    PROVE  ABS!Publish \/ UNCHANGED ABS!streamVars
  <1>1. /\ Publishes(Queued) \/ Keeps(Queued)
        /\ UNCHANGED <<headerWritten, packetsTotal>>
    BY FlushingOutcome
  <1>2. Queued.pending = pending /\ Queued.held = <<>>
    BY DEF Queued, WholeBatch
  <1>3. CASE Publishes(Queued)
    <2>1. published \in [Track -> Seq(Sample)] /\ BatchInv(Queued)
      BY QueuedInv DEF QueueInv, QueueTypes
    <2>2. /\ Waits' = [[u \in Track |-> <<>>] EXCEPT ![Anchor] = Ids(Queued.held)]
          /\ Logged' = [u \in Track |-> Ids(published[u]) \o Ids(Queued.pending[u])]
      BY <1>3, <2>1, PublishesLogs
    <2>3. [[u \in Track |-> <<>>] EXCEPT ![Anchor] = Ids(Queued.held)]
            = [u \in Track |-> <<>>]
      BY <1>2, EmptyIds
    <2>4. Waits' = ABS!Nothing
      BY <2>2, <2>3, AbsDefs
    <2>5. Logged' = ABS!Extended(Waits)
      BY <2>2, <1>2, AbsDefs DEF Logged, Waits
    <2> QED
      BY <1>1, <2>4, <2>5, AbsPublish
  <1>4. CASE Keeps(Queued)
    <2>1. Waits' = Waits /\ Logged' = Logged
      BY <1>2, <1>4, KeepsLogs DEF Waits
    <2> QED
      BY <1>1, <2>1, AbsStutter
  <1> QED
    BY <1>1, <1>3, <1>4

LEMMA AbsStep == QueueInv /\ [Next]_vars => [ABS!StreamNext]_(ABS!streamVars)
  <1> SUFFICES ASSUME QueueInv, [Next]_vars
               PROVE  ABS!StreamNext \/ UNCHANGED ABS!streamVars
    OBVIOUS
  <1>1. CASE WriteHeader
    <2>1. ~headerWritten /\ headerWritten' = TRUE
          /\ UNCHANGED <<packetsTotal, pending, published>>
      BY <1>1 DEF WriteHeader, queues
    <2>2. ABS!Open
      BY <2>1 DEF ABS!Open
    <2> QED
      BY <2>2 DEF ABS!StreamNext
  <1>2. CASE QuietCall
    BY <1>2, QuietOutcome DEF ABS!streamVars
  <1>3. CASE FlushingCall
    BY <1>3, FlushingIsPublish DEF ABS!StreamNext
  <1>4. CASE \E p \in Packets : QueuePacket(p)
    BY <1>4, PacketIsAccept, PacketFields DEF ABS!StreamNext
  <1> QED
    BY <1>1, <1>2, <1>3, <1>4, StepIsACall

(* Every call of FragmentedMuxer is a step of the log or none: a packet    *)
(* joins, a flush publishes everything that waits or holds back the        *)
(* packet that caused it, a failing flush leaves the log as it was and     *)
(* loses at most that packet.                                              *)
THEOREM MuxerIsStream == Spec => IsSegmentStream
  <1>1. Init => ABS!StreamInit
    BY AbsInit
  <1> QED
    BY <1>1, AbsStep, QueueInvAlways, PTL DEF Spec, IsSegmentStream, ABS!StreamSpec

(***************************************************************************)
(* So what is proved of the log holds of the muxer.                        *)
(***************************************************************************)
Stream == INSTANCE SegmentStreamProofs
            WITH ready <- headerWritten, accepted <- packetsTotal,
                 waiting <- [t \in Track |-> Ids(pending[t])],
                 log <- [t \in Track |-> Ids(published[t])]

LEMMA StreamIsAbs ==
    /\ ABS!StreamInit => Stream!StreamInit
    /\ [ABS!StreamNext]_(ABS!streamVars) => [Stream!StreamNext]_(Stream!streamVars)
  BY DEF ABS!StreamInit, ABS!StreamNext, ABS!streamVars, ABS!Open, ABS!Publish,
     ABS!Accept, ABS!Nothing, ABS!Joined, ABS!Extended,
     Stream!StreamInit, Stream!StreamNext, Stream!streamVars, Stream!Open,
     Stream!Publish, Stream!Accept, Stream!Nothing, Stream!Joined, Stream!Extended

(* In the muxer's own account of a track, what it has published followed by *)
(* what is pending, the samples are in the order they were accepted, and    *)
(* none twice, whatever cadence, gap, flush or failure comes between.       *)
THEOREM SamplesInOrder == Spec => []InOrder
  <1>1. Spec => []Stream!StreamInOrder
    <2>1. Spec => Stream!StreamSpec
      BY StreamIsAbs, MuxerIsStream, PTL DEF IsSegmentStream, ABS!StreamSpec,
         Stream!StreamSpec
    <2> QED
      BY <2>1, Stream!StreamIsOrdered, PTL
  <1>2. QueueInv /\ Stream!StreamInOrder => InOrder
    <2> SUFFICES ASSUME QueueInv, Stream!StreamInOrder, NEW t \in Track
                 PROVE  LET ids == Accounted(t)
                        IN  /\ \A k \in DOMAIN ids : ids[k] \in 1..packetsTotal[t]
                            /\ \A j, k \in DOMAIN ids : j < k => ids[j] < ids[k]
      BY DEF InOrder
    <2>1. pending[t] \in Seq(Sample) /\ published[t] \in Seq(Sample)
      BY DEF QueueInv, QueueTypes
    <2>2. /\ Accounted(t) = Ids(published[t]) \o Ids(pending[t])
          /\ Accounted(t) \in Seq(Nat)
      <3>1. Accounted(t) = Ids(published[t]) \o Ids(pending[t])
        BY <2>1, IdsConcat DEF Accounted
      <3>2. Ids(published[t]) \in Seq(Nat) /\ Ids(pending[t]) \in Seq(Nat)
        BY <2>1, IdsOf
      <3> QED
        BY <3>1, <3>2
    <2>3. DOMAIN Accounted(t) = 1..Len(Accounted(t))
      BY <2>2
    <2> QED
      BY <2>2, <2>3 DEF Stream!StreamInOrder
  <1> QED
    BY <1>1, <1>2, QueueInvAlways, PTL

(***************************************************************************)
(* Nothing is dropped unless a cadence holds keyframes back.               *)
(***************************************************************************)
Counted(n) == [k \in 1..n |-> k]
AllThere == \A t \in Track : Logged[t] \o Waits[t] = Counted(packetsTotal[t])
KeptInv == opts.cadence # "keyframe" => AllThere

LEMMA CountedNext ==
    ASSUME NEW n \in Nat
    PROVE  /\ Counted(n) \in Seq(Nat) /\ Len(Counted(n)) = n
           /\ Append(Counted(n), n + 1) = Counted(n + 1)
  <1> DEFINE c == Counted(n)
             d == Counted(n + 1)
             a == Append(c, n + 1)
  <1>1. c \in Seq(Nat) /\ Len(c) = n /\ \A k \in 1..n : c[k] = k
    BY DEF Counted
  <1>2. d \in Seq(Nat) /\ Len(d) = n + 1 /\ \A k \in 1..(n + 1) : d[k] = k
    BY DEF Counted
  <1> HIDE DEF c, d
  <1>3. /\ a \in Seq(Nat) /\ Len(a) = n + 1
        /\ \A k \in 1..n : a[k] = c[k]
        /\ a[n + 1] = n + 1
    BY <1>1, AppendProperties
  <1>4. \A k \in 1..Len(a) : a[k] = d[k]
    BY <1>1, <1>2, <1>3
  <1>5. a = d
    BY <1>2, <1>3, <1>4, SeqEqual
  <1> QED
    BY <1>1, <1>5 DEF c, d

LEMMA ConcatAppend ==
    ASSUME NEW S, NEW a \in Seq(S), NEW b \in Seq(S), NEW x \in S
    PROVE  a \o Append(b, x) = Append(a \o b, x)
  OBVIOUS

LEMMA LogsTyped ==
    ASSUME QueueInv, NEW t \in Track
    PROVE  Logged[t] \in Seq(Nat) /\ Waits[t] \in Seq(Nat)
  <1>1. pending[t] \in Seq(Sample) /\ published[t] \in Seq(Sample)
    BY DEF QueueInv, QueueTypes
  <1> QED
    BY <1>1, IdsOf DEF Logged, Waits

(* Without a detach, a packet joins or everything is published with it.    *)
LEMMA PacketWhole ==
    ASSUME QueueInv, NEW p \in Packets, QueuePacket(p), opts.cadence # "keyframe"
    PROVE  \/ Joins(p)
           \/ Publishes(WholeBatch(PendingWith(p), SencWith(p), SeigWith(p)))
  <1>1. Admissible(p)
    BY DEF QueuePacket
  <1>2. CASE ~ShouldFlush(PendingWith(p), p)
    BY <1>2 DEF QueuePacket, Joins, Keeps, WholeBatch, output
  <1>3. CASE ShouldFlush(PendingWith(p), p)
    <2>1. Flush(WholeBatch(PendingWith(p), SencWith(p), SeigWith(p)))
      BY <1>3 DEF QueuePacket, CadenceBatch
    <2> QED
      BY <2>1, <1>1, WholeInv, FlushOutcome DEF Joins, Stays
  <1> QED
    BY <1>2, <1>3

LEMMA WholeKept ==
    ASSUME QueueInv, NEW p \in Packets, QueuePacket(p), Stays(p), AllThere,
           \/ Joins(p)
           \/ Publishes(WholeBatch(PendingWith(p), SencWith(p), SeigWith(p)))
    PROVE  AllThere'
  <1> DEFINE s == p.track
             w == WholeBatch(PendingWith(p), SencWith(p), SeigWith(p))
             W(t) == Ids(PendingWith(p)[t])
  <1>1. packetsTotal' = [packetsTotal EXCEPT ![s] = @ + 1] /\ Admissible(p)
    BY DEF QueuePacket
  <1>2. packetsTotal \in [Track -> Nat] /\ s \in Track
        /\ published \in [Track -> Seq(Sample)]
    BY PacketFields DEF QueueInv, QueueTypes
  <1>3. \A t \in Track : W(t) = IF t = s THEN Append(Waits[t], packetsTotal[t] + 1)
                                ELSE Waits[t]
    <2>1. [t \in Track |-> W(t)] = [Waits EXCEPT ![s] = Append(@, packetsTotal[s] + 1)]
      BY JoinedIds
    <2>2. Waits = [t \in Track |-> Waits[t]] /\ DOMAIN Waits = Track
      BY DEF Waits
    <2> HIDE DEF W
    <2> QED
      BY <1>2, <2>1, <2>2
  <1>4. \A t \in Track : Logged[t] \o W(t) = Counted(packetsTotal'[t])
    <2> SUFFICES ASSUME NEW t \in Track
                 PROVE  Logged[t] \o W(t) = Counted(packetsTotal'[t])
      OBVIOUS
    <2>1. Logged[t] \in Seq(Nat) /\ Waits[t] \in Seq(Nat) /\ packetsTotal[t] \in Nat
      BY <1>2, LogsTyped
    <2>2. Logged[t] \o Waits[t] = Counted(packetsTotal[t])
      BY DEF AllThere
    <2>3. CASE t = s
      <3> DEFINE n == packetsTotal[t]
                 a == Logged[t]
                 b == Waits[t]
      <3>1. a \o Append(b, n + 1) = Append(a \o b, n + 1)
        <4>1. n + 1 \in Nat
          BY <2>1
        <4>2. a \in Seq(Nat) /\ b \in Seq(Nat)
          BY <2>1
        <4> HIDE DEF a, b, n
        <4> QED
          BY <4>1, <4>2, ConcatAppend
      <3>2. Append(Counted(n), n + 1) = Counted(n + 1)
        BY <2>1, CountedNext
      <3> QED
        BY <1>1, <1>2, <1>3, <2>2, <2>3, <3>1, <3>2
    <2>4. CASE t # s
      BY <1>1, <1>2, <1>3, <2>2, <2>4
    <2> QED
      BY <2>3, <2>4
  <1>5. w.pending = PendingWith(p) /\ w.held = <<>>
    BY DEF WholeBatch
  <1>6. BatchInv(w)
    BY <1>1, WholeInv
  <1>7. Joins(p) \/ Publishes(w)
    OBVIOUS
  <1> HIDE DEF w
  <1>8. CASE Joins(p)
    <2>1. Keeps(w)
      BY <1>8 DEF Joins, w
    <2>2. Waits' = [t \in Track |-> W(t)] /\ Logged' = Logged
      BY <2>1, <1>5, KeepsLogs
    <2> QED
      BY <2>2, <1>4 DEF AllThere
  <1>9. CASE Publishes(w)
    <2>1. /\ Waits' = [[t \in Track |-> <<>>] EXCEPT ![Anchor] = Ids(w.held)]
          /\ Logged' = [t \in Track |-> Ids(published[t]) \o Ids(w.pending[t])]
      BY <1>2, <1>6, <1>9, PublishesLogs
    <2>2. \A t \in Track : Waits'[t] = <<>> /\ Logged'[t] = Logged[t] \o W(t)
      BY <2>1, <1>5, EmptyIds DEF Logged
    <2>3. \A t \in Track : Counted(packetsTotal'[t]) \in Seq(Nat)
      <3>1. \A t \in Track : packetsTotal'[t] \in Nat
        BY <1>1, <1>2
      <3> QED
        BY <3>1, CountedNext
    <2>4. \A t \in Track : Logged'[t] \o Waits'[t] = Counted(packetsTotal'[t])
      BY <2>2, <2>3, <1>4, EmptyConcat
    <2> QED
      BY <2>4 DEF AllThere
  <1> QED
    BY <1>7, <1>8, <1>9

LEMMA PacketKept ==
    ASSUME QueueInv, NEW p \in Packets, QueuePacket(p), opts.cadence # "keyframe",
           AllThere
    PROVE  AllThere'
  BY PacketWhole, WholeKept DEF Stays

LEMMA FlushingKept ==
    ASSUME QueueInv, FlushingCall, AllThere
    PROVE  AllThere'
  <1>1. /\ Publishes(Queued) \/ Keeps(Queued)
        /\ packetsTotal' = packetsTotal
    BY FlushingOutcome
  <1>2. Queued.pending = pending /\ Queued.held = <<>>
    BY DEF Queued, WholeBatch
  <1>3. CASE Publishes(Queued)
    <2>1. published \in [Track -> Seq(Sample)] /\ BatchInv(Queued)
      BY QueuedInv DEF QueueInv, QueueTypes
    <2>2. /\ Waits' = [[t \in Track |-> <<>>] EXCEPT ![Anchor] = Ids(Queued.held)]
          /\ Logged' = [t \in Track |-> Ids(published[t]) \o Ids(Queued.pending[t])]
      BY <1>3, <2>1, PublishesLogs
    <2>3. \A t \in Track : Waits'[t] = <<>> /\ Logged'[t] = Logged[t] \o Waits[t]
      BY <2>2, <1>2, EmptyIds DEF Logged, Waits
    <2>4. \A t \in Track : Logged[t] \o Waits[t] \in Seq(Nat)
      BY LogsTyped
    <2>5. \A t \in Track : Logged'[t] \o Waits'[t] = Counted(packetsTotal'[t])
      BY <2>3, <2>4, <1>1, EmptyConcat DEF AllThere
    <2> QED
      BY <2>5 DEF AllThere
  <1>4. CASE Keeps(Queued)
    <2>1. Waits' = Waits /\ Logged' = Logged
      BY <1>2, <1>4, KeepsLogs DEF Waits
    <2> QED
      BY <2>1, <1>1 DEF AllThere
  <1> QED
    BY <1>1, <1>3, <1>4

LEMMA KeptInit == Init => KeptInv
  <1> SUFFICES ASSUME Init PROVE AllThere
    BY DEF KeptInv
  <1>1. \A t \in Track : Logged[t] = <<>> /\ Waits[t] = <<>> /\ packetsTotal[t] = 0
    BY EmptyIds DEF Init, Empty, Logged, Waits
  <1>2. <<>> \o <<>> = <<>> /\ Counted(0) = <<>>
    BY DEF Counted
  <1> QED
    BY <1>1, <1>2 DEF AllThere

LEMMA KeptNext == QueueInv /\ KeptInv /\ [Next]_vars => KeptInv'
  <1> SUFFICES ASSUME QueueInv, KeptInv, [Next]_vars, opts'.cadence # "keyframe"
               PROVE  AllThere'
    BY DEF KeptInv
  <1>1. CASE WriteHeader
    <2>1. UNCHANGED <<opts, packetsTotal, pending, published>>
      BY <1>1 DEF WriteHeader, queues
    <2> QED
      BY <2>1 DEF KeptInv, AllThere, Logged, Waits
  <1>2. CASE QuietCall
    BY <1>2, QuietOutcome DEF KeptInv, AllThere, Logged, Waits
  <1>3. CASE FlushingCall
    BY <1>3, FlushingOutcome, FlushingKept DEF KeptInv
  <1>4. CASE \E p \in Packets : QueuePacket(p)
    <2> PICK p \in Packets : QueuePacket(p)
      BY <1>4
    <2>1. opts' = opts
      BY DEF QueuePacket
    <2> QED
      BY <2>1, PacketKept DEF KeptInv
  <1> QED
    BY <1>1, <1>2, <1>3, <1>4, StepIsACall

(* Unless a cadence holds keyframes back, every accepted sample is in the  *)
(* file or still queued, also after calls that failed.                     *)
THEOREM NothingDropped == Spec => []KeptUnlessDetached
  <1>1. Spec => []KeptInv
    BY KeptInit, KeptNext, QueueInvAlways, PTL DEF Spec
  <1>2. QueueInv /\ KeptInv => KeptUnlessDetached
    <2> SUFFICES ASSUME QueueInv, AllThere, NEW t \in Track
                 PROVE  Accounted(t) = [k \in 1..packetsTotal[t] |-> k]
      BY DEF KeptInv, KeptUnlessDetached, NoneDropped
    <2>1. pending[t] \in Seq(Sample) /\ published[t] \in Seq(Sample)
      BY DEF QueueInv, QueueTypes
    <2>2. Accounted(t) = Ids(published[t]) \o Ids(pending[t])
      BY <2>1, IdsConcat DEF Accounted
    <2> QED
      BY <2>2 DEF AllThere, Logged, Waits, Counted
  <1> QED
    BY <1>1, <1>2, QueueInvAlways, PTL

(***************************************************************************)
(* The tracks a batch contributes, in order.                               *)
(***************************************************************************)
LEMMA ContributingIs ==
    ASSUME NEW b
    PROVE  LET r == Contributing(b)
           IN  /\ r \in Seq(Track)
               /\ \A n \in 1..Len(r) : b.pending[r[n]] # <<>>
               /\ \A j, n \in 1..Len(r) : j < n => r[j] < r[n]
               /\ \A t \in Track : b.pending[t] # <<>> => \E n \in 1..Len(r) : r[n] = t
  <1> DEFINE s == [t \in Track |-> t]
             K == {t \in Track : b.pending[t] # <<>>}
             r == Selected(s, K)
  <1>1. s \in Seq(Track) /\ DOMAIN s = Track /\ \A t \in Track : s[t] = t
    BY NumTracksAssumption DEF Track
  <1>2. r \in Seq(Track)
    BY <1>1, SelectedTyped
  <1>3. PICK h : Enumerates(r, s, K, h)
    BY <1>1, SelectedLists
  <1>4. r = Contributing(b)
    BY DEF Contributing
  <1> HIDE DEF r, s
  <1>5. \A n \in 1..Len(r) : h[n] \in K /\ r[n] = h[n]
    BY <1>1, <1>3 DEF Enumerates
  <1>6. \A j, n \in 1..Len(r) : j < n => r[j] < r[n]
    BY <1>3, <1>5 DEF Enumerates
  <1>7. \A t \in K : \E n \in 1..Len(r) : r[n] = t
    BY <1>1, <1>3, <1>5 DEF Enumerates
  <1> QED
    BY <1>2, <1>4, <1>5, <1>6, <1>7

LEMMA IdleIs ==
    ASSUME NEW b
    PROVE  /\ Idle(b) <=> Contributing(b) = <<>>
           /\ ~Idle(b) => Contributing(b)[1] \in Track /\ Len(Contributing(b)) >= 1
  <1> DEFINE r == Contributing(b)
  <1>1. /\ r \in Seq(Track)
        /\ \A n \in 1..Len(r) : b.pending[r[n]] # <<>>
        /\ \A t \in Track : b.pending[t] # <<>> => \E n \in 1..Len(r) : r[n] = t
    BY ContributingIs
  <1> HIDE DEF r
  <1>2. ASSUME r # <<>> PROVE ~Idle(b) /\ r[1] \in Track /\ Len(r) >= 1
    <2>1. 1 \in 1..Len(r) /\ r[1] \in Track /\ Len(r) >= 1
      BY <1>1, <1>2
    <2> QED
      BY <1>1, <2>1 DEF Idle
  <1>3. ASSUME r = <<>> PROVE Idle(b)
    <2>1. \A t \in Track : ~(\E n \in 1..Len(r) : r[n] = t)
      BY <1>3
    <2> QED
      BY <1>1, <2>1 DEF Idle
  <1> QED
    BY <1>2, <1>3 DEF r

(***************************************************************************)
(* The moof of a batch.                                                    *)
(***************************************************************************)
(* The bytes of a traf do not depend on where it lies or where its data    *)
(* does.                                                                   *)
Weight(b, t) == TrafBytes(BuildTraf(b, t, 0, 0))

LEMMA TrafWeighs ==
    ASSUME NEW b, NEW t, NEW at, NEW dataOffset
    PROVE  TrafBytes(BuildTraf(b, t, at, dataOffset)) = Weight(b, t)
  <1> DEFINE q == b.pending[t]
             tfhd == BuildTfhd(t, q)
             traf(a, o) == BuildTraf(b, t, a, o)
             boxes(a) == CencBoxes(b.senc[t], a + 8 + TfhdBytes(tfhd) + 20)
  <1>1. \A o : TrunBytes(BuildTrun(q, o)) = TrunBytes(BuildTrun(q, 0))
    <2> SUFFICES ASSUME NEW o PROVE TrunBytes(BuildTrun(q, o)) = TrunBytes(BuildTrun(q, 0))
      OBVIOUS
    <2>1. /\ BuildTrun(q, o).rows = BuildTrun(q, 0).rows
          /\ BuildTrun(q, o).first = BuildTrun(q, 0).first
      BY DEF BuildTrun, TrunWith
    <2> QED
      BY <2>1 DEF TrunBytes, SumOf
  <1>2. \A a : CencBytes(boxes(a)) = CencBytes(boxes(0))
    <2> SUFFICES ASSUME NEW a PROVE CencBytes(boxes(a)) = CencBytes(boxes(0))
      OBVIOUS
    <2> DEFINE x == a + 8 + TfhdBytes(tfhd) + 20
               y == 0 + 8 + TfhdBytes(tfhd) + 20
               aux == b.senc[t]
    <2> HIDE DEF x, y, aux
    <2>1. CencBytes(CencBoxes(aux, x)) = CencBytes(CencBoxes(aux, y))
      <3>1. CASE AuxOmitted(aux)
        <4>1. CencBoxes(aux, x) = {} /\ CencBoxes(aux, y) = {}
          BY <3>1, CencBoxIs
        <4> QED
          BY <4>1
      <3>2. CASE ~AuxOmitted(aux)
        <4>1. CencBoxes(aux, x) # {} /\ CencBoxes(aux, y) # {}
          BY <3>2, CencBoxIs
        <4>2. /\ ValueOf(CencBoxes(aux, x), {}) = CencBox(aux, x)
              /\ ValueOf(CencBoxes(aux, y), {}) = CencBox(aux, y)
          BY <4>1, CencBoxIs
        <4>3. /\ CencBox(aux, x).senc = CencBox(aux, y).senc
              /\ CencBox(aux, x).saizSizes = CencBox(aux, y).saizSizes
          BY DEF CencBox
        <4> QED
          BY <4>1, <4>2, <4>3 DEF CencBytes
      <3> QED
        BY <3>1, <3>2
    <2> QED
      BY <2>1 DEF x, y, aux
  <1>3. ASSUME NEW a, NEW o
        PROVE  TrafBytes(traf(a, o))
                 = 8 + TfhdBytes(tfhd) + 20 + CencBytes(boxes(0))
                     + GroupBytes(SeigGroups(b.seig[t])) + TrunBytes(BuildTrun(q, 0))
    <2>1. /\ traf(a, o).tfhd = tfhd /\ traf(a, o).cenc = boxes(a)
          /\ traf(a, o).groups = SeigGroups(b.seig[t])
          /\ traf(a, o).trun = {BuildTrun(q, o)}
      BY DEF BuildTraf
    <2> HIDE DEF traf, tfhd, boxes
    <2>2. ValueOf(traf(a, o).trun, {}) = BuildTrun(q, o) /\ traf(a, o).trun # {}
      BY <2>1, ValueOfSome
    <2>3. CencBytes(boxes(a)) = CencBytes(boxes(0))
      BY <1>2
    <2>4. TrunBytes(BuildTrun(q, o)) = TrunBytes(BuildTrun(q, 0))
      BY <1>1
    <2>5. TrafBytes(traf(a, o))
            = 8 + TfhdBytes(tfhd) + 20 + CencBytes(boxes(a))
                + GroupBytes(SeigGroups(b.seig[t])) + TrunBytes(BuildTrun(q, o))
      BY <2>1, <2>2 DEF TrafBytes
    <2> QED
      BY <2>3, <2>4, <2>5
  <1> QED
    BY <1>3 DEF Weight

LEMMA WeightNat ==
    ASSUME NEW b, BatchTyped(b.pending, b.senc, b.seig), NEW t \in Track
    PROVE  Weight(b, t) \in Nat
  <1> DEFINE q == b.pending[t]
             tfhd == BuildTfhd(t, q)
             trun == BuildTrun(q, 0)
             traf == BuildTraf(b, t, 0, 0)
  <1>1. /\ q \in Seq(Sample) /\ b.senc[t] \in Seq(AuxRecord)
        /\ b.seig[t] \in Seq(SUBSET SeigGiven)
    BY DEF BatchTyped
  <1>2. /\ traf.tfhd = tfhd /\ traf.trun = {trun}
        /\ traf.cenc = CencBoxes(b.senc[t], 0 + 8 + TfhdBytes(tfhd) + 20)
        /\ traf.groups = SeigGroups(b.seig[t])
    BY DEF BuildTraf
  <1>3. ValueOf(traf.trun, {}) = trun /\ traf.trun # {}
    BY <1>2, ValueOfSome
  <1>4. TfhdBytes(tfhd) \in Nat
    BY TfhdBytesNat
  <1>5. TrunBytes(trun) \in Nat
    <2>1. DOMAIN q = 1..Len(q) /\ Len(q) \in Nat
      BY <1>1
    <2> DEFINE rows == trun.rows
               R == {rows[k] : k \in 1..Len(q)}
    <2>2. rows = [k \in 1..Len(q) |-> rows[k]]
      BY <2>1 DEF BuildTrun, TrunWith
    <2> HIDE DEF rows
    <2>3. rows \in Seq(R)
      BY <2>1, <2>2
    <2> HIDE DEF R, trun
    <2> QED
      BY <2>3, TrunBytesNat DEF rows
  <1>6. CencBytes(traf.cenc) \in Nat
    <2>1. \A x \in AuxRecord : IsAux(x)
      BY DEF AuxRecord, IsAux
    <2> QED
      BY <1>1, <1>2, <2>1, CencBytesNat
  <1>7. GroupBytes(traf.groups) \in Nat
    BY <1>1, <1>2, GroupBytesNat, SeigAssumption
  <1> HIDE DEF traf, trun, tfhd
  <1>8. TrafBytes(traf) = 8 + TfhdBytes(tfhd) + 20 + CencBytes(traf.cenc)
                            + GroupBytes(traf.groups) + TrunBytes(trun)
    BY <1>2, <1>3 DEF TrafBytes
  <1> QED
    BY <1>4, <1>5, <1>6, <1>7, <1>8 DEF Weight, traf

MoofHead == 24 + SumOf(pendingMoofPssh, BoxSize)
DataBefore(b, k) ==
    LET bytes(t) == Bytes(b.pending[t])
    IN  SumOf(SubSeq(Contributing(b), 1, k - 1), bytes)

(* The trafs, one after the other.                                         *)
TrafAfter(b, mdatStart, f, k) ==
    BuildTraf(b, Contributing(b)[k],
              IF k = 1 THEN MoofHead ELSE f[k - 1].at + TrafBytes(f[k - 1]),
              mdatStart + DataBefore(b, k))
IsTrafs(b, mdatStart, f, n) == f = [k \in 1..n |-> TrafAfter(b, mdatStart, f, k)]

LEMMA TrafsExist ==
    ASSUME NEW b, NEW mdatStart
    PROVE  \A n \in Nat : \E f : IsTrafs(b, mdatStart, f, n)
  <1> DEFINE T == {n \in Nat : \E f : IsTrafs(b, mdatStart, f, n)}
  <1>1. 0 \in T
    <2>1. IsTrafs(b, mdatStart, [k \in 1..0 |-> 0], 0)
      BY DEF IsTrafs
    <2> QED
      BY <2>1
  <1>2. ASSUME NEW n \in Nat, n \in T
        PROVE  n + 1 \in T
    <2>1. PICK f : IsTrafs(b, mdatStart, f, n)
      BY <1>2
    <2> DEFINE x == TrafAfter(b, mdatStart, f, n + 1)
               r == [k \in 1..(n + 1) |-> IF k = n + 1 THEN x ELSE f[k]]
    <2>2. ASSUME NEW k \in 1..(n + 1)
          PROVE  r[k] = TrafAfter(b, mdatStart, r, k)
      <3>1. k # 1 => r[k - 1] = f[k - 1]
        OBVIOUS
      <3>2. r[k] = TrafAfter(b, mdatStart, f, k)
        <4>1. CASE k = n + 1
          BY <4>1
        <4>2. CASE k # n + 1
          <5>1. k \in 1..n
            BY <4>2
          <5> HIDE DEF x
          <5> QED
            BY <2>1, <4>2, <5>1 DEF IsTrafs
        <4> QED
          BY <4>1, <4>2
      <3> HIDE DEF r
      <3> QED
        BY <3>1, <3>2 DEF TrafAfter
    <2>3. IsTrafs(b, mdatStart, r, n + 1)
      BY <2>2 DEF IsTrafs
    <2> QED
      BY <2>3
  <1>3. Nat \subseteq T
    <2> HIDE DEF T
    <2> QED
      BY <1>1, <1>2, NumberInduction
  <1> QED
    BY <1>3

LEMMA InnerIs ==
    ASSUME NEW b, NEW mdatStart
    PROVE  LET moof == BuildMoofInner(b, mdatStart)
           IN  /\ IsTrafs(b, mdatStart, moof.trafs, Len(Contributing(b)))
               /\ moof = MoofBox(sequenceNumber + 1, pendingMoofPssh, moof.trafs)
  <1> DEFINE tracks == Contributing(b)
             bytes(t) == Bytes(b.pending[t])
             before(k) == SumOf(SubSeq(tracks, 1, k - 1), bytes)
             chosen == CHOOSE f : f = [k \in DOMAIN tracks |->
                         BuildTraf(b, tracks[k],
                                   IF k = 1 THEN 24 + SumOf(pendingMoofPssh, BoxSize)
                                   ELSE f[k - 1].at + TrafBytes(f[k - 1]),
                                   mdatStart + before(k))]
  <1>1. BuildMoofInner(b, mdatStart) = MoofBox(sequenceNumber + 1, pendingMoofPssh, chosen)
    BY Zenon DEF BuildMoofInner
  <1>2. DOMAIN tracks = 1..Len(tracks) /\ Len(tracks) \in Nat
    BY ContributingIs
  <1>3. \A k : before(k) = DataBefore(b, k)
    BY DEF DataBefore
  <1>4. PICK f : IsTrafs(b, mdatStart, f, Len(tracks))
    BY <1>2, TrafsExist
  <1>5. \E g : g = [k \in DOMAIN tracks |->
                     BuildTraf(b, tracks[k],
                               IF k = 1 THEN 24 + SumOf(pendingMoofPssh, BoxSize)
                               ELSE g[k - 1].at + TrafBytes(g[k - 1]),
                               mdatStart + before(k))]
    <2>1. f = [k \in 1..Len(tracks) |-> TrafAfter(b, mdatStart, f, k)]
      BY <1>4 DEF IsTrafs
    <2>2. f = [k \in DOMAIN tracks |->
                BuildTraf(b, tracks[k],
                          IF k = 1 THEN 24 + SumOf(pendingMoofPssh, BoxSize)
                          ELSE f[k - 1].at + TrafBytes(f[k - 1]),
                          mdatStart + before(k))]
      BY <1>2, <1>3, <2>1, Zenon DEF TrafAfter, MoofHead
    <2> QED
      BY <2>2
  <1>6. chosen = [k \in DOMAIN tracks |->
                   BuildTraf(b, tracks[k],
                             IF k = 1 THEN 24 + SumOf(pendingMoofPssh, BoxSize)
                             ELSE chosen[k - 1].at + TrafBytes(chosen[k - 1]),
                             mdatStart + before(k))]
    BY <1>5, Zenon
  <1> HIDE DEF chosen, before
  <1>7. chosen = [k \in 1..Len(tracks) |-> TrafAfter(b, mdatStart, chosen, k)]
    BY <1>2, <1>3, <1>6, Zenon DEF TrafAfter, MoofHead
  <1>8. MoofBox(sequenceNumber + 1, pendingMoofPssh, chosen).trafs = chosen
    BY DEF MoofBox
  <1>9. IsTrafs(b, mdatStart, chosen, Len(tracks))
    BY <1>7 DEF IsTrafs
  <1> QED
    BY <1>1, <1>8, <1>9

Weights(b) == [k \in 1..Len(Contributing(b)) |-> Weight(b, Contributing(b)[k])]

LEMMA WeightsTyped ==
    ASSUME NEW b, BatchTyped(b.pending, b.senc, b.seig)
    PROVE  /\ Weights(b) \in Seq(Nat) /\ Len(Weights(b)) = Len(Contributing(b))
           /\ Total(Weights(b)) \in Nat
  <1>1. Contributing(b) \in Seq(Track)
    BY ContributingIs
  <1>2. \A k \in 1..Len(Contributing(b)) : Weight(b, Contributing(b)[k]) \in Nat
    BY <1>1, WeightNat
  <1>3. Weights(b) \in Seq(Nat) /\ Len(Weights(b)) = Len(Contributing(b))
    BY <1>1, <1>2 DEF Weights
  <1> QED
    BY <1>3, TotalNat

LEMMA TrafsWeigh ==
    ASSUME NEW b, NEW mdatStart, NEW f, IsTrafs(b, mdatStart, f, Len(Contributing(b)))
    PROVE  /\ DOMAIN f = 1..Len(Contributing(b)) /\ f = [k \in DOMAIN f |-> f[k]]
           /\ \A k \in DOMAIN f : f[k] = TrafAfter(b, mdatStart, f, k)
           /\ \A k \in DOMAIN f : TrafBytes(f[k]) = Weight(b, Contributing(b)[k])
           /\ SumOf(f, TrafBytes) = Total(Weights(b))
  <1>1. /\ DOMAIN f = 1..Len(Contributing(b)) /\ f = [k \in DOMAIN f |-> f[k]]
        /\ \A k \in DOMAIN f : f[k] = TrafAfter(b, mdatStart, f, k)
    <2>1. f = [k \in 1..Len(Contributing(b)) |-> TrafAfter(b, mdatStart, f, k)]
      BY DEF IsTrafs
    <2> QED
      BY <2>1
  <1>2. \A k \in DOMAIN f : TrafBytes(f[k]) = Weight(b, Contributing(b)[k])
    BY <1>1, TrafWeighs DEF TrafAfter
  <1>3. [k \in DOMAIN f |-> TrafBytes(f[k])] = Weights(b)
    BY <1>1, <1>2 DEF Weights
  <1>4. SumOf(f, TrafBytes) = Total([k \in DOMAIN f |-> TrafBytes(f[k])])
    BY DEF SumOf
  <1> QED
    BY <1>1, <1>2, <1>3, <1>4

(* The moof is built twice, and the first time has the right size.         *)
LEMMA MoofIs ==
    ASSUME NEW b
    PROVE  LET moof == BuildMoof(b)
           IN  /\ IsTrafs(b, moof.size + 8, moof.trafs, Len(Contributing(b)))
               /\ moof.kind = "moof" /\ moof.seq = sequenceNumber + 1
               /\ moof.pssh = pendingMoofPssh
               /\ moof.size = MoofHead + Total(Weights(b))
               /\ moof = MoofBox(sequenceNumber + 1, pendingMoofPssh, moof.trafs)
  <1>1. ASSUME NEW mdatStart
        PROVE  BuildMoofInner(b, mdatStart).size = MoofHead + Total(Weights(b))
    <2> DEFINE moof == BuildMoofInner(b, mdatStart)
               trafs == moof.trafs
    <2>1. /\ IsTrafs(b, mdatStart, trafs, Len(Contributing(b)))
          /\ moof = MoofBox(sequenceNumber + 1, pendingMoofPssh, trafs)
      BY InnerIs
    <2> HIDE DEF moof, trafs
    <2>2. SumOf(trafs, TrafBytes) = Total(Weights(b))
      BY <2>1, TrafsWeigh
    <2>3. moof.size = 24 + SumOf(pendingMoofPssh, BoxSize) + SumOf(trafs, TrafBytes)
      BY <2>1 DEF MoofBox
    <2> QED
      BY <2>2, <2>3 DEF moof, MoofHead
  <1>2. BuildMoof(b) = BuildMoofInner(b, BuildMoof(b).size + 8)
    BY <1>1 DEF BuildMoof
  <1> DEFINE moof == BuildMoof(b)
             start == moof.size + 8
  <1>3. /\ IsTrafs(b, start, moof.trafs, Len(Contributing(b)))
        /\ moof = MoofBox(sequenceNumber + 1, pendingMoofPssh, moof.trafs)
        /\ moof.size = MoofHead + Total(Weights(b))
    <2> HIDE DEF start
    <2>1. moof = BuildMoofInner(b, start)
      BY <1>2 DEF start
    <2> HIDE DEF moof
    <2> QED
      BY <1>1, <2>1, InnerIs
  <1>4. moof.kind = "moof" /\ moof.seq = sequenceNumber + 1 /\ moof.pssh = pendingMoofPssh
    <2> HIDE DEF moof
    <2> QED
      BY <1>3 DEF MoofBox
  <1> QED
    BY <1>3, <1>4

(***************************************************************************)
(* The mdat of a batch.                                                    *)
(***************************************************************************)
Tagged(b, t) ==
    [k \in DOMAIN b.pending[t] |->
        [track |-> t, id |-> b.pending[t][k].id, size |-> b.pending[t][k].size]]
Stock == [track : Track, id : Nat, size : Nat]
Payload(b) == FlattenSeq([k \in DOMAIN Contributing(b) |-> Tagged(b, Contributing(b)[k])])

LEMMA TaggedTyped ==
    ASSUME NEW b, BatchTyped(b.pending, b.senc, b.seig), NEW t \in Track
    PROVE  /\ Tagged(b, t) \in Seq(Stock) /\ Len(Tagged(b, t)) = Len(b.pending[t])
           /\ \A k \in 1..Len(b.pending[t]) :
                Tagged(b, t)[k] = [track |-> t, id |-> b.pending[t][k].id,
                                   size |-> b.pending[t][k].size]
           /\ Timed(b.pending[t]) /\ Bytes(Tagged(b, t)) = Bytes(b.pending[t])
  <1>1. b.pending[t] \in Seq(Sample)
    BY DEF BatchTyped
  <1>2. /\ DOMAIN b.pending[t] = 1..Len(b.pending[t]) /\ Len(b.pending[t]) \in Nat
        /\ \A k \in 1..Len(b.pending[t]) : b.pending[t][k] \in Sample
    BY <1>1
  <1>3. \A k \in 1..Len(b.pending[t]) :
           [track |-> t, id |-> b.pending[t][k].id, size |-> b.pending[t][k].size] \in Stock
    BY <1>2 DEF Sample, Stock
  <1>4. /\ Tagged(b, t) \in Seq(Stock) /\ Len(Tagged(b, t)) = Len(b.pending[t])
        /\ \A k \in 1..Len(b.pending[t]) :
             Tagged(b, t)[k] = [track |-> t, id |-> b.pending[t][k].id,
                                size |-> b.pending[t][k].size]
    BY <1>2, <1>3 DEF Tagged
  <1>5. Timed(b.pending[t])
    BY <1>1, <1>2 DEF Timed, Sample
  <1>6. Fields(Tagged(b, t), "size") = Fields(b.pending[t], "size")
    <2> DEFINE g == Tagged(b, t)
               q == b.pending[t]
    <2>1. DOMAIN g = 1..Len(q)
      BY <1>2 DEF Tagged
    <2>2. \A k \in 1..Len(q) : g[k]["size"] = q[k]["size"]
      <3> SUFFICES ASSUME NEW k \in 1..Len(q) PROVE g[k]["size"] = q[k]["size"]
        OBVIOUS
      <3>1. g[k] = [track |-> t, id |-> q[k].id, size |-> q[k].size]
        BY <1>4
      <3> HIDE DEF g, q
      <3> QED
        BY <3>1
    <2>3. DOMAIN q = 1..Len(q)
      BY <1>2
    <2> HIDE DEF g, q
    <2>4. Fields(g, "size") = Fields(q, "size")
      BY <2>1, <2>2, <2>3 DEF Fields
    <2> QED
      BY <2>4 DEF g, q
  <1> QED
    BY <1>4, <1>5, <1>6, SumsOfFields, Zenon

LEMMA MdatIs ==
    ASSUME NEW b, BatchTyped(b.pending, b.senc, b.seig)
    PROVE  /\ BuildMdat(b) = [kind |-> "mdat", data |-> Payload(b),
                              size |-> 8 + Bytes(Payload(b))]
           /\ Payload(b) \in Seq(Stock) /\ Bytes(Payload(b)) \in Nat
  <1>1. BuildMdat(b) = [kind |-> "mdat", data |-> Payload(b), size |-> 8 + Bytes(Payload(b))]
    BY DEF BuildMdat, Payload, Tagged
  <1> DEFINE parts == [k \in DOMAIN Contributing(b) |-> Tagged(b, Contributing(b)[k])]
  <1>2. Contributing(b) \in Seq(Track)
    BY ContributingIs
  <1>3. \A k \in 1..Len(Contributing(b)) : Tagged(b, Contributing(b)[k]) \in Seq(Stock)
    BY <1>2, TaggedTyped
  <1>4. parts \in Seq(Seq(Stock))
    BY <1>2, <1>3
  <1>5. Payload(b) \in Seq(Stock)
    <2> HIDE DEF parts
    <2>1. FlattenSeq(parts) \in Seq(Stock)
      BY <1>4, FlattenTyped
    <2> QED
      BY <2>1 DEF Payload, parts
  <1>6. Bytes(Payload(b)) \in Nat
    <2> DEFINE p == Payload(b)
    <2>1. \A k \in 1..Len(p) : p[k]["size"] \in Nat
      <3>1. \A k \in 1..Len(p) : p[k] \in Stock
        BY <1>5
      <3> HIDE DEF p
      <3> QED
        BY <3>1 DEF Stock
    <2> HIDE DEF p
    <2>2. Fields(p, "size") \in Seq(Nat)
      BY <1>5, <2>1, FieldsTyped DEF p
    <2> QED
      BY <2>2, TotalNat, SumsOfFields DEF p
  <1> QED
    BY <1>1, <1>5, <1>6

(***************************************************************************)
(* The segment of a batch, as a file.                                      *)
(***************************************************************************)
Only(K, f) == IsFile(f) /\ \A k \in 1..Len(f) : f[k].kind \in K

LEMMA OnlyEmpty == \A K : Only(K, <<>>)
  <1>1. <<>> \in Seq({}) /\ Len(<<>>) = 0
    OBVIOUS
  <1> QED
    BY <1>1 DEF Only, IsFile

LEMMA OnlyOne ==
    ASSUME NEW K, NEW box, box.size \in Nat \ {0}, box.kind \in K
    PROVE  Only(K, <<box>>)
  <1>1. <<box>> \in Seq({box}) /\ Len(<<box>>) = 1 /\ <<box>>[1] = box
    OBVIOUS
  <1>2. \A k \in 1..1 : k = 1
    OBVIOUS
  <1> QED
    BY <1>1, <1>2 DEF Only, IsFile

LEMMA OnlyConcat ==
    ASSUME NEW K, NEW f, NEW g, Only(K, f), Only(K, g)
    PROVE  Only(K, f \o g)
  <1> DEFINE c == f \o g
  <1>1. IsFile(f) /\ IsFile(g)
    BY DEF Only
  <1>2. /\ IsFile(c) /\ Len(c) = Len(f) + Len(g)
        /\ \A k \in 1..Len(f) : c[k] = f[k]
        /\ \A k \in 1..Len(g) : c[Len(f) + k] = g[k]
    BY <1>1, FileConcat
  <1>3. Len(f) \in Nat /\ Len(g) \in Nat
    BY <1>1 DEF IsFile
  <1> HIDE DEF c
  <1>4. ASSUME NEW k \in 1..Len(c) PROVE c[k].kind \in K
    <2>1. CASE k <= Len(f)
      BY <1>2, <1>3, <2>1 DEF Only
    <2>2. CASE ~(k <= Len(f))
      <3>1. k - Len(f) \in 1..Len(g) /\ Len(f) + (k - Len(f)) = k
        BY <1>2, <1>3, <2>2
      <3>2. c[Len(f) + (k - Len(f))] = g[k - Len(f)]
        BY <1>2, <3>1
      <3> QED
        BY <3>1, <3>2 DEF Only
    <2> QED
      BY <2>1, <2>2
  <1>5. Only(K, c)
    BY <1>2, <1>4 DEF Only
  <1> QED
    BY <1>5 DEF c

LEMMA OnlyPart ==
    ASSUME NEW K, NEW f, Only(K, f), NEW n \in 0..Len(f)
    PROVE  Only(K, SubSeq(f, 1, n))
  <1>1. PICK S : f \in Seq(S)
    BY DEF Only, IsFile
  <1>2. /\ SubSeq(f, 1, n) \in Seq(S) /\ Len(SubSeq(f, 1, n)) = n
        /\ \A k \in 1..n : SubSeq(f, 1, n)[k] = f[k]
    BY <1>1, PrefixIs
  <1>3. \A k \in 1..n : k \in 1..Len(f)
    BY <1>1
  <1> QED
    BY <1>2, <1>3 DEF Only, IsFile

LEMMA OnlyWidens ==
    ASSUME NEW K, NEW L, NEW f, Only(K, f), K \subseteq L
    PROVE  Only(L, f)
  BY DEF Only

(* Every request is of a box.                                              *)
RequestsInv ==
    /\ IsFile(pendingMoofPssh) /\ IsFile(pendingEmsg)
    /\ \A r \in stypOverride \cup pendingPrft : r.size \in Nat \ {0}

PreludeKinds == {"sidx", "ssix", "styp", "emsg", "prft"}
Prelude(b) == Indexes(b) \o Styp \o Emsg \o Prft

LEMMA StypIs == QueueTypes /\ RequestsInv => Only({"styp"}, Styp)
  <1> SUFFICES ASSUME QueueTypes, RequestsInv PROVE Only({"styp"}, Styp)
    OBVIOUS
  <1>1. ASSUME NEW n \in Nat \ {0} PROVE Only({"styp"}, <<StypBox(n)>>)
    <2>1. StypBox(n).size \in Nat \ {0} /\ StypBox(n).kind \in {"styp"}
      BY DEF StypBox
    <2> QED
      BY <2>1, OnlyOne
  <1>2. CASE Some(stypOverride)
    <2>1. ValueOf(stypOverride, {}) \in stypOverride
      BY <1>2 DEF Some, ValueOf
    <2>2. ValueOf(stypOverride, {}).size \in Nat \ {0}
      BY <2>1 DEF RequestsInv
    <2>3. Styp = <<StypBox(ValueOf(stypOverride, {}).size)>>
      BY <1>2 DEF Styp
    <2> QED
      BY <1>1, <2>2, <2>3
  <1>3. CASE ~Some(stypOverride) /\ opts.styp > 0
    <2>1. opts.styp \in Nat \ {0}
      BY <1>3, OptionsAssumption DEF QueueTypes
    <2> QED
      BY <1>1, <1>3, <2>1 DEF Styp
  <1>4. CASE ~Some(stypOverride) /\ ~(opts.styp > 0)
    BY <1>4, OnlyEmpty DEF Styp
  <1> QED
    BY <1>2, <1>3, <1>4

LEMMA EmsgIs == RequestsInv => Only({"emsg"}, Emsg) /\ Len(Emsg) = Len(pendingEmsg)
  <1> SUFFICES ASSUME RequestsInv PROVE Only({"emsg"}, Emsg) /\ Len(Emsg) = Len(pendingEmsg)
    OBVIOUS
  <1>1. /\ DOMAIN pendingEmsg = 1..Len(pendingEmsg) /\ Len(pendingEmsg) \in Nat
        /\ \A k \in 1..Len(pendingEmsg) : pendingEmsg[k].size \in Nat \ {0}
    BY DEF RequestsInv, IsFile
  <1> DEFINE box(k) == [kind |-> "emsg", size |-> pendingEmsg[k].size,
                        id |-> pendingEmsg[k].id]
             S == {box(k) : k \in 1..Len(pendingEmsg)}
  <1>2. Emsg = [k \in 1..Len(pendingEmsg) |-> box(k)]
    BY <1>1 DEF Emsg
  <1>3. \A k \in 1..Len(pendingEmsg) : box(k).size \in Nat \ {0} /\ box(k).kind \in {"emsg"}
    BY <1>1
  <1>4. \A k \in 1..Len(pendingEmsg) : box(k) \in S
    OBVIOUS
  <1> HIDE DEF box, S
  <1>5. /\ Emsg \in Seq(S) /\ Len(Emsg) = Len(pendingEmsg)
        /\ \A k \in 1..Len(Emsg) : Emsg[k] = box(k)
    BY <1>1, <1>2, <1>4
  <1> QED
    BY <1>3, <1>5 DEF Only, IsFile

LEMMA PrftIs == RequestsInv => Only({"prft"}, Prft)
  <1> SUFFICES ASSUME RequestsInv PROVE Only({"prft"}, Prft)
    OBVIOUS
  <1>1. CASE pendingPrft = {}
    BY <1>1, OnlyEmpty DEF Prft
  <1>2. CASE pendingPrft # {}
    <2> DEFINE r == ValueOf(pendingPrft, {})
               box == [kind |-> "prft", size |-> r.size, id |-> r.id]
    <2>1. r.size \in Nat \ {0}
      BY <1>2 DEF ValueOf, RequestsInv
    <2>2. Prft = <<box>>
      BY <1>2 DEF Prft
    <2>3. box.size \in Nat \ {0} /\ box.kind \in {"prft"}
      BY <2>1
    <2> HIDE DEF box
    <2> QED
      BY <2>2, <2>3, OnlyOne
  <1> QED
    BY <1>1, <1>2

LEMMA PairIs ==
    ASSUME NEW x, NEW y
    PROVE  /\ <<x>> \o <<y>> = <<x, y>>
           /\ Len(<<x, y>>) = 2 /\ <<x, y>>[1] = x /\ <<x, y>>[2] = y
  <1>1. /\ <<x>> \in Seq({x, y}) /\ <<y>> \in Seq({x, y}) /\ <<x, y>> \in Seq({x, y})
        /\ Len(<<x>>) = 1 /\ Len(<<y>>) = 1 /\ Len(<<x, y>>) = 2
        /\ <<x>>[1] = x /\ <<y>>[1] = y /\ <<x, y>>[1] = x /\ <<x, y>>[2] = y
    OBVIOUS
  <1> DEFINE p == <<x>>
             q == <<y>>
             r == <<x, y>>
  <1>2. \A k \in 1..Len(p) : r[k] = p[k]
    BY <1>1
  <1>3. \A k \in 1..Len(q) : r[Len(p) + k] = q[k]
    <2>1. \A k \in 1..Len(q) : k = 1 /\ Len(p) + k = 2
      BY <1>1
    <2> QED
      BY <1>1, <2>1
  <1>4. Len(r) = Len(p) + Len(q)
    BY <1>1
  <1> HIDE DEF p, q, r
  <1>5. r = p \o q
    BY <1>1, <1>2, <1>3, <1>4, ConcatEqual DEF p, q, r
  <1> QED
    BY <1>1, <1>5 DEF p, q, r

LEMMA IndexesIs == \A b : Only({"sidx", "ssix"}, Indexes(b)) /\ Len(Indexes(b)) <= 2
  <1> SUFFICES ASSUME NEW b PROVE Only({"sidx", "ssix"}, Indexes(b)) /\ Len(Indexes(b)) <= 2
    OBVIOUS
  <1> DEFINE K == {"sidx", "ssix"}
  <1>1. /\ Sidx(b).size \in Nat \ {0} /\ Sidx(b).kind \in K
        /\ Ssix(b).size \in Nat \ {0} /\ Ssix(b).kind \in K
    BY DEF Sidx, Ssix
  <1> HIDE DEF K
  <1>2. Only(K, <<Sidx(b)>>) /\ Only(K, <<Ssix(b)>>) /\ Only(K, <<>>)
    BY <1>1, OnlyOne, OnlyEmpty
  <1>3. <<Sidx(b)>> \o <<Ssix(b)>> = <<Sidx(b), Ssix(b)>>
    BY PairIs
  <1>4. Only(K, <<Sidx(b), Ssix(b)>>)
    BY <1>2, <1>3, OnlyConcat, Zenon
  <1>5. Indexes(b) \in {<<>>, <<Sidx(b), Ssix(b)>>, <<Sidx(b)>>}
    BY DEF Indexes
  <1>6. Len(<<>>) <= 2 /\ Len(<<Sidx(b), Ssix(b)>>) <= 2 /\ Len(<<Sidx(b)>>) <= 2
    <2>1. Len(<<Sidx(b), Ssix(b)>>) = 2
      BY PairIs
    <2>2. Len(<<Sidx(b)>>) = 1 /\ Len(<<>>) = 0
      OBVIOUS
    <2> QED
      BY <2>1, <2>2
  <1>7. Only(K, Indexes(b)) /\ Len(Indexes(b)) <= 2
    BY <1>2, <1>4, <1>5, <1>6
  <1> QED
    BY <1>7 DEF K

LEMMA PreludeIs ==
    ASSUME QueueTypes, RequestsInv, NEW b
    PROVE  Only(PreludeKinds, Prelude(b))
  <1>1. /\ Only(PreludeKinds, Indexes(b)) /\ Only(PreludeKinds, Styp)
        /\ Only(PreludeKinds, Emsg) /\ Only(PreludeKinds, Prft)
    BY IndexesIs, StypIs, EmsgIs, PrftIs, OnlyWidens DEF PreludeKinds
  <1> QED
    BY <1>1, OnlyConcat DEF Prelude

LEMMA BoxesSized ==
    ASSUME RequestsInv, NEW b, BatchTyped(b.pending, b.senc, b.seig)
    PROVE  /\ MoofHead \in Nat \ {0} /\ BuildMoof(b).size \in Nat \ {0}
           /\ BuildMdat(b).size \in Nat \ {0} /\ BuildMdat(b).kind = "mdat"
           /\ BuildMoof(b).kind = "moof"
  <1>1. SumOf(pendingMoofPssh, BoxSize) \in Nat
    BY FilePositions DEF RequestsInv, EndOf
  <1>2. MoofHead \in Nat \ {0}
    BY <1>1 DEF MoofHead
  <1>3. BuildMoof(b).size = MoofHead + Total(Weights(b)) /\ BuildMoof(b).kind = "moof"
    BY MoofIs
  <1>4. Total(Weights(b)) \in Nat
    BY WeightsTyped
  <1>5. BuildMoof(b).size \in Nat \ {0}
    BY <1>2, <1>3, <1>4
  <1>6. BuildMdat(b).size = 8 + Bytes(Payload(b)) /\ Bytes(Payload(b)) \in Nat
        /\ BuildMdat(b).kind = "mdat"
    BY MdatIs
  <1>7. BuildMdat(b).size \in Nat \ {0}
    BY <1>6
  <1> QED
    BY <1>2, <1>3, <1>5, <1>6, <1>7

SegmentKinds == PreludeKinds \cup {"moof", "mdat"}
Pair(b) == <<BuildMoof(b), BuildMdat(b)>>

LEMMA SegmentIs ==
    ASSUME QueueTypes, RequestsInv, NEW b, BatchTyped(b.pending, b.senc, b.seig)
    PROVE  /\ Segment(b) = Prelude(b) \o Pair(b)
           /\ Only({"moof", "mdat"}, Pair(b)) /\ Only(SegmentKinds, Segment(b))
           /\ Len(Pair(b)) = 2 /\ Pair(b)[1] = BuildMoof(b) /\ Pair(b)[2] = BuildMdat(b)
           /\ Len(Segment(b)) = Len(Prelude(b)) + 2
           /\ \A n \in 1..(Len(Segment(b)) - 1) :
                SubSeq(Segment(b), 1, n)
                  = IF n <= Len(Prelude(b)) THEN SubSeq(Prelude(b), 1, n)
                    ELSE Prelude(b) \o <<BuildMoof(b)>>
  <1> DEFINE moof == BuildMoof(b)
             mdat == BuildMdat(b)
             K == {"moof", "mdat"}
             p == Prelude(b)
  <1>1. Segment(b) = p \o Pair(b)
    BY DEF Segment, Prelude, Pair
  <1>2. /\ moof.size \in Nat \ {0} /\ mdat.size \in Nat \ {0}
        /\ moof.kind \in K /\ mdat.kind \in K
    BY BoxesSized
  <1> HIDE DEF moof, mdat, K, p
  <1>3. Only(K, <<moof>>) /\ Only(K, <<mdat>>)
    BY <1>2, OnlyOne
  <1>4. <<moof>> \o <<mdat>> = <<moof, mdat>> /\ Len(<<moof, mdat>>) = 2
        /\ <<moof, mdat>>[1] = moof /\ <<moof, mdat>>[2] = mdat
    BY PairIs
  <1>5. Only(K, <<moof, mdat>>)
    BY <1>3, <1>4, OnlyConcat, Zenon
  <1>6. /\ Only(K, Pair(b)) /\ Len(Pair(b)) = 2
        /\ Pair(b)[1] = moof /\ Pair(b)[2] = mdat
    BY <1>4, <1>5 DEF Pair, moof, mdat
  <1>7. Only(PreludeKinds, p)
    BY PreludeIs DEF p
  <1>8. PreludeKinds \subseteq SegmentKinds /\ K \subseteq SegmentKinds
    BY DEF SegmentKinds, K
  <1>9. Only(SegmentKinds, Segment(b))
    BY <1>1, <1>6, <1>7, <1>8, OnlyWidens, OnlyConcat
  <1>10. IsFile(p) /\ IsFile(Pair(b)) /\ IsFile(<<moof>>)
    BY <1>3, <1>6, <1>7 DEF Only
  <1>11. Len(p \o Pair(b)) = Len(p) + 2 /\ Len(p) \in Nat
    <2>1. Len(p \o Pair(b)) = Len(p) + Len(Pair(b))
      BY <1>10, FileConcat
    <2> QED
      BY <1>6, <1>10, <2>1 DEF IsFile
  <1>12. ASSUME NEW n \in 1..(Len(Segment(b)) - 1)
         PROVE  SubSeq(Segment(b), 1, n)
                  = IF n <= Len(p) THEN SubSeq(p, 1, n) ELSE p \o <<moof>>
    <2>1. PICK S : p \in Seq(S)
      BY <1>10 DEF IsFile
    <2> DEFINE U == S \cup {moof, mdat}
               g == Pair(b)
    <2>2. p \in Seq(U) /\ g \in Seq(U) /\ Len(g) = 2
      <3>1. Pair(b) = <<moof, mdat>>
        BY DEF Pair, moof, mdat
      <3> QED
        BY <2>1, <3>1, <1>6
    <2>3. SubSeq(g, 1, 1) = <<moof>>
      <3>1. Pair(b) = <<moof, mdat>>
        BY DEF Pair, moof, mdat
      <3>2. g \in Seq(U) /\ Len(g) = 2 /\ 1 \in 0..Len(g) /\ g[1] = moof
        BY <1>6, <2>2
      <3> HIDE DEF g, U
      <3>3. SubSeq(g, 1, 1) = Append(SubSeq(g, 1, 1 - 1), g[1]) /\ SubSeq(g, 1, 0) = <<>>
        BY <3>2, PrefixIs
      <3>4. 1 - 1 = 0 /\ Append(<<>>, moof) = <<moof>>
        OBVIOUS
      <3> QED
        BY <3>2, <3>3, <3>4
    <2> HIDE DEF U, g
    <2>4. n \in Nat /\ n >= 1 /\ n <= Len(p) + 1
      BY <1>1, <1>11
    <2>5. CASE n <= Len(p)
      <3>1. n \in 0..Len(p)
        BY <1>11, <2>4, <2>5
      <3>2. SubSeq(p \o g, 1, n) = SubSeq(p, 1, n)
        BY <2>2, <3>1, PrefixOfConcat
      <3> QED
        BY <1>1, <2>5, <3>2 DEF g
    <2>6. CASE ~(n <= Len(p))
      <3>1. n = Len(p) + 1 /\ 1 \in 0..Len(g)
        BY <1>11, <2>2, <2>4, <2>6
      <3>2. SubSeq(p \o g, 1, Len(p) + 1) = p \o SubSeq(g, 1, 1)
        BY <2>2, <3>1, PrefixPast
      <3> QED
        BY <1>1, <2>3, <2>6, <3>1, <3>2 DEF g
    <2> QED
      BY <2>5, <2>6
  <1> QED
    BY <1>1, <1>6, <1>9, <1>11, <1>12 DEF moof, mdat, K, p

(***************************************************************************)
(* What a call does to the file: nothing, or it writes the header, or a    *)
(* flush breaks off, or one is completed.                                  *)
(***************************************************************************)
IsMoov(box) ==
    /\ {"kind", "size"} \subseteq DOMAIN box /\ box = [x \in DOMAIN box |-> box[x]]
    /\ box.kind = "moov" /\ box.size = 700
Headed(f) ==
    /\ Len(f) >= 2
    /\ \/ IsMoov(f[2])
       \/ Len(f) >= 3 /\ f[2] = Ftyp /\ IsMoov(f[3])
HeaderInv ==
    /\ ~headerWritten => pending = Empty /\ file \in {<<>>, <<Ftyp>>}
    /\ headerWritten => Headed(file)

Opens ==
    /\ ~headerWritten
    /\ \/ file' = file \o <<Ftyp>>
       \/ \E mehd : file' = file \o <<Ftyp, Moov(mehd)>>
    /\ UNCHANGED <<sequenceNumber, nextBmdt, tfraEntries, published>>

(* What follows the segment: nothing, the index, or a gap.                 *)
Ends(b, extra, bmdt) ==
    \/ extra = <<>> /\ bmdt = BmdtAfter(b)
    \/ extra = Index(TfraAfter(b)) /\ bmdt = BmdtAfter(b)
    \/ \E t \in Track, d \in GapDurations : \E seq :
          /\ d > 0
          /\ extra = <<GapMoof(seq, t, BmdtAfter(b)[t], d)>>
          /\ bmdt = [BmdtAfter(b) EXCEPT ![t] = @ + d]

Completes(b, extra) ==
    /\ FlushBuilds(b)
    /\ Ends(b, extra, nextBmdt')
    /\ tfraEntries' = TfraAfter(b)
    /\ published' = PublishedAfter(b)
    /\ \/ file' = FileAfter(b) \o extra
       \/ file' = Seal(FileAfter(b) \o extra, nextBmdt')

FileStep ==
    \/ UNCHANGED output
    \/ Opens
    \/ /\ headerWritten /\ UNCHANGED headerWritten
       /\ \E b : BatchInv(b) /\ (FlushBreaks(b) \/ \E extra : Completes(b, extra))

LEMMA FlushIsStep ==
    ASSUME NEW b, Flush(b), IsFile(FileAfter(b))
    PROVE  FlushBreaks(b) \/ \E extra : Completes(b, extra)
  <1>1. CASE FlushBreaks(b)
    BY <1>1
  <1>2. CASE FlushDone(b)
    <2>1. PICK S : FileAfter(b) \in Seq(S)
      BY DEF IsFile
    <2>2. FileAfter(b) \o <<>> = FileAfter(b)
      BY <2>1, ConcatEmptySeq
    <2>3. file' = FileAfter(b) \o <<>>
      BY <1>2, <2>2 DEF FlushDone
    <2>4. FlushBuilds(b) /\ nextBmdt' = BmdtAfter(b) /\ tfraEntries' = TfraAfter(b)
          /\ published' = PublishedAfter(b)
      BY <1>2 DEF FlushDone
    <2> QED
      BY <2>3, <2>4, Zenon DEF Completes, Ends
  <1> QED
    BY <1>1, <1>2 DEF Flush

LEMMA ThenIsStep ==
    ASSUME NEW extra, NEW seq, NEW bmdt, FlushThen(extra, seq, bmdt),
           Ends(Queued, extra, bmdt)
    PROVE  \E e : Completes(Queued, e)
  <1>1. nextBmdt' = bmdt
    BY DEF FlushThen
  <1>2. /\ FlushBuilds(Queued) /\ tfraEntries' = TfraAfter(Queued)
        /\ published' = PublishedAfter(Queued) /\ file' = FileAfter(Queued) \o extra
    BY DEF FlushThen
  <1> QED
    BY <1>1, <1>2, Zenon DEF Completes

(* The packet's flush is of a batch of typed queues in step.               *)
LEMMA PacketBatch ==
    ASSUME QueueInv, NEW p \in Packets, Admissible(p), ShouldFlush(PendingWith(p), p)
    PROVE  BatchInv(CadenceBatch(PendingWith(p), SencWith(p), SeigWith(p)))
  BY CadenceBatchIs, WholeInv, HeldInv

LEMMA SegmentedFile ==
    ASSUME QueueTypes, RequestsInv, IsFile(file), NEW b, BatchInv(b)
    PROVE  IsFile(FileAfter(b)) /\ IsFile(Segment(b))
  <1>1. IsFile(Segment(b))
    BY SegmentIs DEF BatchInv, Only
  <1> QED
    BY <1>1, FileConcat DEF FileAfter

(* A call that flushes what is queued fails in the flush or completes it.  *)
LEMMA FlushingStep ==
    ASSUME QueueInv, RequestsInv, IsFile(file), FlushingCall
    PROVE  FlushBreaks(Queued) \/ \E extra : Completes(Queued, extra)
  <1>0. BatchInv(Queued) /\ IsFile(FileAfter(Queued))
    BY QueuedInv, SegmentedFile DEF QueueInv
  <1>1. CASE FlushFragment
    BY <1>0, <1>1, FlushIsStep DEF FlushFragment
  <1>2. CASE WriteTrailer
    <2>1. CASE TrailerDone
      <3> DEFINE extra == Index(TfraAfter(Queued))
      <3>1. /\ FlushBuilds(Queued) /\ nextBmdt' = BmdtAfter(Queued)
            /\ tfraEntries' = TfraAfter(Queued) /\ published' = PublishedAfter(Queued)
            /\ file' = Seal(FileAfter(Queued) \o extra, BmdtAfter(Queued))
        BY <2>1 DEF TrailerDone
      <3>2. Ends(Queued, extra, nextBmdt')
        BY <3>1 DEF Ends
      <3> HIDE DEF extra
      <3> QED
        BY <3>1, <3>2, Zenon DEF Completes
    <2>2. CASE TrailerCut
      <3>1. PICK extra \in {<<>>, Index(TfraAfter(Queued))} :
              FlushThen(extra, SequenceAfter(Queued), BmdtAfter(Queued))
        BY <2>2 DEF TrailerCut
      <3>2. Ends(Queued, extra, BmdtAfter(Queued))
        BY DEF Ends
      <3> QED
        BY <3>1, <3>2, ThenIsStep
    <2> QED
      BY <1>2, <2>1, <2>2 DEF WriteTrailer
  <1>3. ASSUME NEW t \in Track, NEW d \in GapDurations, InsertEmptyTime(t, d)
        PROVE  FlushBreaks(Queued) \/ \E extra : Completes(Queued, extra)
    <2> DEFINE seq == SequenceAfter(Queued) + 1
               bmdt == BmdtAfter(Queued)
    <2>1. d > 0
      BY <1>3 DEF InsertEmptyTime, GapAllowed
    <2>2. CASE FlushThen(<<GapMoof(seq, t, bmdt[t], d)>>, seq, [bmdt EXCEPT ![t] = @ + d])
      <3>1. Ends(Queued, <<GapMoof(seq, t, bmdt[t], d)>>, [bmdt EXCEPT ![t] = @ + d])
        BY <2>1, Zenon DEF Ends
      <3> QED
        BY <2>2, <3>1, ThenIsStep
    <2>3. CASE FlushThen(<<>>, seq, bmdt)
      <3>1. Ends(Queued, <<>>, bmdt)
        BY DEF Ends
      <3> QED
        BY <2>3, <3>1, ThenIsStep
    <2> QED
      BY <1>3, <2>2, <2>3 DEF InsertEmptyTime
  <1> QED
    BY <1>1, <1>2, <1>3 DEF FlushingCall

LEMMA FlushingOpen ==
    ASSUME HeaderInv, FlushingCall
    PROVE  headerWritten
  <1>1. CASE FlushFragment
    <2>1. ~headerWritten => Idle(Queued)
      BY DEF HeaderInv, Idle, Queued, WholeBatch, Empty
    <2> QED
      BY <1>1, <2>1 DEF FlushFragment
  <1>2. CASE WriteTrailer
    BY <1>2 DEF WriteTrailer
  <1>3. ASSUME NEW t \in Track, NEW d \in GapDurations, InsertEmptyTime(t, d)
        PROVE  headerWritten
    BY <1>3 DEF InsertEmptyTime, GapAllowed
  <1> QED
    BY <1>1, <1>2, <1>3 DEF FlushingCall

LEMMA EveryStep ==
    ASSUME QueueInv, HeaderInv, RequestsInv, IsFile(file), [Next]_vars
    PROVE  FileStep
  <1>1. CASE WriteHeader
    BY <1>1, Zenon DEF WriteHeader, FileStep, Opens
  <1>2. CASE QuietCall
    <2>1. CASE HeaderFails
      <3>1. ~headerWritten /\ file = <<>> /\ file' = <<Ftyp>>
            /\ UNCHANGED <<sequenceNumber, nextBmdt, tfraEntries, published>>
        BY <2>1 DEF HeaderFails
      <3>2. <<>> \o <<Ftyp>> = <<Ftyp>>
        OBVIOUS
      <3> QED
        BY <3>1, <3>2, Zenon DEF FileStep, Opens
    <2>2. CASE ~HeaderFails
      BY <1>2, <2>2 DEF QuietCall, SetStyp, SetPrft, SetPssh, SetEmsg, Ask, vars, FileStep
    <2> QED
      BY <2>1, <2>2
  <1>3. ASSUME NEW p \in Packets, QueuePacket(p)
        PROVE  FileStep
    <2>1. Admissible(p) /\ headerWritten /\ UNCHANGED headerWritten
      BY <1>3 DEF QueuePacket, Admissible
    <2>2. CASE ~ShouldFlush(PendingWith(p), p)
      BY <1>3, <2>2 DEF QueuePacket, FileStep
    <2>3. CASE ShouldFlush(PendingWith(p), p)
      <3> DEFINE b == CadenceBatch(PendingWith(p), SencWith(p), SeigWith(p))
      <3>1. Flush(b)
        BY <1>3, <2>3 DEF QueuePacket
      <3>2. BatchInv(b)
        BY <2>1, <2>3, PacketBatch
      <3> HIDE DEF b
      <3>3. IsFile(FileAfter(b))
        BY <3>2, SegmentedFile DEF QueueInv
      <3>4. FlushBreaks(b) \/ \E extra : Completes(b, extra)
        BY <3>1, <3>3, FlushIsStep
      <3> QED
        BY <2>1, <3>2, <3>4 DEF FileStep
    <2> QED
      BY <2>2, <2>3
  <1>4. CASE FlushingCall
    <2>1. BatchInv(Queued) /\ IsFile(FileAfter(Queued))
      BY QueuedInv, SegmentedFile DEF QueueInv
    <2>2. UNCHANGED headerWritten
      BY <1>4, FlushingOutcome
    <2>3. headerWritten
      BY <1>4, FlushingOpen
    <2>4. FlushBreaks(Queued) \/ \E extra : Completes(Queued, extra)
      BY <1>4, FlushingStep
    <2> QED
      BY <2>1, <2>2, <2>3, <2>4 DEF FileStep
  <1> QED
    BY <1>1, <1>2, <1>3, <1>4, StepIsACall

(***************************************************************************)
(* What is written after a segment.                                        *)
(***************************************************************************)
Entry == [time : Nat, moofOffset : Nat, traf : {1}, trun : {1}, sample : Nat]

LEMMA GapIs ==
    ASSUME NEW seq, NEW t, NEW start, NEW d
    PROVE  LET box == GapMoof(seq, t, start, d)
           IN  /\ Only({"moof"}, <<box>>) /\ box.kind = "moof" /\ box.size \in Nat \ {0}
               /\ box.pssh = <<>> /\ Len(box.trafs) = 1 /\ DOMAIN box.trafs = 1..1
               /\ box.trafs[1] = [at |-> 24, tfhd |-> GapTfhd(t, d), bmdt |-> start,
                                  cenc |-> {}, groups |-> {}, trun |-> {}]
               /\ box.trafs \in Seq({box.trafs[1]})
  <1> DEFINE box == GapMoof(seq, t, start, d)
             traf == [at |-> 24, tfhd |-> GapTfhd(t, d), bmdt |-> start,
                      cenc |-> {}, groups |-> {}, trun |-> {}]
             trafs == <<traf>>
             bytes == [k \in DOMAIN trafs |-> TrafBytes(trafs[k])]
             none == <<>>
  <1>1. /\ box.kind = "moof" /\ box.trafs = trafs /\ box.pssh = none
        /\ box.size = 24 + SumOf(none, BoxSize) + SumOf(trafs, TrafBytes)
    BY DEF GapMoof, MoofBox
  <1>2. /\ trafs \in Seq({traf}) /\ Len(trafs) = 1 /\ trafs[1] = traf
        /\ DOMAIN trafs = 1..1
    OBVIOUS
  <1>3. TrafBytes(traf) \in Nat
    <2>1. /\ traf.tfhd = GapTfhd(t, d) /\ traf.cenc = {} /\ traf.groups = {}
          /\ traf.trun = {}
      OBVIOUS
    <2> HIDE DEF traf
    <2>2. TfhdBytes(traf.tfhd) \in Nat
      BY TfhdBytesNat
    <2>3. CencBytes(traf.cenc) = 0 /\ GroupBytes(traf.groups) = 0
      BY <2>1 DEF CencBytes, GroupBytes
    <2> QED
      BY <2>1, <2>2, <2>3 DEF TrafBytes
  <1> HIDE DEF traf
  <1>4. bytes \in Seq(Nat)
    BY <1>2, <1>3
  <1> HIDE DEF trafs, box
  <1>5. SumOf(trafs, TrafBytes) = Total(bytes) /\ Total(bytes) \in Nat
    BY <1>4, TotalNat DEF SumOf
  <1>6. SumOf(none, BoxSize) = 0
    <2>1. [k \in DOMAIN none |-> BoxSize(none[k])] = <<>>
      OBVIOUS
    <2> QED
      BY <2>1, TotalEmpty DEF SumOf
  <1>7. box.size \in Nat \ {0}
    BY <1>1, <1>5, <1>6
  <1>8. Only({"moof"}, <<box>>)
    BY <1>1, <1>7, OnlyOne
  <1>9. /\ Len(box.trafs) = 1 /\ DOMAIN box.trafs = 1..1 /\ box.trafs[1] = traf
        /\ box.trafs \in Seq({traf}) /\ box.pssh = <<>>
    BY <1>1, <1>2
  <1> QED
    BY <1>1, <1>7, <1>8, <1>9 DEF box, traf

LEMMA MfraIs ==
    ASSUME NEW tfra, tfra \in [Track -> Seq(Entry)]
    PROVE  Mfra(tfra).size \in Nat \ {0} /\ Mfra(tfra).kind = "mfra"
  <1> DEFINE ts == Selected([t \in Track |-> t], {t \in Track : tfra[t] # <<>>})
             bytes(t) == 24 + 19 * Len(tfra[t])
             sizes == [k \in DOMAIN ts |-> bytes(ts[k])]
  <1>1. Mfra(tfra).size = 8 + SumOf(ts, bytes) + 16 /\ Mfra(tfra).kind = "mfra"
    BY DEF Mfra
  <1>2. ts \in Seq(Track)
    <2>1. [t \in Track |-> t] \in Seq(Track)
      BY NumTracksAssumption DEF Track
    <2> QED
      BY <2>1, SelectedTyped
  <1> HIDE DEF ts
  <1>3. \A t \in Track : bytes(t) \in Nat
    OBVIOUS
  <1> HIDE DEF bytes
  <1>4. sizes \in Seq(Nat)
    BY <1>2, <1>3
  <1>5. SumOf(ts, bytes) = Total(sizes)
    BY DEF SumOf
  <1> HIDE DEF sizes
  <1>6. Total(sizes) \in Nat
    BY <1>4, TotalNat
  <1> QED
    BY <1>1, <1>5, <1>6

LEMMA IndexIs ==
    ASSUME NEW tfra, tfra \in [Track -> Seq(Entry)]
    PROVE  Only({"mfra"}, Index(tfra))
  BY MfraIs, OnlyOne, OnlyEmpty DEF Index

(* The tfra entries of a batch.                                            *)
LEMMA SyncEntriesTyped ==
    ASSUME QueueTypes, RequestsInv, IsFile(file), NEW b,
           BatchTyped(b.pending, b.senc, b.seig), nextBmdt \in [Track -> Nat],
           NEW t \in Track
    PROVE  SyncEntries(b, t) \in Seq(Entry)
  <1> DEFINE q == b.pending[t]
             entry(k) == [time |-> nextBmdt[t] + Ticks(SubSeq(q, 1, k - 1)),
                          moofOffset |-> MoofOffset(b),
                          traf |-> 1, trun |-> 1, sample |-> k]
             places == [k \in DOMAIN q |-> k]
             K == {k \in DOMAIN q : q[k].key}
             syncs == Selected(places, K)
             P == DOMAIN q
  <1>1. MoofOffset(b) \in Nat
    <2>1. Only(PreludeKinds, Styp) /\ Only(PreludeKinds, Emsg) /\ Only(PreludeKinds, Prft)
          /\ Only(PreludeKinds, Indexes(b))
      BY IndexesIs, StypIs, EmsgIs, PrftIs, OnlyWidens DEF PreludeKinds
    <2>2. IsFile(file \o Indexes(b) \o Styp \o Emsg \o Prft)
      BY <2>1, FileConcat DEF Only
    <2> QED
      BY <2>2, FilePositions DEF MoofOffset
  <1>2. Timed(q) /\ DOMAIN q = 1..Len(q)
    <2>1. q \in Seq(Sample)
      BY DEF BatchTyped
    <2> QED
      BY <2>1, TaggedTyped
  <1>3. ASSUME NEW k \in P PROVE entry(k) \in Entry
    <2>1. k - 1 \in 0..Len(q) /\ k \in Nat
      BY <1>2
    <2>2. Ticks(SubSeq(q, 1, k - 1)) \in Nat
      BY <1>2, <2>1, TimedSums
    <2> QED
      BY <1>1, <2>1, <2>2 DEF Entry
  <1>4. places \in Seq(P)
    <2>1. Len(q) \in Nat
      <3>1. q \in Seq(Sample)
        BY DEF BatchTyped
      <3> QED
        BY <3>1
    <2> QED
      BY <1>2, <2>1
  <1> HIDE DEF P, places
  <1>5. syncs \in Seq(P)
    BY <1>4, SelectedTyped
  <1>6. SyncEntries(b, t) = [n \in DOMAIN syncs |-> entry(syncs[n])]
    BY DEF SyncEntries, places
  <1> HIDE DEF syncs, entry
  <1>7. DOMAIN syncs = 1..Len(syncs) /\ Len(syncs) \in Nat
    BY <1>5
  <1> QED
    BY <1>3, <1>5, <1>6, <1>7

(***************************************************************************)
(* The patch of the mehd changes nothing else.                             *)
(***************************************************************************)
Alike(f, h) ==
    /\ Len(h) = Len(f) /\ \E S : h \in Seq(S)
    /\ \A k \in 1..Len(f) : h[k].kind = f[k].kind /\ h[k].size = f[k].size
    /\ \A k \in 1..Len(f) : f[k].kind # "moov" => h[k] = f[k]

LEMMA AlikeSelf ==
    ASSUME NEW f, IsFile(f)
    PROVE  Alike(f, f)
  BY DEF Alike, IsFile

LEMMA SealIs ==
    ASSUME NEW f, IsFile(f), Headed(f), NEW bmdt
    PROVE  Alike(f, Seal(f, bmdt)) /\ Headed(Seal(f, bmdt))
  <1>1. PICK S : f \in Seq(S)
    BY DEF IsFile
  <1>2. CASE ~opts.mehd
    BY <1>2, AlikeSelf DEF Seal
  <1>3. ASSUME NEW i \in 1..Len(f), IsMoov(f[i]), NEW h, NEW box, IsMoov(box),
               h = [f EXCEPT ![i] = box]
        PROVE  /\ Alike(f, h) /\ \A k \in 1..Len(f) : k # i => h[k] = f[k]
               /\ h[i] = box /\ Len(h) = Len(f)
    <2>1. h \in Seq(S \cup {box}) /\ Len(h) = Len(f)
      BY <1>1, <1>3
    <2>2. (\A k \in 1..Len(f) : k # i => h[k] = f[k]) /\ h[i] = box
      BY <1>1, <1>3
    <2>3. /\ f[i].kind = "moov" /\ box.kind = "moov"
          /\ f[i].size = 700 /\ box.size = 700
      BY <1>3 DEF IsMoov
    <2> QED
      BY <2>1, <2>2, <2>3 DEF Alike
  <1>4. CASE opts.mehd /\ f[2].kind = "moov"
    <2>1. IsMoov(f[2]) /\ 2 \in 1..Len(f)
      <3>1. Ftyp.kind # "moov"
        BY DEF Ftyp
      <3> QED
        BY <1>1, <1>4, <3>1 DEF Headed
    <2> DEFINE box == [f[2] EXCEPT !.mehd = {Longest(bmdt)}]
    <2>3. IsMoov(box)
      BY <2>1, ZenonT(60), SMTT(30) DEF IsMoov
    <2>4. Seal(f, bmdt) = [f EXCEPT ![2] = box]
      BY <1>4 DEF Seal
    <2> HIDE DEF box
    <2> DEFINE h == Seal(f, bmdt)
               i == 2
    <2>5. i \in 1..Len(f) /\ IsMoov(f[i]) /\ h = [f EXCEPT ![i] = box]
      BY <2>1, <2>4
    <2> HIDE DEF h, i
    <2>6. Alike(f, h) /\ Len(h) = Len(f) /\ h[i] = box
      BY <1>3, <2>3, <2>5
    <2>7. Len(f) >= 2
      BY DEF Headed
    <2> QED
      BY <2>3, <2>6, <2>7 DEF Headed, h, i
  <1>5. CASE opts.mehd /\ f[2].kind # "moov"
    <2>1. ~IsMoov(f[2])
      <3>1. \A x : IsMoov(x) => x.kind = "moov"
        BY DEF IsMoov
      <3> QED
        BY <1>5, <3>1
    <2>2. IsMoov(f[3]) /\ f[2] = Ftyp /\ 3 \in 1..Len(f) /\ 2 \in 1..Len(f)
      BY <1>1, <2>1 DEF Headed
    <2> DEFINE box == [f[3] EXCEPT !.overwritten = TRUE]
    <2>4. IsMoov(box)
      BY <2>2, ZenonT(60), SMTT(30) DEF IsMoov
    <2>5. Seal(f, bmdt) = [f EXCEPT ![3] = box]
      BY <1>5 DEF Seal
    <2> HIDE DEF box
    <2> DEFINE h == Seal(f, bmdt)
               i == 3
               j == 2
    <2>6. /\ i \in 1..Len(f) /\ IsMoov(f[i]) /\ h = [f EXCEPT ![i] = box]
          /\ j \in 1..Len(f) /\ j # i
      BY <2>2, <2>5
    <2> HIDE DEF h, i, j
    <2>7. Alike(f, h) /\ Len(h) = Len(f) /\ h[i] = box /\ h[j] = f[j]
      BY <1>3, <2>4, <2>6, ZenonT(60), SMTT(30)
    <2>8. Len(f) >= 3 /\ Len(f) >= 2
      BY <2>2
    <2> QED
      BY <2>2, <2>4, <2>7, <2>8 DEF Headed, h, i, j
  <1> QED
    BY <1>2, <1>4, <1>5

(***************************************************************************)
(* Types.                                                                  *)
(***************************************************************************)
FileInv ==
    /\ QueueInv /\ HeaderInv /\ RequestsInv /\ IsFile(file)
    /\ trailerWritten \in BOOLEAN
    /\ sequenceNumber \in Nat /\ asked \in Nat /\ gaps \in Nat
    /\ nextBmdt \in [Track -> Nat]
    /\ tfraEntries \in [Track -> Seq(Entry)]

(* A flush takes requests, and makes none.                                 *)
Takes ==
    /\ stypOverride' \in {stypOverride, {}} /\ pendingPrft' \in {pendingPrft, {}}
    /\ pendingMoofPssh' \in {pendingMoofPssh, <<>>}
    /\ pendingEmsg' \in {pendingEmsg, <<>>}

LEMMA BreaksTakes ==
    ASSUME NEW b, FlushBreaks(b)
    PROVE  Takes /\ sequenceNumber' = sequenceNumber + 1
  <1>1. ASSUME FlushFails(b)
        PROVE  pendingMoofPssh' = <<>> /\ sequenceNumber' = sequenceNumber + 1
    BY <1>1 DEF FlushFails
  <1>2. CASE FlushRejected(b)
    BY <1>1, <1>2 DEF FlushRejected, Takes
  <1>3. ASSUME NEW n \in 0..9, FlushCut(b, n)
        PROVE  Takes /\ sequenceNumber' = sequenceNumber + 1
    BY <1>1, <1>3 DEF FlushCut, Takes
  <1> QED
    BY <1>2, <1>3 DEF FlushBreaks

LEMMA TakesRequests == \A b : TakeRequests(b) => Takes
  BY DEF TakeRequests, Takes, requests

LEMMA SequenceNat ==
    ASSUME sequenceNumber \in Nat, NEW b
    PROVE  SequenceAfter(b) \in Nat
  BY DEF SequenceAfter

LEMMA FlushTakes ==
    ASSUME sequenceNumber \in Nat, NEW b, Flush(b)
    PROVE  Takes /\ sequenceNumber' \in Nat
  <1>1. CASE FlushDone(b)
    BY <1>1, TakesRequests, SequenceNat DEF FlushDone
  <1>2. CASE FlushBreaks(b)
    BY <1>2, BreaksTakes
  <1> QED
    BY <1>1, <1>2 DEF Flush

LEMMA RequestsNext ==
    ASSUME RequestsInv, sequenceNumber \in Nat, asked \in Nat, gaps \in Nat,
           trailerWritten \in BOOLEAN, [Next]_vars
    PROVE  /\ RequestsInv'
           /\ sequenceNumber' \in Nat /\ asked' \in Nat /\ gaps' \in Nat
           /\ trailerWritten' \in BOOLEAN
  <1> DEFINE Counts == /\ sequenceNumber' \in Nat /\ asked' \in Nat /\ gaps' \in Nat
                       /\ trailerWritten' \in BOOLEAN
  <1>1. ASSUME Takes PROVE RequestsInv'
    <2>1. IsFile(<<>>)
      BY OnlyEmpty DEF Only
    <2> QED
      BY <1>1, <2>1 DEF Takes, RequestsInv
  <1>2. ASSUME UNCHANGED requests PROVE Takes
    BY <1>2 DEF requests, Takes
  <1>3. ASSUME NEW q, IsFile(q), NEW x, x.size \in Nat \ {0}
        PROVE  IsFile(Append(q, x))
    <2>1. PICK S : q \in Seq(S)
      BY <1>3 DEF IsFile
    <2>2. /\ Append(q, x) \in Seq(S \cup {x}) /\ Len(Append(q, x)) = Len(q) + 1
          /\ Append(q, x)[Len(q) + 1] = x
          /\ \A k \in 1..Len(q) : Append(q, x)[k] = q[k]
      BY <2>1
    <2>3. Len(q) \in Nat
      BY <2>1
    <2> QED
      BY <1>3, <2>2, <2>3 DEF IsFile
  <1>4. CASE WriteHeader \/ HeaderFails \/ UNCHANGED vars
    BY <1>1, <1>2, <1>4 DEF WriteHeader, HeaderFails, vars, output
  <1>5. CASE \E size \in StypSizes : SetStyp(size)
    <2>1. PICK size \in StypSizes : SetStyp(size)
      BY <1>5
    <2>2. size \in Nat \ {0}
      BY RequestsAssumption
    <2>3. asked' = asked + 1 /\ UNCHANGED <<sequenceNumber, gaps, trailerWritten>>
      BY <2>1 DEF SetStyp, Ask, output
    <2>4. /\ stypOverride' = {[id |-> asked + 1, size |-> size]}
          /\ UNCHANGED <<pendingPrft, pendingMoofPssh, pendingEmsg>>
      BY <2>1 DEF SetStyp
    <2> QED
      BY <2>2, <2>3, <2>4 DEF RequestsInv
  <1>6. CASE \E size \in PrftSizes : SetPrft(size)
    <2>1. PICK size \in PrftSizes : SetPrft(size)
      BY <1>6
    <2>2. size \in Nat \ {0}
      BY RequestsAssumption
    <2>3. asked' = asked + 1 /\ UNCHANGED <<sequenceNumber, gaps, trailerWritten>>
      BY <2>1 DEF SetPrft, Ask, output
    <2>4. /\ pendingPrft' = {[id |-> asked + 1, size |-> size]}
          /\ UNCHANGED <<stypOverride, pendingMoofPssh, pendingEmsg>>
      BY <2>1 DEF SetPrft
    <2> QED
      BY <2>2, <2>3, <2>4 DEF RequestsInv
  <1>7. CASE \E x \in PsshBoxes : SetPssh(x)
    <2>1. PICK x \in PsshBoxes : SetPssh(x)
      BY <1>7
    <2>2. x.size \in Nat \ {0}
      BY RequestsAssumption
    <2> DEFINE r == [id |-> asked + 1, ok |-> x.ok, size |-> x.size]
    <2>3. asked' = asked + 1 /\ UNCHANGED <<sequenceNumber, gaps, trailerWritten>>
      BY <2>1 DEF SetPssh, Ask, output
    <2>4. /\ pendingMoofPssh' = Append(pendingMoofPssh, r)
          /\ UNCHANGED <<stypOverride, pendingPrft, pendingEmsg>>
      BY <2>1 DEF SetPssh
    <2>5. r.size \in Nat \ {0}
      BY <2>2
    <2> HIDE DEF r
    <2>6. IsFile(pendingMoofPssh')
      BY <1>3, <2>4, <2>5 DEF RequestsInv
    <2> QED
      BY <2>3, <2>4, <2>6 DEF RequestsInv
  <1>8. CASE \E x \in EmsgBoxes : SetEmsg(x)
    <2>1. PICK x \in EmsgBoxes : SetEmsg(x)
      BY <1>8
    <2>2. x.size \in Nat \ {0}
      BY RequestsAssumption
    <2> DEFINE r == [id |-> asked + 1, ok |-> x.ok, size |-> x.size]
    <2>3. asked' = asked + 1 /\ UNCHANGED <<sequenceNumber, gaps, trailerWritten>>
      BY <2>1 DEF SetEmsg, Ask, output
    <2>4. /\ pendingEmsg' = Append(pendingEmsg, r)
          /\ UNCHANGED <<stypOverride, pendingPrft, pendingMoofPssh>>
      BY <2>1 DEF SetEmsg
    <2>5. r.size \in Nat \ {0}
      BY <2>2
    <2> HIDE DEF r
    <2>6. IsFile(pendingEmsg')
      BY <1>3, <2>4, <2>5 DEF RequestsInv
    <2> QED
      BY <2>3, <2>4, <2>6 DEF RequestsInv
  <1>9. CASE \E p \in Packets : QueuePacket(p)
    <2>1. PICK p \in Packets : QueuePacket(p)
      BY <1>9
    <2>2. UNCHANGED <<trailerWritten, asked, gaps>>
      BY <2>1 DEF QueuePacket
    <2>3. CASE ShouldFlush(PendingWith(p), p)
      <3>1. Flush(CadenceBatch(PendingWith(p), SencWith(p), SeigWith(p)))
        BY <2>1, <2>3 DEF QueuePacket
      <3> QED
        BY <1>1, <2>2, <3>1, FlushTakes
    <2>4. CASE ~ShouldFlush(PendingWith(p), p)
      BY <1>1, <1>2, <2>1, <2>2, <2>4 DEF QueuePacket, output
    <2> QED
      BY <2>3, <2>4
  <1>10. CASE FlushFragment
    <2>1. Flush(Queued) /\ UNCHANGED <<trailerWritten, asked, gaps>>
      BY <1>10 DEF FlushFragment
    <2> QED
      BY <1>1, <2>1, FlushTakes
  <1>11. ASSUME NEW extra, NEW seq, NEW bmdt, FlushThen(extra, seq, bmdt)
         PROVE  Takes /\ sequenceNumber' = seq
    BY <1>11, TakesRequests DEF FlushThen
  <1>12. CASE \E t \in Track, d \in GapDurations : InsertEmptyTime(t, d)
    <2>1. PICK t \in Track, d \in GapDurations : InsertEmptyTime(t, d)
      BY <1>12
    <2>2. gaps' = gaps + 1 /\ UNCHANGED <<trailerWritten, asked>>
      BY <2>1 DEF InsertEmptyTime
    <2>3. Takes /\ sequenceNumber' \in Nat
      <3>1. SequenceAfter(Queued) + 1 \in Nat
        BY SequenceNat
      <3> QED
        BY <1>11, <2>1, <3>1, BreaksTakes DEF InsertEmptyTime
    <2> QED
      BY <1>1, <2>2, <2>3
  <1>13. CASE WriteTrailer
    <2>1. UNCHANGED <<asked, gaps>>
      BY <1>13 DEF WriteTrailer
    <2>2. trailerWritten' \in BOOLEAN
      BY <1>13 DEF WriteTrailer, TrailerDone, TrailerCut
    <2>3. Takes /\ sequenceNumber' \in Nat
      <3>1. SequenceAfter(Queued) \in Nat
        BY SequenceNat
      <3>2. TrailerDone => Takes /\ sequenceNumber' \in Nat
        BY <3>1, TakesRequests DEF TrailerDone
      <3>3. TrailerCut => Takes /\ sequenceNumber' \in Nat
        BY <1>11, <3>1 DEF TrailerCut
      <3> QED
        BY <1>13, <3>2, <3>3, BreaksTakes DEF WriteTrailer
    <2> QED
      BY <1>1, <2>1, <2>2, <2>3
  <1> QED
    BY <1>4, <1>5, <1>6, <1>7, <1>8, <1>9, <1>10, <1>12, <1>13 DEF Next

LEMMA BmdtTyped ==
    ASSUME nextBmdt \in [Track -> Nat], NEW b, BatchTyped(b.pending, b.senc, b.seig)
    PROVE  BmdtAfter(b) \in [Track -> Nat]
  <1>1. ASSUME NEW t \in Track PROVE nextBmdt[t] + Ticks(b.pending[t]) \in Nat
    BY TaggedTyped, TimedSums
  <1> QED
    BY <1>1 DEF BmdtAfter

LEMMA TfraTyped ==
    ASSUME FileInv, NEW b, BatchInv(b)
    PROVE  TfraAfter(b) \in [Track -> Seq(Entry)]
  <1>1. ASSUME NEW t \in Track PROVE tfraEntries[t] \o SyncEntries(b, t) \in Seq(Entry)
    <2>1. SyncEntries(b, t) \in Seq(Entry)
      BY SyncEntriesTyped DEF FileInv, QueueInv, BatchInv
    <2>2. tfraEntries[t] \in Seq(Entry)
      BY DEF FileInv
    <2> QED
      BY <2>1, <2>2
  <1> QED
    BY <1>1 DEF TfraAfter

LEMMA EndsTyped ==
    ASSUME FileInv, NEW b, BatchInv(b), NEW extra, NEW bmdt, Ends(b, extra, bmdt)
    PROVE  Only({"mfra", "moof"}, extra) /\ bmdt \in [Track -> Nat]
  <1>1. BmdtAfter(b) \in [Track -> Nat]
    BY BmdtTyped DEF FileInv, BatchInv
  <1>2. CASE extra = <<>> /\ bmdt = BmdtAfter(b)
    BY <1>1, <1>2, OnlyEmpty
  <1>3. CASE extra = Index(TfraAfter(b)) /\ bmdt = BmdtAfter(b)
    <2>1. Only({"mfra"}, extra)
      BY <1>3, TfraTyped, IndexIs
    <2> QED
      BY <1>1, <1>3, <2>1, OnlyWidens
  <1>4. ASSUME NEW t \in Track, NEW d \in GapDurations, NEW seq, d > 0,
               extra = <<GapMoof(seq, t, BmdtAfter(b)[t], d)>>,
               bmdt = [BmdtAfter(b) EXCEPT ![t] = @ + d]
        PROVE  Only({"mfra", "moof"}, extra) /\ bmdt \in [Track -> Nat]
    <2>1. Only({"moof"}, extra)
      BY <1>4, GapIs
    <2>2. d \in Nat
      BY <1>4, GapsAssumption
    <2>3. BmdtAfter(b)[t] + d \in Nat
      BY <1>1, <2>2
    <2> QED
      BY <1>1, <1>4, <2>1, <2>3, OnlyWidens
  <1> QED
    BY <1>2, <1>3, <1>4 DEF Ends

Chunk(b, extra) == IF Idle(b) THEN extra ELSE Segment(b) \o extra

LEMMA ChunkIs ==
    ASSUME FileInv, NEW b, BatchInv(b), NEW extra, IsFile(extra)
    PROVE  /\ FileAfter(b) \o extra = file \o Chunk(b, extra)
           /\ IsFile(Chunk(b, extra))
  <1>1. IsFile(Segment(b)) /\ IsFile(file)
    BY SegmentedFile DEF FileInv, QueueInv
  <1>2. PICK S : file \in Seq(S)
    BY <1>1 DEF IsFile
  <1>3. PICK R : Segment(b) \in Seq(R)
    BY <1>1 DEF IsFile
  <1>4. PICK V : extra \in Seq(V)
    BY DEF IsFile
  <1> DEFINE U == S \cup R \cup V
             s == Segment(b)
             f == file
  <1>5. f \in Seq(U) /\ s \in Seq(U) /\ extra \in Seq(U)
    BY <1>2, <1>3, <1>4
  <1> HIDE DEF U, s, f
  <1>6. (f \o s) \o extra = f \o (s \o extra)
    BY <1>5, ConcatAssociative
  <1> QED
    BY <1>1, <1>6, FileConcat DEF FileAfter, Chunk, s, f

LEMMA HeadedConcat ==
    ASSUME NEW f, NEW g, IsFile(f), IsFile(g), Headed(f)
    PROVE  Headed(f \o g)
  <1>1. /\ Len(f \o g) = Len(f) + Len(g)
        /\ \A k \in 1..Len(f) : (f \o g)[k] = f[k]
    BY FileConcat
  <1>2. Len(f) \in Nat /\ Len(g) \in Nat /\ Len(f) >= 2
    BY DEF IsFile, Headed
  <1>3. 2 \in 1..Len(f) /\ (Len(f) >= 3 => 3 \in 1..Len(f))
    BY <1>2
  <1> DEFINE c == f \o g
  <1> HIDE DEF c
  <1>4. c[2] = f[2] /\ (Len(f) >= 3 => c[3] = f[3])
    BY <1>1, <1>3 DEF c
  <1>5. Len(c) = Len(f) + Len(g)
    BY <1>1 DEF c
  <1>6. Headed(c)
    BY <1>2, <1>4, <1>5 DEF Headed
  <1> QED
    BY <1>6 DEF c

(* What a broken flush leaves behind: nothing, or the first boxes of the   *)
(* segment; without a failing write, at most boxes of the prelude.         *)
LEMMA BrokenIs ==
    ASSUME FileInv, NEW b, BatchInv(b), FlushBreaks(b)
    PROVE  \E g : /\ Only(SegmentKinds, g) /\ file' = file \o g
                  /\ ~opts.io => Only(PreludeKinds, g)
                  /\ UNCHANGED <<nextBmdt, tfraEntries, published>>
  <1>1. UNCHANGED <<nextBmdt, tfraEntries, published>>
    BY DEF FlushBreaks, FlushRejected, FlushCut, FlushFails
  <1>2. PICK S : file \in Seq(S)
    BY DEF FileInv, IsFile
  <1>3. file \o <<>> = file
    BY <1>2, ConcatEmptySeq
  <1>4. CASE file' = file
    <2>1. Only(SegmentKinds, <<>>) /\ Only(PreludeKinds, <<>>) /\ file' = file \o <<>>
      BY <1>3, <1>4, OnlyEmpty
    <2> QED
      BY <1>1, <2>1
  <1>5. CASE file' # file
    <2>1. PICK n \in 0..9 : FlushCut(b, n)
      BY <1>5 DEF FlushBreaks, FlushRejected
    <2> DEFINE s == Segment(b)
               g == SubSeq(s, 1, n)
    <2>2. /\ Only(SegmentKinds, s) /\ Len(s) = Len(Prelude(b)) + 2
          /\ \A i \in 1..(Len(s) - 1) :
                SubSeq(s, 1, i) = IF i <= Len(Prelude(b)) THEN SubSeq(Prelude(b), 1, i)
                                  ELSE Prelude(b) \o <<BuildMoof(b)>>
          /\ Only(PreludeKinds, Prelude(b))
      BY SegmentIs, PreludeIs DEF FileInv, QueueInv, BatchInv
    <2>3. n < Len(s) /\ file' = file \o g
      BY <2>1 DEF FlushCut
    <2> HIDE DEF s
    <2>4. n \in 0..Len(s) /\ Len(s) \in Nat
      <3>1. Len(s) \in Nat
        BY <2>2 DEF Only, IsFile
      <3> QED
        BY <2>3, <3>1
    <2>5. Only(SegmentKinds, g)
      BY <2>2, <2>4, OnlyPart
    <2>6. ASSUME ~opts.io PROVE Only(PreludeKinds, g)
      <3>1. n = 1 /\ ~SsixBuilds(b)
        BY <2>1, <2>6 DEF FlushCut
      <3>2. opts.indexes /\ opts.ssix
        BY <3>1 DEF SsixBuilds
      <3>3. Len(Indexes(b)) = 2
        BY <3>2, PairIs DEF Indexes
      <3>4. Len(Prelude(b)) >= 1
        <4>1. /\ IsFile(Indexes(b)) /\ IsFile(Styp) /\ IsFile(Emsg) /\ IsFile(Prft)
          BY IndexesIs, StypIs, EmsgIs, PrftIs DEF Only, FileInv, QueueInv
        <4>2. Len(Prelude(b)) = Len(Indexes(b)) + Len(Styp) + Len(Emsg) + Len(Prft)
          <5>1. /\ IsFile(Indexes(b) \o Styp)
                /\ Len(Indexes(b) \o Styp) = Len(Indexes(b)) + Len(Styp)
            BY <4>1, FileConcat
          <5>2. /\ IsFile(Indexes(b) \o Styp \o Emsg)
                /\ Len(Indexes(b) \o Styp \o Emsg) = Len(Indexes(b) \o Styp) + Len(Emsg)
            BY <4>1, <5>1, FileConcat
          <5>3. Len(Indexes(b) \o Styp \o Emsg \o Prft)
                  = Len(Indexes(b) \o Styp \o Emsg) + Len(Prft)
            BY <4>1, <5>2, FileConcat
          <5> QED
            BY <5>1, <5>2, <5>3 DEF Prelude
        <4>3. Len(Styp) \in Nat /\ Len(Emsg) \in Nat /\ Len(Prft) \in Nat
          BY <4>1 DEF IsFile
        <4> QED
          BY <3>3, <4>2, <4>3
      <3>5. Len(Prelude(b)) \in Nat
        BY <2>2 DEF Only, IsFile
      <3>6. n \in 1..(Len(s) - 1) /\ n <= Len(Prelude(b)) /\ n \in 0..Len(Prelude(b))
        BY <2>2, <3>1, <3>4, <3>5
      <3>7. g = SubSeq(Prelude(b), 1, n)
        BY <2>2, <3>6
      <3> QED
        BY <2>2, <3>6, <3>7, OnlyPart
    <2> QED
      BY <1>1, <2>3, <2>5, <2>6
  <1> QED
    BY <1>4, <1>5

LEMMA AlikeFile ==
    ASSUME NEW f, NEW h, IsFile(f), Alike(f, h)
    PROVE  IsFile(h)
  BY DEF IsFile, Alike

LEMMA HeaderFile ==
    ASSUME NEW mehd
    PROVE  /\ Only({"ftyp", "moov"}, <<Ftyp>>)
           /\ Only({"ftyp", "moov"}, <<Ftyp, Moov(mehd)>>)
           /\ Len(<<Ftyp, Moov(mehd)>>) = 2
           /\ <<Ftyp, Moov(mehd)>>[1] = Ftyp
           /\ <<Ftyp, Moov(mehd)>>[2] = Moov(mehd) /\ IsMoov(Moov(mehd))
  <1> DEFINE moov == Moov(mehd)
             K == {"ftyp", "moov"}
  <1>1. Ftyp.size \in Nat \ {0} /\ Ftyp.kind \in K
    BY DEF Ftyp
  <1>2. moov.size \in Nat \ {0} /\ moov.kind \in K /\ IsMoov(moov)
    BY DEF Moov, IsMoov
  <1> HIDE DEF moov, K
  <1>3. Only(K, <<Ftyp>>) /\ Only(K, <<moov>>)
    BY <1>1, <1>2, OnlyOne
  <1>4. /\ <<Ftyp>> \o <<moov>> = <<Ftyp, moov>> /\ Len(<<Ftyp, moov>>) = 2
        /\ <<Ftyp, moov>>[1] = Ftyp /\ <<Ftyp, moov>>[2] = moov
    BY PairIs
  <1>5. Only(K, <<Ftyp, moov>>)
    BY <1>3, <1>4, OnlyConcat, Zenon
  <1> QED
    BY <1>2, <1>3, <1>4, <1>5 DEF moov, K

(* The file only ever grows, up to the patch of the moov.                  *)
LEMMA FileGrows ==
    ASSUME FileInv, FileStep
    PROVE  /\ \E g : IsFile(g) /\ Alike(file \o g, file')
           /\ headerWritten => Headed(file')
           /\ nextBmdt' \in [Track -> Nat] /\ tfraEntries' \in [Track -> Seq(Entry)]
  <1>0. IsFile(file) /\ nextBmdt \in [Track -> Nat] /\ tfraEntries \in [Track -> Seq(Entry)]
        /\ HeaderInv
    BY DEF FileInv
  <1>1. PICK S : file \in Seq(S)
    BY <1>0 DEF IsFile
  <1>2. file \o <<>> = file /\ IsFile(<<>>)
    BY <1>1, ConcatEmptySeq, OnlyEmpty DEF Only
  <1>3. \A g : IsFile(g) => IsFile(file \o g) /\ Alike(file \o g, file \o g)
    BY <1>0, FileConcat, AlikeSelf
  <1>4. CASE UNCHANGED output
    <2>1. UNCHANGED <<nextBmdt, tfraEntries>> /\ file' = file \o <<>>
      BY <1>2, <1>4 DEF output
    <2>2. Alike(file \o <<>>, file')
      BY <1>2, <1>3, <2>1
    <2> QED
      BY <1>0, <1>2, <2>1, <2>2 DEF HeaderInv
  <1>5. CASE Opens
    <2>1. ~headerWritten /\ UNCHANGED <<nextBmdt, tfraEntries>>
      BY <1>5 DEF Opens
    <2>2. \E g : IsFile(g) /\ file' = file \o g
      <3>1. CASE file' = file \o <<Ftyp>>
        BY <3>1, HeaderFile DEF Only
      <3>2. CASE \E mehd : file' = file \o <<Ftyp, Moov(mehd)>>
        BY <3>2, HeaderFile DEF Only
      <3> QED
        BY <1>5, <3>1, <3>2 DEF Opens
    <2> QED
      BY <1>0, <1>3, <2>1, <2>2
  <1>6. ASSUME NEW b, BatchInv(b), FlushBreaks(b), headerWritten
        PROVE  /\ \E g : IsFile(g) /\ Alike(file \o g, file')
               /\ headerWritten => Headed(file')
               /\ nextBmdt' \in [Track -> Nat] /\ tfraEntries' \in [Track -> Seq(Entry)]
    <2>1. PICK g : IsFile(g) /\ file' = file \o g /\ UNCHANGED <<nextBmdt, tfraEntries>>
      BY <1>6, BrokenIs DEF Only
    <2>2. Headed(file')
      BY <1>0, <1>6, <2>1, HeadedConcat DEF HeaderInv
    <2> QED
      BY <1>0, <1>3, <2>1, <2>2
  <1>7. ASSUME NEW b, BatchInv(b), NEW extra, Completes(b, extra), headerWritten
        PROVE  /\ \E g : IsFile(g) /\ Alike(file \o g, file')
               /\ headerWritten => Headed(file')
               /\ nextBmdt' \in [Track -> Nat] /\ tfraEntries' \in [Track -> Seq(Entry)]
    <2> DEFINE g == Chunk(b, extra)
    <2>1. Ends(b, extra, nextBmdt')
      BY <1>7 DEF Completes
    <2>2. IsFile(extra) /\ nextBmdt' \in [Track -> Nat]
      BY <1>7, <2>1, EndsTyped DEF Only
    <2>3. tfraEntries' \in [Track -> Seq(Entry)]
      BY <1>7, TfraTyped DEF Completes
    <2>4. FileAfter(b) \o extra = file \o g /\ IsFile(g)
      BY <1>7, <2>2, ChunkIs
    <2>5. file' = file \o g \/ file' = Seal(file \o g, nextBmdt')
      BY <1>7, <2>4 DEF Completes
    <2> HIDE DEF g
    <2>6. Headed(file \o g) /\ IsFile(file \o g)
      BY <1>0, <1>3, <1>7, <2>4, HeadedConcat DEF HeaderInv
    <2>7. Alike(file \o g, file') /\ Headed(file')
      BY <2>5, <2>6, AlikeSelf, SealIs
    <2> QED
      BY <2>2, <2>3, <2>4, <2>7
  <1> QED
    BY <1>4, <1>5, <1>6, <1>7 DEF FileStep

LEMMA HeaderNext ==
    ASSUME FileInv, [Next]_vars, FileStep
    PROVE  HeaderInv'
  <1>1. CASE headerWritten
    <2>1. headerWritten'
      <3>1. CASE FlushingCall
        BY <1>1, <3>1, FlushingOutcome DEF FileInv
      <3>2. CASE QuietCall
        BY <1>1, <3>2, QuietOutcome
      <3> QED
        BY <1>1, <3>1, <3>2, StepIsACall DEF WriteHeader, QueuePacket
    <2>2. Headed(file')
      BY <1>1, FileGrows
    <2> QED
      BY <2>1, <2>2 DEF HeaderInv
  <1>2. CASE ~headerWritten
    <2>1. file \in {<<>>, <<Ftyp>>} /\ pending = Empty
      BY <1>2 DEF FileInv, HeaderInv
    <2>2. CASE WriteHeader
      <3>1. /\ headerWritten' /\ UNCHANGED pending
            /\ file' = file \o <<Ftyp, Moov(Present(opts.mehd, 0))>>
        BY <2>2 DEF WriteHeader, queues
      <3> DEFINE moov == Moov(Present(opts.mehd, 0))
                 g == <<Ftyp, moov>>
      <3>2. /\ Len(g) = 2 /\ g[1] = Ftyp /\ g[2] = moov /\ IsMoov(moov)
            /\ IsFile(g) /\ IsFile(file)
        BY HeaderFile DEF FileInv, Only
      <3>3. file' = file \o g
        BY <3>1
      <3> HIDE DEF g, moov
      <3>4. /\ Len(file \o g) = Len(file) + Len(g)
            /\ \A k \in 1..Len(g) : (file \o g)[Len(file) + k] = g[k]
        <4>1. IsFile(file) /\ IsFile(g)
          BY <3>2
        <4>2. Len(file \o g) = Len(file) + Len(g)
          BY <4>1, FileConcat
        <4>3. \A k \in 1..Len(g) : (file \o g)[Len(file) + k] = g[k]
          BY <4>1, FileConcat
        <4> QED
          BY <4>2, <4>3
      <3>5. 1 \in 1..Len(g) /\ 2 \in 1..Len(g)
        BY <3>2
      <3>6. CASE file = <<>>
        <4>1. Len(file) = 0
          BY <3>6
        <4>2. (file \o g)[0 + 2] = g[2] /\ Len(file \o g) = 2
          BY <3>2, <3>4, <3>5, <4>1
        <4>3. Headed(file')
          BY <3>2, <3>3, <4>2 DEF Headed
        <4> QED
          BY <3>1, <4>3 DEF HeaderInv
      <3>7. CASE file = <<Ftyp>>
        <4>1. Len(file) = 1
          BY <3>7
        <4>2. /\ (file \o g)[1 + 1] = g[1] /\ (file \o g)[1 + 2] = g[2]
              /\ Len(file \o g) = 3
          BY <3>2, <3>4, <3>5, <4>1
        <4>3. Headed(file')
          BY <3>2, <3>3, <4>2 DEF Headed
        <4> QED
          BY <3>1, <4>3 DEF HeaderInv
      <3> QED
        BY <2>1, <3>6, <3>7
    <2>3. CASE QuietCall
      <3>1. UNCHANGED <<headerWritten, pending>>
        BY <2>3, QuietOutcome
      <3>2. file' \in {<<>>, <<Ftyp>>}
        BY <2>1, <2>3 DEF QuietCall, HeaderFails, SetStyp, SetPrft, SetPssh, SetEmsg, Ask,
           vars, output
      <3> QED
        BY <1>2, <2>1, <3>1, <3>2 DEF HeaderInv
    <2>4. CASE FlushingCall
      <3>1. ~FlushFragment
        BY <2>1 DEF FlushFragment, Idle, Queued, WholeBatch, Empty
      <3> QED
        BY <1>2, <2>4, <3>1 DEF FlushingCall, InsertEmptyTime, GapAllowed, WriteTrailer
    <2>5. CASE \E p \in Packets : QueuePacket(p)
      BY <1>2, <2>5 DEF QueuePacket, Admissible
    <2> QED
      BY <2>2, <2>3, <2>4, <2>5, StepIsACall
  <1> QED
    BY <1>1, <1>2

LEMMA FileInvInit == Init => FileInv
  <1> SUFFICES ASSUME Init PROVE FileInv
    OBVIOUS
  <1>1. IsFile(<<>>)
    BY OnlyEmpty DEF Only
  <1>2. Empty \in [Track -> Seq(Entry)]
    BY DEF Empty
  <1>3. [t \in Track |-> 0] \in [Track -> Nat]
    OBVIOUS
  <1> QED
    BY <1>1, <1>2, <1>3, QueueInvInit DEF Init, FileInv, HeaderInv, RequestsInv

LEMMA FileInvNext == FileInv /\ [Next]_vars => FileInv'
  <1> SUFFICES ASSUME FileInv, [Next]_vars PROVE FileInv'
    OBVIOUS
  <1>1. FileStep
    BY EveryStep DEF FileInv
  <1>2. QueueInv'
    BY QueueInvNext DEF FileInv
  <1>3. HeaderInv'
    BY <1>1, HeaderNext
  <1>4. /\ RequestsInv' /\ sequenceNumber' \in Nat /\ asked' \in Nat /\ gaps' \in Nat
        /\ trailerWritten' \in BOOLEAN
    BY RequestsNext DEF FileInv
  <1>5. PICK g : IsFile(g) /\ Alike(file \o g, file')
    BY <1>1, FileGrows
  <1>6. IsFile(file')
    BY <1>5, FileConcat, AlikeFile DEF FileInv
  <1>7. nextBmdt' \in [Track -> Nat] /\ tfraEntries' \in [Track -> Seq(Entry)]
    BY <1>1, FileGrows
  <1> QED
    BY <1>2, <1>3, <1>4, <1>6, <1>7 DEF FileInv

LEMMA FileInvAlways == Spec => []FileInv
  <1> QED
    BY FileInvInit, FileInvNext, PTL DEF Spec

(* Every variable holds a value of its type in every state, whatever       *)
(* fails: in particular every box of the file has a size (the length       *)
(* fields flush_fragment and write_trailer compute).                       *)
THEOREM FileTyped == Spec => []TypeOK
  <1>1. FileInv => TypeOK
    BY DEF FileInv, TypeOK, QueueInv, IsFile
  <1> QED
    BY <1>1, FileInvAlways, PTL
=============================================================================
