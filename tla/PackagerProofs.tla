--------------------------- MODULE PackagerProofs ----------------------------
(***************************************************************************)
(* What a packager promises, for every set of streams, protections,        *)
(* packets and rotations and every bound.                                  *)
(*                                                                         *)
(* Fresh vectors: whatever a call does, the counter of a stream is above   *)
(* the high half of every vector handed over (Below), so the next vector   *)
(* is new (Apart); and every octet of the keystream that went into a       *)
(* sample carries the high half of that sample's vector (Marked), which    *)
(* keeps the keystream blocks of two samples apart although the block      *)
(* counters of both start at zero.                                         *)
(*                                                                         *)
(* Decryption: the steps of a cipher plan tile the sample and its          *)
(* encrypted steps cover exactly the octets the standard encrypts (Tiles,  *)
(* PlanTiles); over such a plan, counter mode and block chaining undo      *)
(* themselves (CtrRoundTrip, CbcRoundTrip); every sample of a protected    *)
(* stream was encrypted under the key its store held for the KID in force, *)
(* with parameters a reader works out again from the boxes of its fragment *)
(* (Locked, LockedReads).                                                  *)
(***************************************************************************)
EXTENDS PackagerContract, TrackProofs, TLAPS, FiniteSetTheorems, SequenceTheorems

Below ==
    \A s \in Stream : \A k \in DOMAIN handed[s] : \A v \in handed[s][k].iv :
        /\ v.high \in Nat
        /\ \A c \in tracks[s] : v.high < c.ivCounter
Apart ==
    \A s \in Stream : \A j, k \in DOMAIN handed[s] :
        \A v \in handed[s][j].iv, w \in handed[s][k].iv : j # k => v.high # w.high
MarkedBy(octets, v) ==
    \A i \in DOMAIN octets : \A m \in octets[i].masks : m[2] = v.high
Marked ==
    \A s \in Stream : CounterMode(s) =>
        \A k \in DOMAIN handed[s] : \A v \in handed[s][k].iv :
            MarkedBy(handed[s][k].data, v)
CryptoFields == {"scheme", "tenc", "keys", "override", "ivCounter"}
Typed ==
    /\ DOMAIN handed = Stream /\ DOMAIN tracks = Stream
    /\ \A s \in Stream : \E S : handed[s] \in Seq(S)
    /\ \A s \in Stream : \A c \in tracks[s] :
          /\ DOMAIN c = CryptoFields
          /\ c = [f \in CryptoFields |-> c[f]]
          /\ c.ivCounter \in Nat
          /\ \E p \in config[s] : c.scheme = p.scheme
FreshInv == Typed /\ Below /\ Apart /\ Marked

(* Counter mode marks every octet it changes with the vector's high half.  *)
LEMMA CtrMarks ==
    ASSUME NEW key, NEW iv, NEW plan, NEW len, NEW octets,
           octets = RunCtr(key, iv, plan, Plaintext(len))
    PROVE  \A i \in DOMAIN octets : \A m \in octets[i].masks : m[2] = iv.high
  <1> SUFFICES ASSUME NEW i \in DOMAIN RunCtr(key, iv, plan, Plaintext(len)),
                      NEW m \in RunCtr(key, iv, plan, Plaintext(len))[i].masks
               PROVE  m[2] = iv.high
    OBVIOUS
  <1> DEFINE data == Plaintext(len)
             out == RunCtr(key, iv, plan, data)
  <1>1. i \in DOMAIN data /\ data[i] = [text |-> <<i>>, masks |-> {}]
    BY DEF RunCtr, Plaintext, Octet
  <1>2. out[i] = data[i] \/ \E position : out[i] = Masked(data[i], KeystreamOctet(key, iv, position))
    BY <1>1, Zenon DEF RunCtr
  <1>3. CASE out[i] = data[i]
    BY <1>1, <1>3
  <1>4. ASSUME NEW position, out[i] = Masked(data[i], KeystreamOctet(key, iv, position))
        PROVE  m[2] = iv.high
    <2> DEFINE mask == KeystreamOctet(key, iv, position)
    <2>1. out[i].masks = {mask}
      BY <1>1, <1>4 DEF Masked
    <2>2. mask[2] = iv.high
      BY DEF KeystreamOctet, ExpandIv
    <2> QED
      BY <2>1, <2>2
  <1> QED
    BY <1>2, <1>3, <1>4

(* So does the cipher of a stream in counter mode, for a sample that comes *)
(* with a vector of its own.                                               *)
LEMMA EncryptionMarks ==
    ASSUME NEW d, d.scheme \in {"cenc", "cens"}, IvSupply(d.tenc) = "sample",
           NEW key, NEW v, NEW map, NEW len,
           NEW octets \in EncryptSample(d, key, {v}, map, Plaintext(len))
    PROVE  MarkedBy(octets, v)
  <1>1. CipherMode[d.scheme] = "ctr"
    BY DEF CipherMode
  <1>2. EffectiveIv(d, {v}) \subseteq {v}
    BY DEF EffectiveIv
  <1>3. \E plan : octets = RunCtr(key, v, plan, Plaintext(len))
    <2>1. PICK iv \in EffectiveIv(d, {v}) :
             \E plan \in PlanSampleCipher(d, map, Len(Plaintext(len))) :
                octets \in RunSteps(CipherMode[d.scheme], key, iv, plan,
                                    Plaintext(len), "encrypt")
      <3> DEFINE plans == PlanSampleCipher(d, map, Len(Plaintext(len)))
                 run(iv, plan) == RunSteps(CipherMode[d.scheme], key, iv, plan,
                                           Plaintext(len), "encrypt")
                 runs(iv) == UNION {run(iv, plan) : plan \in plans}
      <3>1. octets \in UNION {runs(iv) : iv \in EffectiveIv(d, {v})}
        <4>1. d.scheme \in DOMAIN CipherMode
          BY DEF CipherMode
        <4> QED
          BY <4>1, Zenon DEF EncryptSample, RunSample
      <3> HIDE DEF plans, run
      <3>2. PICK iv \in EffectiveIv(d, {v}) : octets \in runs(iv)
        BY <3>1
      <3>3. \E plan \in plans : octets \in run(iv, plan)
        BY <3>2
      <3> QED
        BY <3>3 DEF plans, run
    <2>2. iv = v
      BY <1>2
    <2> QED
      BY <1>1, <2>1, <2>2, Zenon DEF RunSteps
  <1>4. PICK plan : octets = RunCtr(key, v, plan, Plaintext(len))
    BY <1>3
  <1> QED
    BY <1>4, CtrMarks DEF MarkedBy

(***************************************************************************)
(* The actions.                                                            *)
(***************************************************************************)
(* What a protected stream hands over carries the vector the counter       *)
(* stands at, if any, and is marked by it in counter mode.                 *)
LEMMA ProtectedSample ==
    ASSUME Typed, NEW s \in Stream, NEW c \in tracks[s], NEW len, NEW map,
           NEW x \in Protect(s, c, len, map)
    PROVE  /\ x.iv \subseteq {NextIv(c)}
           /\ NextIv(c).high = c.ivCounter
           /\ x.iv = VectorOf(c)
           /\ CounterMode(s) => \A v \in x.iv : MarkedBy(x.data, v)
  <1> DEFINE tenc == EffectiveTenc(c.tenc, c.override)
  <1>1. PICK d \in Decision(c.scheme, tenc) :
           \E octets \in EncryptSample(d, c.keys[tenc.kid], VectorOf(c), map, Plaintext(len)) :
              x = [id |-> calls, len |-> len, map |-> map, iv |-> VectorOf(c),
                   group |-> c.override, store |-> c.keys, data |-> octets]
    BY Zenon DEF Protect
  <1>2. PICK octets \in EncryptSample(d, c.keys[tenc.kid], VectorOf(c), map, Plaintext(len)) :
              x = [id |-> calls, len |-> len, map |-> map, iv |-> VectorOf(c),
                   group |-> c.override, store |-> c.keys, data |-> octets]
    BY <1>1
  <1>3. d.scheme = c.scheme /\ d.tenc = tenc
    BY DEF Decision
  <1>4. x.iv = VectorOf(c) /\ x.data = octets
    BY <1>2
  <1>5. VectorOf(c) \subseteq {NextIv(c)} /\ NextIv(c).high = c.ivCounter
    BY DEF VectorOf, NextIv
  <1>6. ASSUME CounterMode(s), NEW v \in x.iv
        PROVE  MarkedBy(x.data, v)
    <2>1. c.scheme \in {"cenc", "cens"}
      BY <1>6 DEF CounterMode, Typed
    <2>2. IvSupply(tenc) = "sample" /\ VectorOf(c) = {v}
      BY <1>4, <1>5, <1>6 DEF VectorOf
    <2>3. octets \in EncryptSample(d, c.keys[tenc.kid], {v}, map, Plaintext(len))
      BY <1>2, <2>2
    <2>4. d.scheme \in {"cenc", "cens"} /\ IvSupply(d.tenc) = "sample"
      BY <1>3, <2>1, <2>2
    <2> QED
      BY <1>4, <2>3, <2>4, EncryptionMarks
  <1> QED
    BY <1>4, <1>5, <1>6

(* The counters of a step: none is lowered, and the schemes stay.          *)
Grows ==
    /\ DOMAIN tracks' = Stream
    /\ \A s \in Stream : \A b \in tracks'[s] : \E c \in tracks[s] :
          /\ DOMAIN b = CryptoFields /\ b = [f \in CryptoFields |-> b[f]]
          /\ b.scheme = c.scheme
          /\ b.ivCounter \in Nat /\ b.ivCounter >= c.ivCounter

LEMMA CountGrows ==
    ASSUME Typed, NEW s \in Stream, NEW c \in tracks[s],
           tracks' = [tracks EXCEPT ![s] = {CountVector(c)}]
    PROVE  /\ Grows
           /\ VectorOf(c) # {} => \A b \in tracks'[s] : c.ivCounter < b.ivCounter
  <1>1. Cardinality(VectorOf(c)) \in {0, 1} /\ (VectorOf(c) # {} => Cardinality(VectorOf(c)) = 1)
    BY FS_EmptySet, FS_Singleton DEF VectorOf
  <1>2. /\ DOMAIN CountVector(c) = CryptoFields
        /\ CountVector(c).scheme = c.scheme
        /\ CountVector(c).ivCounter = c.ivCounter + Cardinality(VectorOf(c))
        /\ CountVector(c) = [f \in CryptoFields |-> CountVector(c)[f]]
    BY DEF Typed, CountVector, CryptoFields
  <1>3. DOMAIN tracks' = Stream /\ tracks'[s] = {CountVector(c)}
        /\ \A r \in Stream : r # s => tracks'[r] = tracks[r]
    BY DEF Typed
  <1>4. c.ivCounter \in Nat
    BY DEF Typed
  <1>5. ASSUME NEW r \in Stream, NEW b \in tracks'[r], r # s
        PROVE  /\ b \in tracks[r]
               /\ DOMAIN b = CryptoFields /\ b = [f \in CryptoFields |-> b[f]]
               /\ b.ivCounter \in Nat /\ b.ivCounter >= b.ivCounter
    BY <1>3, <1>5 DEF Typed
  <1>6. ASSUME NEW b \in tracks'[s]
        PROVE  /\ DOMAIN b = CryptoFields /\ b = [f \in CryptoFields |-> b[f]]
               /\ b.scheme = c.scheme
               /\ b.ivCounter \in Nat /\ b.ivCounter >= c.ivCounter
               /\ VectorOf(c) # {} => c.ivCounter < b.ivCounter
    BY <1>1, <1>2, <1>3, <1>4
  <1> QED
    BY <1>3, <1>5, <1>6 DEF Grows

LEMMA TypedGrows ==
    ASSUME Typed, Grows, config' = config, DOMAIN handed' = Stream,
           \A s \in Stream : \E S : handed'[s] \in Seq(S)
    PROVE  Typed'
  BY DEF Typed, Grows

(* A sample whose vector, if any, is above those before it and below the   *)
(* counters from now on joins its stream.                                  *)
LEMMA SampleJoins ==
    ASSUME FreshInv, NEW s \in Stream, NEW x,
           \A v \in x.iv :
              /\ v.high \in Nat
              /\ \A b \in tracks'[s] : v.high < b.ivCounter
              /\ \A k \in DOMAIN handed[s] : \A w \in handed[s][k].iv : w.high < v.high,
           CounterMode(s) => \A v \in x.iv : MarkedBy(x.data, v),
           handed' = [handed EXCEPT ![s] = Append(@, x)],
           Grows, config' = config
    PROVE  FreshInv'
  <1> USE DEF FreshInv
  <1> DEFINE n == Len(handed[s])
  <1>1. PICK S : handed[s] \in Seq(S)
    BY DEF Typed
  <1>2. /\ handed'[s] = Append(handed[s], x)
        /\ Append(handed[s], x) \in Seq(S \cup {x})
        /\ DOMAIN handed'[s] = 1..(n + 1) /\ DOMAIN handed[s] = 1..n /\ n \in Nat
        /\ handed'[s][n + 1] = x
        /\ \A k \in 1..n : handed'[s][k] = handed[s][k]
    <2>1. handed[s] \in Seq(S \cup {x})
      BY <1>1
    <2> QED
      BY <1>1, <2>1 DEF Typed
  <1>3. \A r \in Stream : r # s => handed'[r] = handed[r]
    BY DEF Typed
  <1>4. Typed'
    <2>1. ASSUME NEW r \in Stream
          PROVE  \E T : handed'[r] \in Seq(T)
      <3>1. CASE r = s
        BY <1>2, <3>1
      <3>2. CASE r # s
        BY <1>3, <3>2 DEF Typed
      <3> QED
        BY <3>1, <3>2
    <2> QED
      BY <2>1, TypedGrows DEF Typed
  <1>5. Below'
    <2> SUFFICES ASSUME NEW r \in Stream, NEW k \in DOMAIN handed'[r],
                        NEW v \in handed'[r][k].iv, NEW b \in tracks'[r]
                 PROVE  v.high \in Nat /\ v.high < b.ivCounter
      <3>1. ASSUME NEW r \in Stream, NEW k \in DOMAIN handed'[r], NEW v \in handed'[r][k].iv
            PROVE  v.high \in Nat
        BY <1>2, <1>3, <3>1 DEF Below
      <3> QED
        BY <3>1 DEF Below
    <2>1. CASE r = s /\ k = n + 1
      BY <1>2, <2>1
    <2>2. CASE r # s \/ k \in 1..n
      <3>1. v \in handed[r][k].iv /\ k \in DOMAIN handed[r]
        BY <1>2, <1>3, <2>2
      <3>2. PICK c \in tracks[r] : b.ivCounter \in Nat /\ b.ivCounter >= c.ivCounter
        BY DEF Grows
      <3>3. v.high \in Nat /\ v.high < c.ivCounter /\ c.ivCounter \in Nat
        BY <3>1, <3>2 DEF Below, Typed
      <3> QED
        BY <3>2, <3>3
    <2> QED
      BY <1>2, <2>1, <2>2
  <1>6. Apart'
    <2> SUFFICES ASSUME NEW r \in Stream, NEW j \in DOMAIN handed'[r],
                        NEW k \in DOMAIN handed'[r], j # k,
                        NEW v \in handed'[r][j].iv, NEW w \in handed'[r][k].iv
                 PROVE  v.high # w.high
      BY DEF Apart
    <2>1. CASE r # s
      BY <1>3, <2>1 DEF Apart
    <2>2. CASE r = s
      <3>1. CASE j \in 1..n /\ k \in 1..n
        BY <1>2, <2>2, <3>1 DEF Apart
      <3>2. CASE j = n + 1
        <4>1. k \in 1..n /\ w \in handed[s][k].iv /\ v \in x.iv
          BY <1>2, <2>2, <3>2
        <4>2. w.high \in Nat
          BY <1>2, <4>1 DEF Below
        <4> QED
          BY <1>2, <4>1, <4>2
      <3>3. CASE k = n + 1
        <4>1. j \in 1..n /\ v \in handed[s][j].iv /\ w \in x.iv
          BY <1>2, <2>2, <3>3
        <4>2. v.high \in Nat
          BY <1>2, <4>1 DEF Below
        <4> QED
          BY <1>2, <4>1, <4>2
      <3> QED
        BY <1>2, <2>2, <3>1, <3>2, <3>3
    <2> QED
      BY <2>1, <2>2
  <1>7. Marked'
    <2> SUFFICES ASSUME NEW r \in Stream, CounterMode(r)', NEW k \in DOMAIN handed'[r],
                        NEW v \in handed'[r][k].iv
                 PROVE  MarkedBy(handed'[r][k].data, v)
      BY DEF Marked, MarkedBy
    <2>1. CounterMode(r)
      BY DEF CounterMode
    <2>2. CASE r # s
      BY <1>3, <2>1, <2>2 DEF Marked
    <2>3. CASE r = s /\ k \in 1..n
      BY <1>2, <2>1, <2>3 DEF Marked
    <2>4. CASE r = s /\ k = n + 1
      BY <1>2, <2>1, <2>4
    <2> QED
      BY <1>2, <2>2, <2>3, <2>4
  <1> QED
    BY <1>4, <1>5, <1>6, <1>7

LEMMA NothingJoins ==
    ASSUME FreshInv, Grows, UNCHANGED <<handed, config>>
    PROVE  FreshInv'
  <1>1. Typed'
    BY TypedGrows DEF FreshInv, Typed
  <1>2. Below'
    <2> SUFFICES ASSUME NEW r \in Stream, NEW k \in DOMAIN handed[r],
                        NEW v \in handed[r][k].iv, NEW b \in tracks'[r]
                 PROVE  v.high < b.ivCounter
      BY DEF FreshInv, Below
    <2>1. PICK c \in tracks[r] : b.ivCounter \in Nat /\ b.ivCounter >= c.ivCounter
      BY DEF Grows
    <2>2. v.high \in Nat /\ v.high < c.ivCounter /\ c.ivCounter \in Nat
      BY <2>1 DEF FreshInv, Below, Typed
    <2> QED
      BY <2>1, <2>2
  <1>3. Apart' /\ Marked'
    BY DEF FreshInv, Apart, Marked, MarkedBy, CounterMode
  <1> QED
    BY <1>1, <1>2, <1>3 DEF FreshInv

LEMMA StandingGrows ==
    ASSUME Typed, UNCHANGED tracks
    PROVE  Grows
  <1>1. \A s \in Stream : \A c \in tracks[s] : c.ivCounter >= c.ivCounter
    BY DEF Typed
  <1> QED
    BY <1>1 DEF Typed, Grows

LEMMA WriteKeeps ==
    ASSUME FreshInv, NEW s \in Stream, NEW len, NEW map, WritePacket(s, len, map)
    PROVE  FreshInv'
  <1> USE DEF FreshInv
  <1>1. CASE WriteProtected(s, len, map)
    <2>1. PICK c \in tracks[s] :
             /\ tracks' = [tracks EXCEPT ![s] = {CountVector(c)}]
             /\ \/ \E x \in Protect(s, c, len, map) : MuxerAccepts(c.tenc, x) /\ Hand(s, x)
                \/ Refuse
             /\ UNCHANGED <<config, bound>>
      BY <1>1 DEF WriteProtected
    <2>2. Grows /\ (VectorOf(c) # {} => \A b \in tracks'[s] : c.ivCounter < b.ivCounter)
      BY <2>1, CountGrows
    <2>3. c.ivCounter \in Nat
      BY DEF Typed
    <2>4. ASSUME NEW x \in Protect(s, c, len, map), Hand(s, x)
          PROVE  FreshInv'
      <3>1. /\ x.iv \subseteq {NextIv(c)} /\ NextIv(c).high = c.ivCounter
            /\ x.iv = VectorOf(c)
            /\ CounterMode(s) => \A v \in x.iv : MarkedBy(x.data, v)
        BY ProtectedSample
      <3>2. \A v \in x.iv :
               /\ v.high \in Nat
               /\ \A b \in tracks'[s] : v.high < b.ivCounter
               /\ \A k \in DOMAIN handed[s] : \A w \in handed[s][k].iv : w.high < v.high
        BY <2>2, <2>3, <3>1 DEF Below
      <3>3. handed' = [handed EXCEPT ![s] = Append(@, x)]
        BY <2>4 DEF Hand
      <3> QED
        BY <2>1, <2>2, <3>1, <3>2, <3>3, SampleJoins
    <2>5. CASE Refuse
      BY <2>1, <2>2, <2>5, NothingJoins DEF Refuse
    <2> QED
      BY <2>1, <2>4, <2>5
  <1>2. CASE WriteClear(s, len, map)
    <2> DEFINE x == [id |-> calls, len |-> len, map |-> {}, iv |-> {}, group |-> {},
                     store |-> <<>>, data |-> Plaintext(len)]
    <2>1. UNCHANGED <<config, tracks>> /\ (Refuse \/ Hand(s, x))
      BY <1>2 DEF WriteClear
    <2>2. Grows
      BY <2>1, StandingGrows
    <2>3. CASE Refuse
      BY <2>1, <2>2, <2>3, NothingJoins DEF Refuse
    <2>4. CASE Hand(s, x)
      <3>1. handed' = [handed EXCEPT ![s] = Append(@, x)]
        BY <2>4 DEF Hand
      <3>2. x.iv = {}
        OBVIOUS
      <3> HIDE DEF x
      <3> QED
        BY <2>1, <2>2, <3>1, <3>2, SampleJoins
    <2> QED
      BY <2>1, <2>3, <2>4
  <1> QED
    BY <1>1, <1>2 DEF WritePacket

LEMMA RotateKeeps ==
    ASSUME FreshInv, NEW s \in Stream, NEW kid, NEW key, NEW iv,
           RotateKey(s, kid, key, iv)
    PROVE  FreshInv'
  <1> USE DEF FreshInv
  <1>1. \A c \in tracks[s] :
           /\ DOMAIN c = CryptoFields /\ c = [f \in CryptoFields |-> c[f]]
           /\ c.ivCounter \in Nat /\ c.ivCounter >= c.ivCounter
    BY DEF Typed
  <1>2. ASSUME NEW b \in tracks'[s]
        PROVE  \E c \in tracks[s] :
                  \/ b = c
                  \/ \E keys, override : b = [[c EXCEPT !.keys = keys] EXCEPT !.override = override]
                  \/ \E keys : b = [c EXCEPT !.keys = keys]
    <2>1. tracks'[s] = {RotateAfter(c, kid, key, iv) : c \in tracks[s]}
      BY DEF RotateKey, Typed
    <2> QED
      BY <1>2, <2>1, Zenon DEF RotateAfter, StoreKey
  <1>3. Grows
    <2>1. \A r \in Stream : r # s => tracks'[r] = tracks[r]
      BY DEF RotateKey, Typed
    <2>2. DOMAIN tracks' = Stream
      BY DEF RotateKey, Typed
    <2>3. ASSUME NEW b \in tracks'[s]
          PROVE  \E c \in tracks[s] :
                    /\ DOMAIN b = CryptoFields /\ b = [f \in CryptoFields |-> b[f]]
                    /\ b.scheme = c.scheme
                    /\ b.ivCounter \in Nat /\ b.ivCounter >= c.ivCounter
      BY <1>1, <1>2, <2>3, ZenonT(60), SMTT(30) DEF CryptoFields
    <2>4. \A r \in Stream : \A c \in tracks[r] :
             /\ DOMAIN c = CryptoFields /\ c = [f \in CryptoFields |-> c[f]]
             /\ c.ivCounter \in Nat /\ c.ivCounter >= c.ivCounter
      BY DEF Typed
    <2> QED
      BY <2>1, <2>2, <2>3, <2>4 DEF Grows
  <1> QED
    BY <1>3, NothingJoins DEF RotateKey

LEMMA ResetKeeps ==
    ASSUME FreshInv, NEW s \in Stream, ResetToDefaultKey(s)
    PROVE  FreshInv'
  <1> USE DEF FreshInv
  <1>1. /\ tracks' = [tracks EXCEPT ![s] = {[c EXCEPT !.override = {}] : c \in @}]
        /\ UNCHANGED <<handed, config>>
    BY DEF ResetToDefaultKey
  <1>2. \A r \in Stream : \A c \in tracks[r] :
             /\ DOMAIN c = CryptoFields /\ c = [f \in CryptoFields |-> c[f]]
             /\ c.ivCounter \in Nat /\ c.ivCounter >= c.ivCounter
    BY DEF Typed
  <1>3. ASSUME NEW b \in tracks'[s]
        PROVE  \E c \in tracks[s] :
                  /\ DOMAIN b = CryptoFields /\ b = [f \in CryptoFields |-> b[f]]
                  /\ b.scheme = c.scheme
                  /\ b.ivCounter \in Nat /\ b.ivCounter >= c.ivCounter
    <2>1. PICK c \in tracks[s] : b = [c EXCEPT !.override = {}]
      BY <1>1, <1>3 DEF Typed
    <2> QED
      BY <1>2, <2>1 DEF CryptoFields
  <1>4. Grows
    BY <1>1, <1>2, <1>3 DEF Grows, Typed
  <1> QED
    BY <1>1, <1>4, NothingJoins

LEMMA InitFresh == Init => FreshInv
  <1> SUFFICES ASSUME Init PROVE FreshInv
    OBVIOUS
  <1>1. \A s \in Stream : handed[s] = <<>> /\ DOMAIN handed = Stream
    BY DEF Init
  <1>2. Typed
    <2>1. \A s \in Stream : handed[s] \in Seq(Nat)
      <3>1. <<>> \in Seq(Nat)
        OBVIOUS
      <3> QED
        BY <1>1, <3>1
    <2>2. ASSUME NEW p
          PROVE  /\ DOMAIN TrackCrypto(p) = CryptoFields
                 /\ TrackCrypto(p) = [f \in CryptoFields |-> TrackCrypto(p)[f]]
                 /\ TrackCrypto(p).ivCounter = 1 /\ TrackCrypto(p).scheme = p.scheme
      BY DEF TrackCrypto, CryptoFields
    <2>3. tracks = [s \in Stream |-> {TrackCrypto(p) : p \in config[s]}]
      BY DEF Init, New
    <2>4. \A s \in Stream : \A c \in tracks[s] : \E p \in config[s] : c = TrackCrypto(p)
      BY <2>3
    <2> QED
      BY <2>1, <2>2, <2>3, <2>4 DEF Typed, Init
  <1> QED
    BY <1>1, <1>2 DEF FreshInv, Below, Apart, Marked

LEMMA FreshFollows == FreshInv => VectorsFresh
  <1> SUFFICES ASSUME FreshInv, NEW s \in Stream,
                      NEW j \in DOMAIN handed[s], NEW k \in DOMAIN handed[s],
                      j # k, handed[s][j].iv # {}, handed[s][k].iv # {}
               PROVE  /\ handed[s][j].iv # handed[s][k].iv
                      /\ CounterMode(s) =>
                           KeystreamBlocks(handed[s][j]) \cap KeystreamBlocks(handed[s][k]) = {}
    BY DEF VectorsFresh
  <1>1. PICK v \in handed[s][j].iv, w \in handed[s][k].iv : TRUE
    OBVIOUS
  <1>2. v.high # w.high /\ handed[s][j].iv # handed[s][k].iv
    BY <1>1 DEF FreshInv, Apart
  <1>3. ASSUME CounterMode(s), NEW blk \in KeystreamBlocks(handed[s][j]),
               blk \in KeystreamBlocks(handed[s][k])
        PROVE  FALSE
    <2>1. blk[2] = v.high
      BY <1>1, <1>3 DEF KeystreamBlocks, FreshInv, Marked, MarkedBy
    <2>2. blk[2] = w.high
      BY <1>1, <1>3 DEF KeystreamBlocks, FreshInv, Marked, MarkedBy
    <2> QED
      BY <1>2, <2>1, <2>2
  <1> QED
    BY <1>2, <1>3

(* No vector is used twice: for every behaviour of the packager.           *)
THEOREM VectorsAlwaysFresh == Spec => []VectorsFresh
  <1>1. FreshInv /\ [Next]_vars => FreshInv'
    <2> SUFFICES ASSUME FreshInv, [Next]_vars PROVE FreshInv'
      OBVIOUS
    <2>1. CASE UNCHANGED vars
      BY <2>1 DEF vars, FreshInv, Typed, Below, Apart, Marked, MarkedBy, CounterMode
    <2>2. CASE Next
      BY <2>2, WriteKeeps, RotateKeeps, ResetKeeps DEF Next
    <2> QED
      BY <2>1, <2>2
  <1> QED
    BY <1>1, InitFresh, FreshFollows, PTL DEF Spec

(***************************************************************************)
(* The plan of a sample's cipher tiles the sample: its steps follow each   *)
(* other without an overlap, and the encrypted ones cover exactly a set X  *)
(* of octets.                                                              *)
(***************************************************************************)
Steps == [offset : Nat, len : Nat, kind : {"clear", "encrypted"}, restart : BOOLEAN]
Covered(plan, i) ==
    \E n \in 1..Len(plan) : /\ plan[n].kind = "encrypted"
                            /\ plan[n].offset <= i /\ i < plan[n].offset + plan[n].len
Tiles(plan, lo, hi, X) ==
    /\ plan \in Seq(Steps)
    /\ \A n \in 1..Len(plan) : lo <= plan[n].offset /\ plan[n].offset + plan[n].len <= hi
    /\ \A m, n \in 1..Len(plan) :
          m < n => plan[m].offset + plan[m].len <= plan[n].offset
    /\ \A i \in lo..(hi - 1) : i \in X <=> Covered(plan, i)

LEMMA TilesConcat ==
    ASSUME NEW a \in Nat, NEW b \in Nat, NEW c \in Nat, a <= b, b <= c, NEW X,
           NEW p, NEW q, Tiles(p, a, b, X), Tiles(q, b, c, X)
    PROVE  Tiles(p \o q, a, c, X)
  <1> DEFINE r == p \o q
  <1>1. /\ p \in Seq(Steps) /\ q \in Seq(Steps) /\ Len(p) \in Nat /\ Len(q) \in Nat
        /\ \A n \in 1..Len(p) : p[n] \in Steps
        /\ \A n \in 1..Len(q) : q[n] \in Steps
    BY DEF Tiles
  <1>2. /\ r \in Seq(Steps) /\ Len(r) = Len(p) + Len(q)
        /\ \A n \in 1..Len(p) : r[n] = p[n]
        /\ \A n \in 1..Len(q) : r[Len(p) + n] = q[n]
    BY <1>1, ConcatProperties
  <1> HIDE DEF r
  <1>3. \A n \in 1..Len(r) : \/ n \in 1..Len(p)
                             \/ n - Len(p) \in 1..Len(q) /\ n = Len(p) + (n - Len(p))
    BY <1>1, <1>2
  <1>4. ASSUME NEW n \in 1..Len(p)
        PROVE  /\ a <= r[n].offset /\ r[n].offset + r[n].len <= b
               /\ r[n].offset \in Nat /\ r[n].len \in Nat
    BY <1>1, <1>2, <1>4 DEF Tiles, Steps
  <1>5. ASSUME NEW n \in 1..Len(q)
        PROVE  /\ b <= r[Len(p) + n].offset
               /\ r[Len(p) + n].offset + r[Len(p) + n].len <= c
               /\ r[Len(p) + n].offset \in Nat /\ r[Len(p) + n].len \in Nat
    BY <1>1, <1>2, <1>5 DEF Tiles, Steps
  <1>6. ASSUME NEW n \in 1..Len(r)
        PROVE  a <= r[n].offset /\ r[n].offset + r[n].len <= c
    <2>1. CASE n \in 1..Len(p)
      BY <1>4, <2>1
    <2>2. CASE n - Len(p) \in 1..Len(q) /\ n = Len(p) + (n - Len(p))
      <3> DEFINE k == n - Len(p)
      <3>1. k \in 1..Len(q) /\ n = Len(p) + k
        BY <2>2
      <3> HIDE DEF k
      <3>2. b <= r[n].offset /\ r[n].offset \in Nat /\ r[n].offset + r[n].len <= c
        BY <1>5, <3>1
      <3> QED
        BY <3>2
    <2> QED
      BY <1>3, <2>1, <2>2
  <1>7. ASSUME NEW m \in 1..Len(r), NEW n \in 1..Len(r), m < n
        PROVE  r[m].offset + r[m].len <= r[n].offset
    <2>1. CASE m \in 1..Len(p) /\ n \in 1..Len(p)
      BY <1>2, <1>7, <2>1 DEF Tiles
    <2>2. CASE m \in 1..Len(p) /\ n - Len(p) \in 1..Len(q) /\ n = Len(p) + (n - Len(p))
      <3> DEFINE k == n - Len(p)
      <3>1. k \in 1..Len(q) /\ n = Len(p) + k
        BY <2>2
      <3> HIDE DEF k
      <3>2. b <= r[n].offset /\ r[n].offset \in Nat
        BY <1>5, <3>1
      <3>3. r[m].offset + r[m].len <= b /\ r[m].offset \in Nat /\ r[m].len \in Nat
        BY <1>4, <2>2
      <3> QED
        BY <3>2, <3>3
    <2>3. CASE /\ m - Len(p) \in 1..Len(q) /\ m = Len(p) + (m - Len(p))
               /\ n - Len(p) \in 1..Len(q) /\ n = Len(p) + (n - Len(p))
      <3>1. m - Len(p) < n - Len(p)
        BY <1>1, <1>7
      <3>2. q[m - Len(p)].offset + q[m - Len(p)].len <= q[n - Len(p)].offset
        BY <2>3, <3>1 DEF Tiles
      <3>3. r[Len(p) + (m - Len(p))] = q[m - Len(p)] /\ r[Len(p) + (n - Len(p))] = q[n - Len(p)]
        BY <1>2, <2>3
      <3> QED
        BY <2>3, <3>2, <3>3
    <2> QED
      BY <1>1, <1>3, <1>7, <2>1, <2>2, <2>3
  <1>8. ASSUME NEW i \in a..(c - 1)
        PROVE  i \in X <=> Covered(r, i)
    <2>1. Covered(r, i) <=> Covered(p, i) \/ Covered(q, i)
      <3>1. ASSUME Covered(r, i) PROVE Covered(p, i) \/ Covered(q, i)
        <4>1. PICK n \in 1..Len(r) : /\ r[n].kind = "encrypted"
                                     /\ r[n].offset <= i /\ i < r[n].offset + r[n].len
          BY <3>1 DEF Covered
        <4>2. CASE n \in 1..Len(p)
          BY <1>2, <4>1, <4>2 DEF Covered
        <4>3. CASE n - Len(p) \in 1..Len(q) /\ n = Len(p) + (n - Len(p))
          <5>1. r[Len(p) + (n - Len(p))] = q[n - Len(p)]
            BY <1>2, <4>3
          <5> QED
            BY <4>1, <4>3, <5>1 DEF Covered
        <4> QED
          BY <1>3, <4>2, <4>3
      <3>2. ASSUME Covered(p, i) PROVE Covered(r, i)
        <4>1. \A n \in 1..Len(p) : n \in 1..Len(r)
          BY <1>1, <1>2
        <4> QED
          BY <1>2, <3>2, <4>1 DEF Covered
      <3>3. ASSUME Covered(q, i) PROVE Covered(r, i)
        <4>1. \A n \in 1..Len(q) : Len(p) + n \in 1..Len(r)
          BY <1>1, <1>2
        <4> QED
          BY <1>2, <3>3, <4>1 DEF Covered
      <3> QED
        BY <3>1, <3>2, <3>3
    <2>2. CASE i < b
      <3>1. i \in a..(b - 1)
        BY <2>2
      <3>2. ~Covered(q, i)
        <4> SUFFICES ASSUME NEW n \in 1..Len(q), q[n].offset <= i PROVE FALSE
          BY DEF Covered
        <4>1. b <= q[n].offset /\ q[n].offset \in Nat
          BY <1>1 DEF Tiles, Steps
        <4> QED
          BY <2>2, <4>1
      <3> QED
        BY <2>1, <3>1, <3>2 DEF Tiles
    <2>3. CASE ~(i < b)
      <3>1. i \in b..(c - 1)
        BY <2>3
      <3>2. ~Covered(p, i)
        <4> SUFFICES ASSUME NEW n \in 1..Len(p), i < p[n].offset + p[n].len PROVE FALSE
          BY DEF Covered
        <4>1. p[n].offset + p[n].len <= b /\ p[n].offset \in Nat /\ p[n].len \in Nat
          BY <1>1 DEF Tiles, Steps
        <4> QED
          BY <2>3, <4>1
      <3> QED
        BY <2>1, <3>1, <3>2 DEF Tiles
    <2> QED
      BY <2>2, <2>3
  <1> QED
    BY <1>2, <1>6, <1>7, <1>8 DEF Tiles, r

LEMMA TilesEmpty == \A a \in Nat : \A X : Tiles(<<>>, a, a, X)
  <1> SUFFICES ASSUME NEW a \in Nat, NEW X PROVE Tiles(<<>>, a, a, X)
    OBVIOUS
  <1> DEFINE e == <<>>
  <1>1. e \in Seq(Steps) /\ Len(e) = 0
    OBVIOUS
  <1> HIDE DEF e
  <1>2. Tiles(e, a, a, X)
    BY <1>1 DEF Tiles
  <1> QED
    BY <1>2 DEF e

(* A single step.                                                          *)
LEMMA TilesStep ==
    ASSUME NEW offset \in Nat, NEW len \in Nat, NEW kind \in {"clear", "encrypted"},
           NEW restart \in BOOLEAN, NEW X,
           \A i \in offset..(offset + len - 1) : i \in X <=> kind = "encrypted"
    PROVE  Tiles(IF len = 0 THEN <<>> ELSE <<Step(offset, len, kind, restart)>>,
                 offset, offset + len, X)
  <1>1. CASE len = 0
    BY <1>1, TilesEmpty
  <1>2. CASE len # 0
    <2> DEFINE s == Step(offset, len, kind, restart)
               p == <<s>>
    <2>1. s \in Steps /\ s.offset = offset /\ s.len = len /\ s.kind = kind
      BY DEF Step, Steps
    <2> HIDE DEF s
    <2>2. p \in Seq(Steps) /\ Len(p) = 1 /\ p[1] = s
      BY <2>1
    <2> HIDE DEF p
    <2>3. \A i : Covered(p, i) <=> kind = "encrypted" /\ offset <= i /\ i < offset + len
      BY <2>1, <2>2 DEF Covered
    <2>4. Tiles(p, offset, offset + len, X)
      BY <2>1, <2>2, <2>3 DEF Tiles
    <2> QED
      BY <1>2, <2>4 DEF p, s
  <1> QED
    BY <1>1, <1>2

LEMMA TilesClear ==
    ASSUME NEW offset \in Nat, NEW len \in Nat, NEW X,
           \A i \in offset..(offset + len - 1) : i \notin X
    PROVE  Tiles(ClearRun(offset, len), offset, offset + len, X)
  <1> DEFINE kind == "clear"
  <1>1. kind \in {"clear", "encrypted"} /\ ~(kind = "encrypted")
    OBVIOUS
  <1> HIDE DEF kind
  <1>2. \A i \in offset..(offset + len - 1) : i \in X <=> kind = "encrypted"
    BY <1>1
  <1>3. Tiles(IF len = 0 THEN <<>> ELSE <<Step(offset, len, kind, FALSE)>>,
              offset, offset + len, X)
    BY <1>1, <1>2, TilesStep
  <1> QED
    BY <1>3 DEF ClearRun, kind

LEMMA TilesEncrypted ==
    ASSUME NEW offset \in Nat, NEW len \in Nat, NEW restart \in BOOLEAN, NEW X,
           \A i \in offset..(offset + len - 1) : i \in X
    PROVE  Tiles(EncryptedRun(offset, len, restart), offset, offset + len, X)
  <1> DEFINE kind == "encrypted"
  <1>1. kind \in {"clear", "encrypted"} /\ kind = "encrypted"
    OBVIOUS
  <1> HIDE DEF kind
  <1>2. \A i \in offset..(offset + len - 1) : i \in X <=> kind = "encrypted"
    BY <1>1
  <1>3. Tiles(IF len = 0 THEN <<>> ELSE <<Step(offset, len, kind, restart)>>,
              offset, offset + len, X)
    BY <1>1, <1>2, TilesStep
  <1> QED
    BY <1>3 DEF EncryptedRun, kind

LEMMA TilesFlatten ==
    ASSUME NEW ss \in Seq(Seq(Steps)), NEW g \in [1..(Len(ss) + 1) -> Nat], NEW X,
           \A k \in 1..Len(ss) : g[k] <= g[k + 1] /\ Tiles(ss[k], g[k], g[k + 1], X)
    PROVE  Tiles(FlattenSeq(ss), g[1], g[Len(ss) + 1], X)
  <1> DEFINE N == Len(ss)
             flat(n) == FlattenSeq(SubSeq(ss, 1, n))
             T == {n \in Nat : n <= N => g[1] <= g[n + 1] /\ Tiles(flat(n), g[1], g[n + 1], X)}
  <1>1. N \in Nat /\ \A n \in 1..(N + 1) : g[n] \in Nat
    OBVIOUS
  <1>2. 0 \in T
    <2>1. SubSeq(ss, 1, 0) = <<>>
      BY <1>1, PrefixIs
    <2>2. flat(0) = <<>>
      BY <2>1, FlattenEmpty
    <2>3. g[1] \in Nat /\ 0 + 1 = 1 /\ g[1] <= g[1]
      BY <1>1
    <2> HIDE DEF flat
    <2>4. Tiles(flat(0), g[1], g[0 + 1], X)
      BY <2>2, <2>3, TilesEmpty
    <2> QED
      BY <2>3, <2>4
  <1>3. ASSUME NEW n \in Nat, n \in T PROVE n + 1 \in T
    <2> SUFFICES ASSUME n + 1 <= N
                 PROVE  g[1] <= g[n + 2] /\ Tiles(flat(n + 1), g[1], g[n + 2], X)
      OBVIOUS
    <2>1. n + 1 \in 1..N /\ n \in 0..N /\ n + 1 \in 0..N /\ n + 1 > 0 /\ n + 1 - 1 = n
          /\ n + 1 + 1 = n + 2
      BY <1>1
    <2>2. g[1] <= g[n + 1] /\ Tiles(flat(n), g[1], g[n + 1], X)
      BY <1>3, <2>1
    <2>3. g[n + 1] <= g[n + 2] /\ Tiles(ss[n + 1], g[n + 1], g[n + 2], X)
      BY <2>1
    <2>4. g[1] \in Nat /\ g[n + 1] \in Nat /\ g[n + 2] \in Nat
      BY <1>1, <2>1
    <2>5. SubSeq(ss, 1, n + 1) = Append(SubSeq(ss, 1, n), ss[n + 1])
          /\ SubSeq(ss, 1, n) \in Seq(Seq(Steps)) /\ ss[n + 1] \in Seq(Steps)
      <3>1. SubSeq(ss, 1, n) \in Seq(Seq(Steps))
        BY <2>1, PrefixIs
      <3>2. SubSeq(ss, 1, n + 1) = Append(SubSeq(ss, 1, n + 1 - 1), ss[n + 1])
        BY <2>1, PrefixIs
      <3> QED
        BY <2>1, <3>1, <3>2
    <2>6. flat(n + 1) = flat(n) \o ss[n + 1]
      BY <2>5, FlattenAppend
    <2> HIDE DEF flat
    <2>7. Tiles(flat(n) \o ss[n + 1], g[1], g[n + 2], X)
      BY <2>2, <2>3, <2>4, TilesConcat
    <2>8. g[1] <= g[n + 2]
      BY <2>2, <2>3, <2>4
    <2> QED
      BY <2>6, <2>7, <2>8
  <1> HIDE DEF T
  <1>4. N \in T
    BY <1>1, <1>2, <1>3, NumberInduction
  <1>5. SubSeq(ss, 1, N) = ss
    BY <1>1, PrefixIs
  <1>6. Tiles(flat(N), g[1], g[N + 1], X)
    BY <1>1, <1>4 DEF T
  <1> QED
    BY <1>5, <1>6

(***************************************************************************)
(* Whole blocks.                                                           *)
(***************************************************************************)
LEMMA Multiplies ==
    ASSUME NEW d \in Nat, NEW a \in Nat, NEW b \in Nat, a <= b
    PROVE  d * a <= d * b /\ d * a \in Nat /\ d * b \in Nat
  <1>1. PICK e \in Nat : b = a + e
    <2>1. b - a \in Nat /\ b = a + (b - a)
      OBVIOUS
    <2> QED
      BY <2>1
  <1>2. d * a \in Nat /\ d * e \in Nat /\ d * b \in Nat
    OBVIOUS
  <1>3. d * b = d * a + d * e
    BY <1>1
  <1> QED
    BY <1>2, <1>3

LEMMA Divides ==
    ASSUME NEW n \in Nat, NEW d \in Nat \ {0}
    PROVE  /\ n \div d \in Nat /\ n % d \in 0..(d - 1)
           /\ n = d * (n \div d) + (n % d)
  OBVIOUS

LEMMA DivisionIs ==
    ASSUME NEW n \in Nat, NEW d \in Nat \ {0}, NEW q \in Nat, NEW r \in Nat,
           r < d, n = d * q + r
    PROVE  n \div d = q /\ n % d = r
  <1> DEFINE p == n \div d
             s == n % d
             u == d * q
             v == d * p
  <1>1. p \in Nat /\ s \in 0..(d - 1) /\ n = v + s /\ n = u + r
    BY Divides
  <1>2. u \in Nat /\ v \in Nat
    BY <1>1, Multiplies
  <1>3. ~(p < q)
    <2> SUFFICES ASSUME p < q PROVE FALSE
      OBVIOUS
    <2>1. p + 1 \in Nat /\ p + 1 <= q
      BY <1>1
    <2>2. d * (p + 1) <= u
      BY <2>1, Multiplies
    <2>3. d * (p + 1) = v + d
      BY <1>1
    <2> HIDE DEF p, s, u, v
    <2> QED
      BY <1>1, <1>2, <2>2, <2>3
  <1>4. ~(q < p)
    <2> SUFFICES ASSUME q < p PROVE FALSE
      OBVIOUS
    <2>1. q + 1 \in Nat /\ q + 1 <= p
      BY <1>1
    <2>2. d * (q + 1) <= v
      BY <1>1, <2>1, Multiplies
    <2>3. d * (q + 1) = u + d
      OBVIOUS
    <2> HIDE DEF p, s, u, v
    <2> QED
      BY <1>1, <1>2, <2>2, <2>3
  <1>5. p = q
    BY <1>1, <1>3, <1>4
  <1>6. u = v
    BY <1>5
  <1> HIDE DEF p, u, v
  <1>7. s = r
    BY <1>1, <1>2, <1>6
  <1> QED
    BY <1>5, <1>7 DEF p, s

LEMMA WholeIs ==
    ASSUME NEW len \in Nat
    PROVE  /\ Whole(len) \in Nat /\ Whole(len) <= len /\ len < Whole(len) + BlockBytes
           /\ len \div BlockBytes \in Nat /\ Whole(len) = BlockBytes * (len \div BlockBytes)
           /\ \A q \in Nat : q < Whole(len) <=> (q \div BlockBytes + 1) * BlockBytes <= len
  <1> DEFINE B == BlockBytes
             n == len \div B
             W == B * n
             s == len % B
  <1>1. B \in Nat \ {0}
    BY BlockBytesAssumption
  <1>2. n \in Nat /\ s \in 0..(B - 1) /\ len = W + s /\ W \in Nat /\ Whole(len) = W
    <2>1. n \in Nat /\ s \in 0..(B - 1) /\ len = B * n + s
      BY <1>1, Divides
    <2>2. n <= n
      BY <2>1
    <2>3. B * n \in Nat
      BY <1>1, <2>1, <2>2, Multiplies
    <2> QED
      BY <2>1, <2>3 DEF Whole
  <1>3. ASSUME NEW q \in Nat
        PROVE  q < W <=> (q \div B + 1) * B <= len
    <2> DEFINE y == q \div B
               V == B * y
               r == q % B
    <2>1. y \in Nat /\ r \in 0..(B - 1) /\ q = V + r /\ V \in Nat
      <3>1. y \in Nat /\ r \in 0..(B - 1) /\ q = B * y + r
        BY <1>1, Divides
      <3>2. y <= y
        BY <3>1
      <3>3. B * y \in Nat
        BY <1>1, <3>1, <3>2, Multiplies
      <3> QED
        BY <3>1, <3>3
    <2>2. (y + 1) * B = V + B /\ B * (n + 1) = W + B /\ B * (y + 1) = V + B
      BY <1>1, <1>2, <2>1
    <2>3. ASSUME q < W PROVE V + B <= len
      <3>1. ~(n <= y)
        <4> SUFFICES ASSUME n <= y PROVE FALSE
          OBVIOUS
        <4>1. W <= V
          BY <1>1, <1>2, <2>1, Multiplies
        <4> HIDE DEF W, V, y, n, r, s
        <4> QED
          BY <1>1, <1>2, <2>1, <2>3, <4>1
      <3>2. y + 1 <= n /\ y + 1 \in Nat
        BY <1>2, <2>1, <3>1
      <3>3. B * (y + 1) <= W
        BY <1>1, <1>2, <3>2, Multiplies
      <3> HIDE DEF W, V, y, n, r, s
      <3> QED
        BY <1>1, <1>2, <2>1, <2>2, <3>3
    <2>4. ASSUME V + B <= len PROVE q < W
      <3>1. ~(n <= y)
        <4> SUFFICES ASSUME n <= y PROVE FALSE
          OBVIOUS
        <4>1. W <= V
          BY <1>1, <1>2, <2>1, Multiplies
        <4> HIDE DEF W, V, y, n, r, s
        <4> QED
          BY <1>1, <1>2, <2>1, <2>4, <4>1
      <3>2. y + 1 <= n /\ y + 1 \in Nat
        BY <1>2, <2>1, <3>1
      <3>3. B * (y + 1) <= W
        BY <1>1, <1>2, <3>2, Multiplies
      <3> HIDE DEF W, V, y, n, r, s
      <3> QED
        BY <1>1, <1>2, <2>1, <2>2, <3>3
    <2> HIDE DEF W, V, r
    <2> QED
      BY <2>2, <2>3, <2>4
  <1> HIDE DEF W, n, s
  <1> QED
    BY <1>1, <1>2, <1>3 DEF W, n

(* Where in the pattern an octet lies: k patterns of C crypt and S skip    *)
(* blocks before it, and x octets into its own.                            *)
LEMMA PatternAt ==
    ASSUME NEW C \in Nat, NEW S \in Nat, C + S # 0, NEW k \in Nat,
           NEW x \in Nat, x < BlockBytes * (C + S)
    PROVE  ((BlockBytes * (C + S) * k + x) \div BlockBytes) % (C + S) < C
             <=> x < BlockBytes * C
  <1> DEFINE B == BlockBytes
             M == C + S
             y == x \div B
             r == x % B
  <1>1. B \in Nat \ {0} /\ M \in Nat \ {0}
    BY BlockBytesAssumption
  <1>2. y \in Nat /\ r \in 0..(B - 1) /\ x = B * y + r
    BY <1>1, Divides
  <1>3. y < M
    <2> SUFFICES ASSUME ~(y < M) PROVE FALSE
      OBVIOUS
    <2>1. M <= y
      BY <1>1, <1>2
    <2>2. B * M <= B * y /\ B * M \in Nat /\ B * y \in Nat
      BY <1>1, <1>2, <2>1, Multiplies
    <2>3. x < B * M
      OBVIOUS
    <2> HIDE DEF y, r, M, B
    <2> DEFINE u == B * M
               v == B * y
    <2>4. u <= v /\ u \in Nat /\ v \in Nat /\ x < u /\ x = v + r /\ r \in Nat
      BY <1>1, <1>2, <2>2, <2>3
    <2> HIDE DEF u, v
    <2> QED
      BY <2>4
  <1>4. (B * M * k + x) \div B = M * k + y
    <2> DEFINE n == B * M * k + x
               q == M * k + y
    <2>1. n = B * q + r
      <3> DEFINE z == M * k
      <3> HIDE DEF y, r, M, B
      <3>1. B * M * k = B * z
        BY <1>1
      <3>2. k <= k
        OBVIOUS
      <3>3. z \in Nat
        BY <1>1, <3>2, Multiplies
      <3> HIDE DEF z
      <3>4. B * (z + y) = B * z + B * y
        BY <1>1, <1>2, <3>3
      <3> DEFINE u == B * z
                 v == B * y
                 w == B * M * k
      <3>6. u \in Nat /\ v \in Nat
        <4>1. y <= y /\ z <= z
          BY <1>2, <3>3
        <4> QED
          BY <1>1, <1>2, <3>3, <4>1, Multiplies
      <3>7. w = u /\ x = v + r /\ r \in Nat
        BY <1>1, <1>2, <3>1
      <3> HIDE DEF u, v, w
      <3>8. w + x = u + v + r
        BY <3>6, <3>7
      <3> QED
        BY <3>4, <3>8 DEF u, v, w, z
    <2>2. q \in Nat /\ n \in Nat
      <3>1. k <= k
        OBVIOUS
      <3>2. M * k \in Nat
        BY <1>1, <3>1, Multiplies
      <3>3. q \in Nat /\ q <= q
        BY <1>2, <3>2
      <3>4. B * q \in Nat
        BY <1>1, <3>3, Multiplies
      <3> QED
        BY <1>1, <1>2, <2>1, <3>3, <3>4
    <2>3. r \in Nat /\ r < B
      BY <1>1, <1>2
    <2> HIDE DEF n, q, r, y, M, B
    <2>4. n \div B = q
      BY <1>1, <2>1, <2>2, <2>3, DivisionIs
    <2> QED
      BY <2>4 DEF n, q
  <1>5. (M * k + y) % M = y
    <2> DEFINE n == M * k + y
    <2>1. n \in Nat
      <3>1. k <= k
        OBVIOUS
      <3>2. M * k \in Nat
        BY <1>1, <3>1, Multiplies
      <3> QED
        BY <1>2, <3>2
    <2>2. n = M * k + y
      OBVIOUS
    <2> HIDE DEF n, y, M
    <2> QED
      BY <1>1, <1>2, <1>3, <2>1, <2>2, DivisionIs
  <1>6. y < C <=> x < B * C
    <2>1. ASSUME y < C PROVE x < B * C
      <3>1. y + 1 <= C /\ y + 1 \in Nat
        BY <1>2, <2>1
      <3>2. B * (y + 1) <= B * C /\ B * (y + 1) \in Nat /\ B * C \in Nat
        BY <1>1, <3>1, Multiplies
      <3>3. B * (y + 1) = B * y + B
        BY <1>1, <1>2
      <3>4. B * y \in Nat
        <4>1. y <= y
          BY <1>2
        <4> QED
          BY <1>1, <1>2, <4>1, Multiplies
      <3> DEFINE u == B * C
                 v == B * y
      <3>5. v + B <= u /\ u \in Nat /\ v \in Nat /\ x = v + r /\ r \in Nat /\ r < B
        BY <1>1, <1>2, <3>2, <3>3, <3>4
      <3> HIDE DEF u, v, y, r, B
      <3>6. x < u
        BY <1>1, <3>5
      <3> QED
        BY <3>6 DEF u
    <2>2. ASSUME ~(y < C) PROVE ~(x < B * C)
      <3>1. C <= y
        BY <1>2, <2>2
      <3>2. B * C <= B * y /\ B * C \in Nat /\ B * y \in Nat
        BY <1>1, <1>2, <3>1, Multiplies
      <3> DEFINE u == B * C
                 v == B * y
      <3>3. u <= v /\ u \in Nat /\ v \in Nat /\ x = v + r /\ r \in Nat
        BY <1>1, <1>2, <3>2
      <3> HIDE DEF u, v, y, r, B
      <3>4. ~(x < u)
        BY <3>3
      <3> QED
        BY <3>4 DEF u
    <2> QED
      BY <2>1, <2>2
  <1> HIDE DEF y
  <1>7. ((B * M * k + x) \div B) % M = y
    BY <1>4, <1>5
  <1> QED
    BY <1>6, <1>7

(***************************************************************************)
(* plan_pattern_run.  The loop is a function of where it stands; every     *)
(* round takes it further, so there is such a function.                    *)
(***************************************************************************)
FullRun(left, crypt) == IF Whole(left) < crypt THEN Whole(left) ELSE crypt
SkippedRun(left, full, skip) == IF left - full < skip THEN left - full ELSE skip
PatternRound(f, offset, len, crypt, skip, restart, at) ==
    LET left == len - at
        full == FullRun(left, crypt)
        skipped == SkippedRun(left, full, skip)
    IN  IF left = 0 THEN <<>>
        ELSE EncryptedRun(offset + at, full, restart /\ at = 0)
             \o (IF full < crypt THEN ClearRun(offset + at + full, left - full)
                 ELSE ClearRun(offset + at + full, skipped)
                      \o f[at + full + skipped])
PatternFrom(offset, len, crypt, skip, restart) ==
    CHOOSE f : f = [at \in 0..len |-> PatternRound(f, offset, len, crypt, skip, restart, at)]

LEMMA RoundIs ==
    ASSUME NEW left \in Nat, NEW crypt \in Nat, NEW skip \in Nat
    PROVE  LET full == FullRun(left, crypt)
               skipped == SkippedRun(left, full, skip)
           IN  /\ full \in Nat /\ skipped \in Nat
               /\ Whole(left) \in Nat /\ Whole(left) <= left
               /\ full <= Whole(left) /\ full <= crypt /\ full + skipped <= left
               /\ full < crypt => full = Whole(left)
               /\ skipped < skip => full + skipped = left
               /\ skipped <= skip
  <1> DEFINE W == Whole(left)
  <1>2. W \in Nat /\ W <= left
    BY WholeIs
  <1> HIDE DEF W
  <1>3. /\ FullRun(left, crypt) = IF W < crypt THEN W ELSE crypt
        /\ \A full : SkippedRun(left, full, skip) = IF left - full < skip THEN left - full ELSE skip
    BY DEF FullRun, SkippedRun, W
  <1> DEFINE full == FullRun(left, crypt)
             skipped == SkippedRun(left, full, skip)
  <1>4. full \in Nat /\ full <= W /\ full <= crypt /\ (full < crypt => full = W)
    BY <1>2, <1>3
  <1>5. skipped = IF left - full < skip THEN left - full ELSE skip
    BY <1>3
  <1> HIDE DEF full, skipped
  <1>6. /\ skipped \in Nat /\ full + skipped <= left /\ skipped <= skip
        /\ skipped < skip => full + skipped = left
    BY <1>2, <1>4, <1>5
  <1> QED
    BY <1>2, <1>4, <1>6 DEF full, skipped, W

LEMMA PatternExists ==
    ASSUME NEW offset \in Nat, NEW len \in Nat, NEW crypt \in Nat \ {0}, NEW skip \in Nat,
           NEW restart
    PROVE  LET f == PatternFrom(offset, len, crypt, skip, restart)
           IN  f = [at \in 0..len |-> PatternRound(f, offset, len, crypt, skip, restart, at)]
  <1> DEFINE Round(f, at) == PatternRound(f, offset, len, crypt, skip, restart, at)
             Is(f, m) == f = [at \in m..len |-> Round(f, at)]
             T == {n \in Nat : n <= len => \E f : Is(f, len - n)}
  <1>1. ASSUME NEW at \in 0..len, NEW f, NEW g, \A x \in (at + 1)..len : f[x] = g[x]
        PROVE  Round(f, at) = Round(g, at)
    <2> DEFINE left == len - at
               full == FullRun(left, crypt)
               skipped == SkippedRun(left, full, skip)
    <2>1. CASE left = 0
      BY <2>1 DEF PatternRound
    <2>2. CASE full < crypt
      BY <2>2 DEF PatternRound
    <2>3. CASE ~(full < crypt)
      <3>1. left \in Nat /\ full \in Nat /\ skipped \in Nat /\ full + skipped <= left
            /\ full <= crypt
        <4>1. left \in Nat
          OBVIOUS
        <4> QED
          BY <4>1, RoundIs
      <3>2. at + full + skipped \in (at + 1)..len
        <4>1. full >= 1
          BY <2>3, <3>1
        <4>2. left = len - at
          OBVIOUS
        <4> HIDE DEF left, full, skipped
        <4> QED
          BY <3>1, <4>1, <4>2
      <3>3. f[at + full + skipped] = g[at + full + skipped]
        BY <1>1, <3>2
      <3> QED
        BY <3>3, Zenon DEF PatternRound
    <2> QED
      BY <2>1, <2>2, <2>3
  <1>2. 0 \in T
    <2> DEFINE f == [at \in len..len |-> <<>>]
    <2>1. \A at \in len..len : at = len /\ at \in 0..len
      OBVIOUS
    <2>2. ASSUME NEW at \in len..len PROVE Round(f, at) = <<>>
      <3>1. len - at = 0
        BY <2>1
      <3> QED
        BY <3>1 DEF PatternRound
    <2>3. f = [at \in len..len |-> Round(f, at)]
      BY <2>2
    <2>4. len - 0 = len
      OBVIOUS
    <2> QED
      BY <2>3, <2>4
  <1>3. ASSUME NEW n \in Nat, n \in T PROVE n + 1 \in T
    <2> SUFFICES ASSUME n + 1 <= len PROVE \E g : Is(g, len - (n + 1))
      OBVIOUS
    <2>1. PICK f : Is(f, len - n)
      BY <1>3
    <2> DEFINE m == len - (n + 1)
               g == [at \in m..len |-> IF at = m THEN Round(f, m) ELSE f[at]]
    <2>2. m \in 0..len /\ m + 1 = len - n /\ m \in Nat
      OBVIOUS
    <2> HIDE DEF m, Round
    <2>3. \A at \in (m + 1)..len : g[at] = f[at] /\ f[at] = Round(f, at)
      BY <2>1, <2>2, SMTT(30), ZenonT(60)
    <2>4. ASSUME NEW at \in m..len PROVE g[at] = Round(g, at)
      <3>1. Round(f, at) = Round(g, at)
        <4>1. \A x \in (at + 1)..len : f[x] = g[x]
          BY <2>2, <2>3
        <4>2. at \in 0..len
          BY <2>2
        <4> HIDE DEF g
        <4> QED
          BY <1>1, <4>1, <4>2
      <3>2. CASE at = m
        BY <3>1, <3>2
      <3>3. CASE at # m
        <4>1. at \in (m + 1)..len
          BY <2>2, <3>3
        <4> QED
          BY <2>3, <3>1, <4>1
      <3> QED
        BY <3>2, <3>3
    <2>5. g = [at \in m..len |-> Round(g, at)]
      <3>1. g = [at \in m..len |-> g[at]]
        OBVIOUS
      <3> HIDE DEF g
      <3> QED
        BY <2>4, <3>1
    <2> QED
      BY <2>5 DEF m
  <1> HIDE DEF T
  <1>4. len \in T
    BY <1>2, <1>3, NumberInduction
  <1>5. \E f : Is(f, 0)
    <2>1. len <= len /\ len - len = 0
      OBVIOUS
    <2> QED
      BY <1>4, <2>1 DEF T
  <1>6. \E f : f = [at \in 0..len |-> PatternRound(f, offset, len, crypt, skip, restart, at)]
    BY <1>5
  <1> QED
    BY <1>6, Zenon DEF PatternFrom

(* Taking whole blocks off the front leaves the whole blocks of the rest.  *)
LEMMA WholeLess ==
    ASSUME NEW len \in Nat, NEW j \in Nat, BlockBytes * j <= len
    PROVE  Whole(len - BlockBytes * j) = Whole(len) - BlockBytes * j
  <1> DEFINE B == BlockBytes
             n == len \div B
             s == len % B
             u == B * j
             W == B * n
             m == n - j
  <1>1. /\ B \in Nat \ {0} /\ n \in Nat /\ s \in 0..(B - 1) /\ len = W + s
    BY BlockBytesAssumption, Divides
  <1>2. u \in Nat /\ W \in Nat
    <2>1. j <= j /\ n <= n
      BY <1>1
    <2> QED
      BY <1>1, <2>1, Multiplies
  <1>3. j <= n
    <2> SUFFICES ASSUME ~(j <= n) PROVE FALSE
      OBVIOUS
    <2>1. n + 1 <= j /\ n + 1 \in Nat
      BY <1>1
    <2>2. B * (n + 1) <= u
      BY <1>1, <2>1, Multiplies
    <2> HIDE DEF n, s
    <2>3. B * (n + 1) = W + B
      BY <1>1
    <2> HIDE DEF u, W, B
    <2>4. W + B <= u /\ u <= W + s
      BY <1>1, <2>2, <2>3 DEF u, B
    <2> QED
      BY <1>1, <1>2, <2>4
  <1>4. m \in Nat /\ n = j + m
    <2> HIDE DEF n
    <2> QED
      BY <1>1, <1>3
  <1> HIDE DEF n, s, m
  <1> DEFINE v == B * m
  <1>5. v \in Nat /\ W = u + v
    <2>1. m <= m
      BY <1>4
    <2>2. v \in Nat
      BY <1>1, <1>4, <2>1, Multiplies
    <2>3. B * (j + m) = B * j + B * m
      BY <1>1, <1>4
    <2> QED
      BY <1>4, <2>2, <2>3
  <1> DEFINE l == len - u
  <1>6. l \in Nat /\ l = v + s /\ s \in Nat /\ s < B
    <2> HIDE DEF u, v, W, B
    <2> QED
      BY <1>1, <1>2, <1>5 DEF u, B
  <1> HIDE DEF u, l
  <1>7. l \div B = m
    BY <1>1, <1>4, <1>6, DivisionIs
  <1>8. Whole(l) = v
    BY <1>7 DEF Whole
  <1>9. Whole(len) = W
    BY DEF Whole, n
  <1> HIDE DEF v, W, B
  <1>10. Whole(l) = Whole(len) - u
    BY <1>2, <1>5, <1>8, <1>9
  <1> QED
    BY <1>10 DEF l, u, B

(* The run of a pattern of C crypt and S skip blocks covers the octets of  *)
(* its whole blocks that lie in a crypt block.                             *)
InPattern(len, C, S, q) ==
    (q \div BlockBytes + 1) * BlockBytes <= len /\ (q \div BlockBytes) % (C + S) < C

LEMMA PatternTiles ==
    ASSUME NEW offset \in Nat, NEW len \in Nat, NEW C \in Nat, NEW S \in Nat, C + S # 0,
           NEW restart \in BOOLEAN, NEW X,
           \A q \in 0..(len - 1) : offset + q \in X <=> InPattern(len, C, S, q)
    PROVE  Tiles(PatternRun(offset, len, C * BlockBytes, S * BlockBytes, restart),
                 offset, offset + len, X)
  <1> DEFINE B == BlockBytes
             M == C + S
             P == B * M
             crypt == C * B
             skip == S * B
             W == Whole(len)
             f == PatternFrom(offset, len, crypt, skip, restart)
             Aligned(at) == at = len \/ \E k \in Nat : at = P * k
             T == {n \in Nat : \A at \in 0..len :
                      len - at <= n /\ Aligned(at) => Tiles(f[at], offset + at, offset + len, X)}
  <1>1. B \in Nat \ {0} /\ M \in Nat \ {0} /\ W \in Nat /\ W <= len
    BY BlockBytesAssumption, WholeIs
  <1>2. crypt \in Nat /\ skip \in Nat /\ P \in Nat /\ P = crypt + skip /\ crypt = B * C
    <2>1. C <= C /\ S <= S
      OBVIOUS
    <2>2. B * C \in Nat /\ B * S \in Nat
      BY <1>1, <2>1, Multiplies
    <2>3. B * (C + S) = B * C + B * S
      BY <1>1
    <2>4. C * B = B * C /\ S * B = B * S
      BY <1>1
    <2> QED
      BY <2>2, <2>3, <2>4
  <1>3. \A q \in 0..(len - 1) : offset + q \in X <=> q < W /\ (q \div B) % M < C
    <2>1. \A q \in 0..(len - 1) : q < W <=> (q \div B + 1) * B <= len
      BY WholeIs
    <2> QED
      BY <2>1 DEF InPattern
  <1>4. CASE C = 0
    <2>1. \A i \in offset..(offset + len - 1) : i \notin X
      <3> SUFFICES ASSUME NEW i \in offset..(offset + len - 1), i \in X PROVE FALSE
        OBVIOUS
      <3> DEFINE q == i - offset
      <3>1. q \in 0..(len - 1) /\ i = offset + q
        OBVIOUS
      <3> HIDE DEF q
      <3>2. (q \div B) % M < 0 /\ q \in Nat
        BY <1>3, <1>4, <3>1
      <3>3. q \div B \in Nat
        BY <1>1, <3>2, Divides
      <3>4. (q \div B) % M \in 0..(M - 1)
        BY <1>1, <3>3, Divides
      <3> QED
        BY <1>1, <3>2, <3>4
    <2>2. Tiles(ClearRun(offset, len), offset, offset + len, X)
      BY <2>1, TilesClear
    <2>3. crypt = 0
      BY <1>1, <1>4
    <2>4. PatternRun(offset, len, crypt, skip, restart) = ClearRun(offset, len)
      BY <2>3 DEF PatternRun
    <2> QED
      BY <2>2, <2>4
  <1>5. CASE C # 0
    <2>1. crypt \in Nat \ {0}
      BY <1>1, <1>2, <1>5
    <2>2. f = [at \in 0..len |-> PatternRound(f, offset, len, crypt, skip, restart, at)]
      BY <1>2, <2>1, PatternExists
    <2>3. PatternRun(offset, len, crypt, skip, restart) = f[0]
      BY <2>1 DEF PatternRun, PatternFrom, PatternRound, FullRun, SkippedRun
    <2>4. ASSUME NEW at \in 0..len, Aligned(at), len - at # 0,
                 \A next \in (at + 1)..len :
                    Aligned(next) => Tiles(f[next], offset + next, offset + len, X)
          PROVE  Tiles(f[at], offset + at, offset + len, X)
      <3> DEFINE left == len - at
                 full == FullRun(left, crypt)
                 skipped == SkippedRun(left, full, skip)
                 next == at + full + skipped
                 here == restart /\ at = 0
      <3>1. PICK k \in Nat : at = P * k
        BY <2>4
      <3>2. /\ left \in Nat /\ left # 0 /\ full \in Nat /\ skipped \in Nat
            /\ full <= Whole(left) /\ full <= crypt /\ full + skipped <= left
            /\ full < crypt => full = Whole(left)
            /\ skipped < skip => full + skipped = left
            /\ skipped <= skip
        <4> HIDE DEF crypt, skip
        <4>1. left \in Nat /\ left # 0
          BY <2>4
        <4>2. /\ full \in Nat /\ skipped \in Nat
              /\ full <= Whole(left) /\ full <= crypt /\ full + skipped <= left
              /\ full < crypt => full = Whole(left)
              /\ skipped < skip => full + skipped = left
              /\ skipped <= skip
          <5>1. crypt \in Nat /\ skip \in Nat
            BY <1>2
          <5> HIDE DEF left
          <5> QED
            BY <4>1, <5>1, RoundIs
        <4> QED
          BY <4>1, <4>2
      <3>3. Whole(left) = W - at
        <4> DEFINE j == M * k
        <4>1. k <= k
          OBVIOUS
        <4>2. j \in Nat
          BY <1>1, <4>1, Multiplies
        <4>3. at = B * j
          BY <1>1, <3>1
        <4> HIDE DEF j
        <4> QED
          BY <4>2, <4>3, WholeLess
      <3>4. f[at] = IF full < crypt
                    THEN EncryptedRun(offset + at, full, here)
                         \o ClearRun(offset + at + full, left - full)
                    ELSE EncryptedRun(offset + at, full, here)
                         \o (ClearRun(offset + at + full, skipped) \o f[next])
        <4>1. f[at] = PatternRound(f, offset, len, crypt, skip, restart, at)
          BY <2>2
        <4> HIDE DEF f
        <4>2. CASE full < crypt
          BY <3>2, <4>1, <4>2, Zenon DEF PatternRound
        <4>3. CASE ~(full < crypt)
          BY <3>2, <4>1, <4>3, Zenon DEF PatternRound
        <4> QED
          BY <4>2, <4>3
      <3>5. \A x \in Nat : x < P => (((at + x) \div B) % M < C <=> x < crypt)
        <4> SUFFICES ASSUME NEW x \in Nat, x < P
                     PROVE  ((at + x) \div B) % M < C <=> x < crypt
          OBVIOUS
        <4>1. ((P * k + x) \div B) % M < C <=> x < B * C
          BY PatternAt
        <4> QED
          BY <1>2, <3>1, <4>1
      <3> HIDE DEF W, P, M, f, crypt, skip, full, skipped, left
      <3>6. \A i \in (offset + at)..(offset + at + full - 1) : i \in X
        <4> SUFFICES ASSUME NEW i \in (offset + at)..(offset + at + full - 1)
                     PROVE  i \in X
          OBVIOUS
        <4> DEFINE x == i - (offset + at)
        <4>1. x \in Nat /\ x < full /\ i = offset + (at + x)
          BY <3>2
        <4> HIDE DEF x
        <4>2. x < crypt /\ x < P
          BY <1>2, <3>2, <4>1
        <4>3. at + x < W /\ at + x \in 0..(len - 1)
          BY <1>1, <3>2, <3>3, <4>1
        <4>4. ((at + x) \div B) % M < C
          BY <3>5, <4>1, <4>2
        <4> QED
          BY <1>3, <4>1, <4>3, <4>4
      <3>7. Tiles(EncryptedRun(offset + at, full, here), offset + at,
                  offset + at + full, X)
        <4>1. offset + at \in Nat /\ here \in BOOLEAN
          OBVIOUS
        <4> HIDE DEF here
        <4> QED
          BY <3>2, <3>6, <4>1, TilesEncrypted
      <3>8. CASE full < crypt
        <4>1. \A i \in (offset + at + full)..(offset + at + full + (left - full) - 1) : i \notin X
          <5> SUFFICES ASSUME NEW i \in (offset + at + full)..(offset + len - 1)
                       PROVE  i \notin X
            BY <3>2 DEF left
          <5> DEFINE q == i - offset
          <5>1. q \in 0..(len - 1) /\ i = offset + q /\ q >= at + full
            BY <3>2
          <5> HIDE DEF q
          <5>2. ~(q < W)
            BY <1>1, <3>2, <3>3, <3>8, <5>1
          <5> QED
            BY <1>3, <5>1, <5>2
        <4>2. offset + at + full \in Nat /\ left - full \in Nat
              /\ offset + at + full + (left - full) = offset + len
          BY <3>2 DEF left
        <4>3. Tiles(ClearRun(offset + at + full, left - full), offset + at + full,
                    offset + len, X)
          <5>1. Tiles(ClearRun(offset + at + full, left - full), offset + at + full,
                      offset + at + full + (left - full), X)
            BY <4>1, <4>2, TilesClear
          <5> QED
            BY <4>2, <5>1
        <4>4. offset + at \in Nat /\ offset + at + full \in Nat /\ offset + len \in Nat
              /\ offset + at <= offset + at + full /\ offset + at + full <= offset + len
          BY <3>2 DEF left
        <4> QED
          BY <3>4, <3>7, <3>8, <4>3, <4>4, TilesConcat
      <3>9. CASE ~(full < crypt)
        <4>1. full = crypt /\ next \in (at + 1)..len
          BY <2>1, <3>2, <3>9 DEF left
        <4>2. \A i \in (offset + at + full)..(offset + at + full + skipped - 1) : i \notin X
          <5> SUFFICES ASSUME NEW i \in (offset + at + full)..(offset + at + full + skipped - 1)
                       PROVE  i \notin X
            OBVIOUS
          <5> DEFINE x == i - (offset + at)
          <5>1. x \in Nat /\ x >= full /\ x < full + skipped /\ i = offset + (at + x)
            BY <3>2
          <5> HIDE DEF x
          <5>2. ~(x < crypt) /\ x < P
            BY <1>2, <3>2, <4>1, <5>1
          <5>3. at + x \in 0..(len - 1)
            BY <3>2, <5>1 DEF left
          <5>4. ~(((at + x) \div B) % M < C)
            BY <3>5, <5>1, <5>2
          <5> QED
            BY <1>3, <5>1, <5>3, <5>4
        <4>3. Tiles(ClearRun(offset + at + full, skipped), offset + at + full,
                    offset + at + full + skipped, X)
          <5>1. offset + at + full \in Nat
            BY <3>2
          <5> QED
            BY <3>2, <4>2, <5>1, TilesClear
        <4>4. Aligned(next)
          <5>1. CASE skipped < skip
            BY <3>2, <5>1 DEF left
          <5>2. CASE ~(skipped < skip)
            <6>1. next = at + P
              BY <1>2, <3>2, <4>1, <5>2
            <6>2. P * (k + 1) = P * k + P
              BY <1>2
            <6> QED
              BY <3>1, <6>1, <6>2
          <5> QED
            BY <5>1, <5>2
        <4>5. Tiles(f[next], offset + next, offset + len, X)
          BY <2>4, <4>1, <4>4
        <4>6. /\ offset + at \in Nat /\ offset + at + full \in Nat /\ offset + len \in Nat
              /\ offset + next \in Nat /\ offset + at + full + skipped = offset + next
              /\ offset + at <= offset + at + full
              /\ offset + at + full <= offset + next /\ offset + next <= offset + len
          BY <3>2, <4>1
        <4> HIDE DEF next
        <4>7. Tiles(ClearRun(offset + at + full, skipped) \o f[next], offset + at + full,
                    offset + len, X)
          BY <4>3, <4>5, <4>6, TilesConcat
        <4>8. Tiles(EncryptedRun(offset + at, full, here)
                      \o (ClearRun(offset + at + full, skipped) \o f[next]),
                    offset + at, offset + len, X)
          <5>1. offset + at + full <= offset + len
            BY <4>6
          <5> QED
            BY <3>7, <4>6, <4>7, <5>1, TilesConcat
        <4> QED
          BY <3>4, <3>9, <4>8
      <3> QED
        BY <3>8, <3>9
    <2>5. \A at \in 0..len : len - at = 0 => Tiles(f[at], offset + at, offset + len, X)
      <3> SUFFICES ASSUME NEW at \in 0..len, len - at = 0
                   PROVE  Tiles(f[at], offset + at, offset + len, X)
        OBVIOUS
      <3>1. f[at] = PatternRound(f, offset, len, crypt, skip, restart, at) /\ at = len
        BY <2>2
      <3> HIDE DEF f
      <3>2. f[at] = <<>>
        BY <3>1 DEF PatternRound
      <3>3. offset + len \in Nat
        OBVIOUS
      <3> QED
        BY <3>1, <3>2, <3>3, TilesEmpty
    <2> HIDE DEF f, Aligned, P, M, W, crypt, skip
    <2>6. 0 \in T
      BY <2>5
    <2>7. ASSUME NEW n \in Nat, n \in T PROVE n + 1 \in T
      <3> SUFFICES ASSUME NEW at \in 0..len, len - at <= n + 1, Aligned(at)
                   PROVE  Tiles(f[at], offset + at, offset + len, X)
        OBVIOUS
      <3>1. CASE len - at = 0
        BY <2>5, <3>1
      <3>2. CASE len - at # 0
        <4>1. \A next \in (at + 1)..len : next \in 0..len /\ len - next <= n
          OBVIOUS
        <4>2. \A next \in (at + 1)..len :
                 Aligned(next) => Tiles(f[next], offset + next, offset + len, X)
          BY <2>7, <4>1
        <4> QED
          BY <2>4, <3>2, <4>2
      <3> QED
        BY <3>1, <3>2
    <2> HIDE DEF T
    <2>8. len \in T
      BY <2>6, <2>7, NumberInduction
    <2>9. Aligned(0)
      <3>1. P * 0 = 0
        BY <1>2
      <3> QED
        BY <3>1 DEF Aligned
    <2>10. Tiles(f[0], offset + 0, offset + len, X)
      <3>1. 0 \in 0..len /\ len - 0 <= len
        OBVIOUS
      <3> QED
        BY <2>8, <2>9, <3>1 DEF T
    <2>11. offset + 0 = offset
      OBVIOUS
    <2> QED
      BY <2>3, <2>10, <2>11 DEF crypt, skip, B
  <1> QED
    BY <1>4, <1>5

(* Where the subsamples of a map begin.                                    *)
LEMMA StartIs ==
    ASSUME NEW m \in Seq(Nat \X Nat)
    PROVE  /\ \A n \in 1..(Len(m) + 1) : SubsampleStart(m, n) \in Nat
           /\ SubsampleStart(m, 1) = 0
           /\ \A n \in 1..Len(m) :
                 /\ m[n][1] \in Nat /\ m[n][2] \in Nat
                 /\ SubsampleStart(m, n + 1) = SubsampleStart(m, n) + (m[n][1] + m[n][2])
           /\ \A n \in 1..Len(m) : \A j \in 1..n :
                 SubsampleStart(m, j) + (m[j][1] + m[j][2]) <= SubsampleStart(m, n + 1)
  <1> DEFINE N == Len(m)
             w == [k \in 1..N |-> m[k][1] + m[k][2]]
             before(n) == Total(SubSeq(w, 1, n))
  <1>1. N \in Nat /\ DOMAIN m = 1..N /\ \A n \in 1..N : m[n][1] \in Nat /\ m[n][2] \in Nat
    <2>1. \A n \in 1..N : m[n] \in Nat \X Nat
      OBVIOUS
    <2> QED
      BY <2>1
  <1>2. w \in Seq(Nat) /\ Len(w) = N /\ \A k \in 1..N : w[k] = m[k][1] + m[k][2]
    <2>1. \A k \in 1..N : m[k][1] + m[k][2] \in Nat
      BY <1>1
    <2>2. w \in [1..N -> Nat]
      BY <2>1
    <2> QED
      BY <1>1, <2>2
  <1> HIDE DEF w
  <1>3. ASSUME NEW n \in 0..N
        PROVE  SubsampleStart(m, n + 1) = before(n)
    <2> DEFINE p == SubSeq(m, 1, n)
               q == SubSeq(w, 1, n)
               v == [k \in DOMAIN p |-> SubsampleBytes(p[k])]
    <2>1. p \in Seq(Nat \X Nat) /\ Len(p) = n /\ \A k \in 1..n : p[k] = m[k]
      BY PrefixIs
    <2>2. q \in Seq(Nat) /\ Len(q) = n /\ \A k \in 1..n : q[k] = w[k]
      BY <1>2, PrefixIs, SMTT(30), ZenonT(60)
    <2> HIDE DEF p, q
    <2>3. DOMAIN p = 1..n /\ DOMAIN q = 1..n /\ q = [k \in 1..n |-> q[k]]
      BY <2>1, <2>2
    <2>4. \A k \in 1..n : SubsampleBytes(p[k]) = q[k]
      <3> SUFFICES ASSUME NEW k \in 1..n PROVE SubsampleBytes(p[k]) = q[k]
        OBVIOUS
      <3>1. k \in 1..N
        BY <1>1
      <3>2. p[k] = m[k] /\ q[k] = w[k] /\ w[k] = m[k][1] + m[k][2]
        BY <1>2, <2>1, <2>2, <3>1
      <3> QED
        BY <3>2 DEF SubsampleBytes
    <2>5. v = q
      BY <2>3, <2>4
    <2>6. n + 1 - 1 = n
      BY <1>1
    <2>7. SubsampleStart(m, n + 1) = Total(v)
      <3>1. SubsampleStart(m, n + 1) = SumOf(p, SubsampleBytes)
        BY <2>6 DEF SubsampleStart, p
      <3> QED
        BY <3>1 DEF SumOf
    <2> QED
      BY <2>5, <2>7 DEF q
  <1>4. \A n \in 0..N : before(n) \in Nat
    BY <1>2, TotalPrefixNat
  <1>5. before(0) = 0
    <2>1. SubSeq(w, 1, 0) = <<>>
      BY <1>1, <1>2, PrefixIs
    <2> QED
      BY <2>1, TotalEmpty
  <1>6. ASSUME NEW n \in 1..N
        PROVE  before(n) = before(n - 1) + w[n]
    <2>1. w \in Seq(Int) /\ n \in 1..Len(w)
      BY <1>2
    <2> QED
      BY <2>1, TotalPrefix
  <1>7. ASSUME NEW n \in 1..N, NEW j \in 1..n
        PROVE  before(j) <= before(n)
    <2>1. CASE j = n
      BY <1>1, <1>4, <2>1
    <2>2. CASE j # n
      <3>1. j \in 0..(n - 1) /\ n \in 1..Len(w)
        BY <1>2, <2>2
      <3>2. before(j) + w[n] <= before(n)
        BY <1>2, <3>1, TotalGrows
      <3>3. w[n] \in Nat /\ before(j) \in Nat /\ before(n) \in Nat
        <4>1. j \in 0..N /\ n \in 0..N /\ n \in 1..N
          BY <1>1
        <4>2. w[n] \in Nat
          BY <1>2
        <4> QED
          BY <1>4, <4>1, <4>2
      <3> QED
        BY <3>2, <3>3
    <2> QED
      BY <2>1, <2>2
  <1> HIDE DEF before, N
  <1>8. ASSUME NEW n \in 1..N
        PROVE  /\ SubsampleStart(m, n) = before(n - 1) /\ SubsampleStart(m, n + 1) = before(n)
               /\ SubsampleStart(m, n + 1) = SubsampleStart(m, n) + (m[n][1] + m[n][2])
    <2>1. n - 1 \in 0..N /\ n - 1 + 1 = n /\ n \in 0..N
      BY <1>1
    <2>2. SubsampleStart(m, n) = before(n - 1) /\ SubsampleStart(m, n + 1) = before(n)
      BY <1>3, <2>1
    <2> QED
      BY <1>2, <1>6, <2>2
  <1>9. ASSUME NEW n \in 1..(N + 1)
        PROVE  SubsampleStart(m, n) \in Nat
    <2>1. n - 1 \in 0..N /\ n - 1 + 1 = n
      BY <1>1
    <2> QED
      BY <1>3, <1>4, <2>1
  <1>10. SubsampleStart(m, 1) = 0
    <2>1. 0 \in 0..N /\ 0 + 1 = 1
      BY <1>1
    <2> QED
      BY <1>3, <1>5, <2>1
  <1>11. ASSUME NEW n \in 1..N, NEW j \in 1..n
         PROVE  SubsampleStart(m, j) + (m[j][1] + m[j][2]) <= SubsampleStart(m, n + 1)
    <2>1. j \in 1..N
      BY <1>1
    <2> QED
      BY <1>7, <1>8, <2>1
  <1> QED
    BY <1>1, <1>8, <1>9, <1>10, <1>11 DEF N

(***************************************************************************)
(* Every plan the scheme makes covers the octets the standard encrypts.    *)
(***************************************************************************)
IsDecided(d) ==
    /\ d.scheme \in DOMAIN CipherMode
    /\ d.tenc.crypt \in Nat /\ d.tenc.skip \in Nat
    /\ UsesPattern(d.scheme) => d.tenc.crypt # 0 \/ d.tenc.skip # 0

LEMMA SubsampleTiles ==
    ASSUME NEW d, IsDecided(d), NEW start \in Nat, NEW sub \in Nat \X Nat, NEW X,
           \A i \in start..(start + sub[1] - 1) : i \notin X,
           \A q \in 0..(sub[2] - 1) :
              start + sub[1] + q \in X <=> RangeOctetEncrypted(d.scheme, d.tenc, q, sub[2])
    PROVE  Tiles(SubsamplePlan(d, start, sub), start, start + (sub[1] + sub[2]), X)
  <1> DEFINE a == sub[1]
             len == sub[2]
             at == start + a
             C == d.tenc.crypt
             S == d.tenc.skip
             c == ClearRun(start, a)
             e == IF UsesPattern(d.scheme)
                  THEN PatternRun(at, len, C * BlockBytes, S * BlockBytes, d.scheme = "cbcs")
                  ELSE EncryptedRun(at, len, FALSE)
  <1>1. a \in Nat /\ len \in Nat /\ at \in Nat /\ C \in Nat /\ S \in Nat
    BY DEF IsDecided
  <1>2. Tiles(c, start, at, X)
    BY <1>1, TilesClear
  <1>3. Tiles(e, at, at + len, X)
    <2>1. CASE UsesPattern(d.scheme)
      <3>1. \A q \in 0..(len - 1) : at + q \in X <=> InPattern(len, C, S, q)
        BY <2>1 DEF RangeOctetEncrypted, InPattern
      <3>2. C + S # 0
        BY <1>1, <2>1 DEF IsDecided
      <3> DEFINE restart == d.scheme = "cbcs"
      <3>3. restart \in BOOLEAN
        OBVIOUS
      <3> HIDE DEF a, len, at, C, S, restart
      <3>4. Tiles(PatternRun(at, len, C * BlockBytes, S * BlockBytes, restart),
                  at, at + len, X)
        BY <1>1, <3>1, <3>2, <3>3, PatternTiles
      <3> QED
        BY <2>1, <3>4 DEF restart
    <2>2. CASE ~UsesPattern(d.scheme)
      <3>1. \A q \in 0..(len - 1) : at + q \in X
        BY <2>2 DEF RangeOctetEncrypted
      <3> DEFINE restart == FALSE
      <3> HIDE DEF a, len, at
      <3>2. \A i \in at..(at + len - 1) : i \in X
        <4> SUFFICES ASSUME NEW i \in at..(at + len - 1) PROVE i \in X
          OBVIOUS
        <4> DEFINE q == i - at
        <4>1. q \in 0..(len - 1) /\ i = at + q
          BY <1>1
        <4> HIDE DEF q
        <4> QED
          BY <3>1, <4>1
      <3>3. restart \in BOOLEAN
        OBVIOUS
      <3> HIDE DEF restart
      <3>4. Tiles(EncryptedRun(at, len, restart), at, at + len, X)
        BY <1>1, <3>2, <3>3, TilesEncrypted
      <3> QED
        BY <2>2, <3>4 DEF restart
    <2> QED
      BY <2>1, <2>2
  <1>4. SubsamplePlan(d, start, sub) = c \o e
    BY DEF SubsamplePlan
  <1> HIDE DEF c, e
  <1>5. start + (sub[1] + sub[2]) = at + len /\ start <= at /\ at <= at + len /\ at + len \in Nat
    BY <1>1
  <1> HIDE DEF at, a, len
  <1>6. Tiles(c \o e, start, at + len, X)
    BY <1>1, <1>2, <1>3, <1>5, TilesConcat
  <1> QED
    BY <1>4, <1>5, <1>6

(* Whether the map has octet i encrypted.                                  *)
MapEncrypts(d, m, i) ==
    \E n \in DOMAIN m :
        LET q == i - SubsampleStart(m, n) - m[n][1]
        IN  /\ q \in 0..(m[n][2] - 1)
            /\ RangeOctetEncrypted(d.scheme, d.tenc, q, m[n][2])

LEMMA MapTiles ==
    ASSUME NEW d, IsDecided(d), NEW m \in Seq(Nat \X Nat)
    PROVE  Tiles(MapPlan(d, m), 0, SubsampleStart(m, Len(m) + 1),
                 {i \in Nat : MapEncrypts(d, m, i)})
  <1> DEFINE N == Len(m)
             X == {i \in Nat : MapEncrypts(d, m, i)}
             g == [n \in 1..(N + 1) |-> SubsampleStart(m, n)]
             ss == [k \in DOMAIN m |-> SubsamplePlan(d, SubsampleStart(m, k), m[k])]
  <1>1. /\ N \in Nat /\ DOMAIN m = 1..N /\ DOMAIN ss = 1..N
        /\ \A n \in 1..N : m[n] \in Nat \X Nat /\ m[n][1] \in Nat /\ m[n][2] \in Nat
    BY StartIs
  <1>2. g \in [1..(N + 1) -> Nat] /\ g[1] = 0 /\ g[N + 1] = SubsampleStart(m, N + 1)
    <2>1. \A n \in 1..(N + 1) : SubsampleStart(m, n) \in Nat
      BY StartIs
    <2>2. 1 \in 1..(N + 1) /\ N + 1 \in 1..(N + 1)
      BY <1>1
    <2>3. SubsampleStart(m, 1) = 0
      BY StartIs
    <2> QED
      BY <2>1, <2>2, <2>3
  <1>3. \A n \in 1..(N + 1) : g[n] \in Nat /\ g[n] = SubsampleStart(m, n)
    BY <1>2
  <1>4. ASSUME NEW n \in 1..N
        PROVE  /\ g[n + 1] = g[n] + (m[n][1] + m[n][2]) /\ g[n] \in Nat /\ g[n + 1] \in Nat
               /\ \A j \in 1..n : g[j] + (m[j][1] + m[j][2]) <= g[n + 1]
    <2>1. n \in 1..(N + 1) /\ n + 1 \in 1..(N + 1) /\ 1..n \subseteq 1..(N + 1)
      BY <1>1
    <2>2. SubsampleStart(m, n + 1) = SubsampleStart(m, n) + (m[n][1] + m[n][2])
      BY StartIs
    <2>3. \A j \in 1..n : SubsampleStart(m, j) + (m[j][1] + m[j][2]) <= SubsampleStart(m, n + 1)
      BY StartIs
    <2> QED
      BY <1>3, <2>1, <2>2, <2>3
  <1>5. \A i \in Nat : i \in X <=>
            \E n \in 1..N : /\ i - g[n] - m[n][1] \in 0..(m[n][2] - 1)
                            /\ RangeOctetEncrypted(d.scheme, d.tenc, i - g[n] - m[n][1], m[n][2])
    <2>1. \A n \in 1..N : g[n] = SubsampleStart(m, n)
      BY <1>1, <1>3
    <2> HIDE DEF g
    <2> QED
      BY <1>1, <2>1 DEF MapEncrypts
  <1> HIDE DEF X, g
  <1>6. ASSUME NEW k \in 1..N
        PROVE  g[k] <= g[k + 1] /\ Tiles(ss[k], g[k], g[k + 1], X)
    <2> DEFINE a == m[k][1]
               b == m[k][2]
               s == g[k]
    <2>1. /\ a \in Nat /\ b \in Nat /\ s \in Nat /\ g[k + 1] = s + (a + b)
          /\ g[k + 1] \in Nat
      BY <1>1, <1>4
    <2> HIDE DEF s, a, b, N
    <2>8. N \in Nat
      BY <1>1
    <2>2. ASSUME NEW i \in s..(s + (a + b) - 1), NEW n \in 1..N,
                 i - g[n] - m[n][1] \in 0..(m[n][2] - 1)
          PROVE  n = k
      <3>1. /\ g[n] \in Nat /\ m[n][1] \in Nat /\ m[n][2] \in Nat
            /\ g[n + 1] = g[n] + (m[n][1] + m[n][2]) /\ g[n + 1] \in Nat
        BY <1>1, <1>4
      <3>2. i \in Nat /\ g[n] <= i /\ i < g[n + 1] /\ s <= i /\ i < g[k + 1]
        <4> DEFINE x == m[n][1]
                   y == m[n][2]
        <4>1. x \in Nat /\ y \in Nat /\ g[n + 1] = g[n] + (x + y) /\ i - g[n] - x \in 0..(y - 1)
          BY <2>2, <3>1
        <4> HIDE DEF x, y
        <4>2. i \in Nat /\ s <= i /\ i < g[k + 1]
          BY <2>1
        <4>3. g[n] \in Nat /\ g[n + 1] \in Nat
          BY <3>1
        <4>4. g[n] <= i /\ i < g[n + 1]
          BY <4>1, <4>2, <4>3
        <4> QED
          BY <4>2, <4>4
      <3>3. ~(n < k)
        <4> SUFFICES ASSUME n < k PROVE FALSE
          OBVIOUS
        <4> DEFINE p == k - 1
        <4>1. p \in 1..N /\ n \in 1..p /\ p + 1 = k
          BY <2>8
        <4> HIDE DEF p
        <4>2. g[n + 1] <= g[p + 1]
          BY <1>4, <3>1, <4>1
        <4>3. g[n + 1] \in Nat /\ g[n + 1] <= s
          BY <3>1, <4>1, <4>2 DEF s
        <4> QED
          BY <2>1, <3>2, <4>3
      <3>4. ~(k < n)
        <4> SUFFICES ASSUME k < n PROVE FALSE
          OBVIOUS
        <4> DEFINE p == n - 1
        <4>1. p \in 1..N /\ k \in 1..p /\ p + 1 = n
          BY <2>8
        <4> HIDE DEF p
        <4>2. g[k + 1] <= g[p + 1]
          <5>1. g[k] + (m[k][1] + m[k][2]) <= g[p + 1]
            BY <1>4, <4>1
          <5> QED
            BY <2>1, <5>1 DEF s, a, b
        <4>3. g[p + 1] = g[n]
          BY <4>1
        <4>4. g[k + 1] \in Nat /\ g[n] \in Nat
          BY <2>1, <3>1
        <4>5. i \in Nat /\ g[n] <= i /\ i < g[k + 1]
          BY <3>2
        <4> QED
          BY <4>2, <4>3, <4>4, <4>5
      <3> QED
        BY <1>1, <3>3, <3>4
    <2>3. \A i \in s..(s + a - 1) : i \notin X
      <3> SUFFICES ASSUME NEW i \in s..(s + a - 1), i \in X PROVE FALSE
        OBVIOUS
      <3>1. i \in Nat /\ i \in s..(s + (a + b) - 1)
        BY <2>1
      <3>2. PICK n \in 1..N : i - g[n] - m[n][1] \in 0..(m[n][2] - 1)
        BY <1>5, <3>1
      <3>3. n = k
        BY <2>2, <3>1, <3>2
      <3>4. i - s - a \in 0..(b - 1)
        BY <3>2, <3>3 DEF s, a, b
      <3> QED
        BY <2>1, <3>1, <3>4
    <2>4. \A q \in 0..(b - 1) :
             s + a + q \in X <=> RangeOctetEncrypted(d.scheme, d.tenc, q, b)
      <3> SUFFICES ASSUME NEW q \in 0..(b - 1)
                   PROVE  s + a + q \in X <=> RangeOctetEncrypted(d.scheme, d.tenc, q, b)
        OBVIOUS
      <3> DEFINE i == s + a + q
      <3>1. i \in Nat /\ i \in s..(s + (a + b) - 1) /\ i - s - a = q
        BY <2>1
      <3> HIDE DEF i
      <3>2. \A n \in 1..N : i - g[n] - m[n][1] \in 0..(m[n][2] - 1) => n = k
        BY <2>2, <3>1
      <3>3. ASSUME i \in X PROVE RangeOctetEncrypted(d.scheme, d.tenc, q, b)
        <4>1. PICK n \in 1..N :
                 /\ i - g[n] - m[n][1] \in 0..(m[n][2] - 1)
                 /\ RangeOctetEncrypted(d.scheme, d.tenc, i - g[n] - m[n][1], m[n][2])
          BY <1>5, <3>1, <3>3
        <4>2. n = k
          BY <3>2, <4>1
        <4> QED
          BY <3>1, <4>1, <4>2 DEF s, a, b
      <3>4. ASSUME RangeOctetEncrypted(d.scheme, d.tenc, q, b) PROVE i \in X
        <4>1. i - g[k] - m[k][1] = q
          BY <3>1 DEF s, a
        <4> QED
          BY <1>5, <3>1, <3>4, <4>1 DEF b
      <3> QED
        BY <3>3, <3>4 DEF i
    <2>5. Tiles(SubsamplePlan(d, s, m[k]), s, s + (m[k][1] + m[k][2]), X)
      <3>1. m[k] \in Nat \X Nat /\ a = m[k][1] /\ b = m[k][2]
        BY <1>1 DEF a, b
      <3> QED
        BY <2>1, <2>3, <2>4, <3>1, SubsampleTiles
    <2>6. ss[k] = SubsamplePlan(d, s, m[k])
      <3>1. k \in 1..(N + 1)
        BY <1>1
      <3> QED
        BY <1>1, <1>3, <3>1 DEF s
    <2>7. s = g[k] /\ s + (m[k][1] + m[k][2]) = g[k + 1] /\ g[k] <= g[k + 1]
      BY <2>1, SMTT(30), ZenonT(60) DEF s, a, b
    <2> HIDE DEF ss
    <2> QED
      BY <2>5, <2>6, <2>7
  <1>7. ss \in Seq(Seq(Steps)) /\ Len(ss) = N
    <2>1. \A k \in 1..N : ss[k] \in Seq(Steps)
      BY <1>6 DEF Tiles
    <2> DEFINE V == Seq(Steps)
    <2>2. ss = [k \in 1..N |-> ss[k]]
      BY <1>1
    <2> HIDE DEF ss, V
    <2>3. ss \in [1..N -> V]
      BY <2>1, <2>2 DEF V
    <2> QED
      BY <1>1, <2>3, SMTT(30), ZenonT(60) DEF V
  <1>8. MapPlan(d, m) = FlattenSeq(ss)
    BY DEF MapPlan
  <1> HIDE DEF ss
  <1>9. Tiles(FlattenSeq(ss), g[1], g[N + 1], X)
    <2> HIDE DEF N
    <2> QED
      BY <1>2, <1>6, <1>7, TilesFlatten
  <1> QED
    BY <1>2, <1>8, <1>9 DEF X

LEMMA FullTiles ==
    ASSUME NEW d, IsDecided(d), NEW len \in Nat
    PROVE  Tiles(FullSamplePlan(d, len), 0, len,
                 {i \in Nat : d.scheme = "cenc" \/ i < Whole(len)})
  <1> DEFINE X == {i \in Nat : d.scheme = "cenc" \/ i < Whole(len)}
             e == IF d.scheme = "cenc" THEN len ELSE Whole(len)
             no == FALSE
  <1>1. e \in Nat /\ e <= len /\ no \in BOOLEAN
    BY WholeIs
  <1>2. FullSamplePlan(d, len) = EncryptedRun(0, e, no) \o ClearRun(e, len - e)
    BY DEF FullSamplePlan, IsDecided, CipherMode, UsesPattern
  <1>3. \A i \in 0..(e - 1) : i \in X
    BY <1>1, WholeIs
  <1>4. \A i \in e..(len - 1) : i \notin X
    BY <1>1, WholeIs
  <1> HIDE DEF X, e, no
  <1>5. Tiles(EncryptedRun(0, e, no), 0, 0 + e, X)
    <2>1. \A i \in 0..(0 + e - 1) : i \in X
      BY <1>1, <1>3
    <2> QED
      BY <1>1, <2>1, TilesEncrypted
  <1>6. Tiles(ClearRun(e, len - e), e, e + (len - e), X)
    <2>1. len - e \in Nat /\ \A i \in e..(e + (len - e) - 1) : i \notin X
      BY <1>1, <1>4
    <2> QED
      BY <1>1, <2>1, TilesClear
  <1>7. 0 + e = e /\ e + (len - e) = len /\ 0 <= e
    BY <1>1
  <1>8. Tiles(EncryptedRun(0, e, no) \o ClearRun(e, len - e), 0, len, X)
    BY <1>1, <1>5, <1>6, <1>7, TilesConcat
  <1> QED
    BY <1>2, <1>8 DEF X

Encrypted(d, sample) == {i \in Nat : OctetEncrypted(d.scheme, d.tenc, sample, i)}
IsMap(map) == map = {} \/ \E m \in Seq(Nat \X Nat) : map = {m}

LEMMA PlanTiles ==
    ASSUME NEW d, IsDecided(d), NEW sample, sample.len \in Nat, IsMap(sample.map),
           NEW plan \in PlanSampleCipher(d, sample.map, sample.len)
    PROVE  Tiles(plan, 0, sample.len, Encrypted(d, sample))
  <1> DEFINE map == sample.map
             len == sample.len
  <1>1. CASE map = {}
    <2>1. plan = FullSamplePlan(d, len)
      BY <1>1 DEF PlanSampleCipher
    <2>2. Encrypted(d, sample) = {i \in Nat : d.scheme = "cenc" \/ i < Whole(len)}
      BY <1>1 DEF Encrypted, OctetEncrypted, Whole
    <2> QED
      BY <2>1, <2>2, FullTiles
  <1>2. CASE map # {}
    <2>1. PICK m \in Seq(Nat \X Nat) : map = {m}
      BY <1>2 DEF IsMap
    <2>2. plan = MapPlan(d, m) /\ MapCovers(m, len)
      BY <1>2, <2>1 DEF PlanSampleCipher
    <2>3. SubsampleStart(m, Len(m) + 1) = len
      BY <2>2 DEF MapCovers
    <2>4. MapOf(sample) = m
      BY <2>1 DEF MapOf
    <2>5. Encrypted(d, sample) = {i \in Nat : MapEncrypts(d, m, i)}
      BY <1>2, <2>4 DEF Encrypted, OctetEncrypted, MapEncrypts
    <2> QED
      BY <2>2, <2>3, <2>5, MapTiles
  <1> QED
    BY <1>1, <1>2

(* The clear steps dropped, the others still tile.                         *)
LEMMA EncryptedTiles ==
    ASSUME NEW lo \in Nat, NEW hi \in Nat, NEW X, NEW plan, Tiles(plan, lo, hi, X)
    PROVE  /\ Tiles(EncryptedSteps(plan), lo, hi, X)
           /\ \A n \in 1..Len(EncryptedSteps(plan)) :
                 EncryptedSteps(plan)[n].kind = "encrypted"
  <1> DEFINE K == {n \in DOMAIN plan : plan[n].kind = "encrypted"}
             r == Selected(plan, K)
  <1>1. plan \in Seq(Steps) /\ DOMAIN plan = 1..Len(plan) /\ Len(plan) \in Nat
    BY DEF Tiles
  <1>2. PICK h : Enumerates(r, plan, K, h)
    BY <1>1, SelectedLists
  <1> HIDE DEF r
  <1>3. r \in Seq(Steps)
    BY <1>1, SelectedTyped DEF r
  <1>4. EncryptedSteps(plan) = r
    BY DEF EncryptedSteps, r
  <1>5. /\ \A n \in 1..Len(r) : /\ h[n] \in 1..Len(plan) /\ r[n] = plan[h[n]]
                                  /\ plan[h[n]].kind = "encrypted"
        /\ \A j, n \in 1..Len(r) : j < n => h[j] < h[n]
        /\ \A k \in 1..Len(plan) : plan[k].kind = "encrypted" => \E n \in 1..Len(r) : h[n] = k
    <2>1. \A n \in 1..Len(r) : h[n] \in DOMAIN plan \cap K
      BY <1>2 DEF Enumerates
    <2> QED
      BY <1>1, <1>2, <2>1 DEF Enumerates
  <1>6. \A i : Covered(r, i) <=> Covered(plan, i)
    <2> SUFFICES ASSUME NEW i PROVE Covered(r, i) <=> Covered(plan, i)
      OBVIOUS
    <2>1. ASSUME Covered(r, i) PROVE Covered(plan, i)
      BY <1>5, <2>1 DEF Covered
    <2>2. ASSUME Covered(plan, i) PROVE Covered(r, i)
      <3>1. PICK k \in 1..Len(plan) : /\ plan[k].kind = "encrypted"
                                      /\ plan[k].offset <= i /\ i < plan[k].offset + plan[k].len
        BY <2>2 DEF Covered
      <3>2. PICK n \in 1..Len(r) : h[n] = k
        BY <1>5, <3>1
      <3>3. r[n] = plan[k]
        BY <1>5, <3>2
      <3> QED
        BY <3>1, <3>3 DEF Covered
    <2> QED
      BY <2>1, <2>2
  <1>7. \A n \in 1..Len(r) : lo <= r[n].offset /\ r[n].offset + r[n].len <= hi
    BY <1>5 DEF Tiles
  <1>8. \A j, n \in 1..Len(r) : j < n => r[j].offset + r[j].len <= r[n].offset
    <2> SUFFICES ASSUME NEW j \in 1..Len(r), NEW n \in 1..Len(r), j < n
                 PROVE  r[j].offset + r[j].len <= r[n].offset
      OBVIOUS
    <2>1. h[j] < h[n] /\ h[j] \in 1..Len(plan) /\ h[n] \in 1..Len(plan)
      BY <1>5
    <2>2. plan[h[j]].offset + plan[h[j]].len <= plan[h[n]].offset
      BY <2>1 DEF Tiles
    <2> QED
      BY <1>5, <2>2
  <1>9. Tiles(r, lo, hi, X)
    BY <1>3, <1>6, <1>7, <1>8 DEF Tiles
  <1> QED
    BY <1>4, <1>5, <1>9

(***************************************************************************)
(* Counter mode.  Both directions XOR octet i with the same octet of the   *)
(* keystream, or leave it alone.                                           *)
(***************************************************************************)
StepsAt(steps, i) ==
    {n \in DOMAIN steps : steps[n].offset < i /\ i <= steps[n].offset + steps[n].len}
CtrMask(key, iv, plan, i) ==
    LET steps == EncryptedSteps(plan)
        n == CHOOSE n \in StepsAt(steps, i) : TRUE
    IN  KeystreamOctet(key, iv, FedBefore(steps, n) + i - 1 - steps[n].offset)

LEMMA CtrIs ==
    ASSUME NEW len \in Nat, NEW X, NEW plan, Tiles(plan, 0, len, X), NEW key, NEW iv,
           NEW data, DOMAIN data = 1..len
    PROVE  RunCtr(key, iv, plan, data) =
             [i \in 1..len |-> IF i - 1 \in X THEN Masked(data[i], CtrMask(key, iv, plan, i))
                               ELSE data[i]]
  <1> DEFINE steps == EncryptedSteps(plan)
  <1>1. /\ Tiles(steps, 0, len, X)
        /\ \A n \in 1..Len(steps) : steps[n].kind = "encrypted"
    BY EncryptedTiles
  <1>2. RunCtr(key, iv, plan, data) =
          [i \in 1..len |-> IF StepsAt(steps, i) = {} THEN data[i]
                            ELSE Masked(data[i], CtrMask(key, iv, plan, i))]
    BY DEF RunCtr, StepsAt, CtrMask
  <1> HIDE DEF steps
  <1>3. ASSUME NEW i \in 1..len
        PROVE  StepsAt(steps, i) = {} <=> i - 1 \notin X
    <2> DEFINE j == i - 1
    <2>1. j \in 0..(len - 1) /\ i = j + 1
      OBVIOUS
    <2> HIDE DEF j
    <2>2. j \in X <=> Covered(steps, j)
      BY <1>1, <2>1 DEF Tiles
    <2>3. steps \in Seq(Steps)
      BY <1>1 DEF Tiles
    <2>4. DOMAIN steps = 1..Len(steps)
          /\ \A n \in 1..Len(steps) : steps[n].offset \in Nat /\ steps[n].len \in Nat
      <3>1. DOMAIN steps = 1..Len(steps) /\ \A n \in 1..Len(steps) : steps[n] \in Steps
        BY <2>3
      <3> QED
        BY <3>1 DEF Steps
    <2>5. Covered(steps, j) <=> StepsAt(steps, i) # {}
      <3>1. \A n \in 1..Len(steps) :
               /\ (steps[n].offset <= j <=> steps[n].offset < i)
               /\ (j < steps[n].offset + steps[n].len <=> i <= steps[n].offset + steps[n].len)
        BY <2>1, <2>4
      <3> QED
        BY <1>1, <2>4, <3>1 DEF Covered, StepsAt
    <2> QED
      BY <2>2, <2>5 DEF j
  <1>4. \A i \in 1..len :
           (IF StepsAt(steps, i) = {} THEN data[i]
            ELSE Masked(data[i], CtrMask(key, iv, plan, i)))
           = (IF i - 1 \in X THEN Masked(data[i], CtrMask(key, iv, plan, i)) ELSE data[i])
    BY <1>3
  <1> QED
    BY <1>2, <1>4

LEMMA MaskedTwice ==
    ASSUME NEW text, NEW mask
    PROVE  /\ Masked(Masked(Octet(text), mask), mask) = Octet(text)
           /\ Masked(Octet(text), mask) # Octet(text)
  <1>1. Masked(Octet(text), mask) = [text |-> text, masks |-> {mask}]
    <2>1. ({} \ {mask}) \cup ({mask} \ {}) = {mask}
      OBVIOUS
    <2> QED
      BY <2>1 DEF Masked, Octet
  <1>2. Masked([text |-> text, masks |-> {mask}], mask) = Octet(text)
    <2>1. ({mask} \ {mask}) \cup ({mask} \ {mask}) = {}
      OBVIOUS
    <2> QED
      BY <2>1 DEF Masked, Octet
  <1>3. [text |-> text, masks |-> {mask}] # Octet(text)
    <2>1. {mask} # {}
      OBVIOUS
    <2> QED
      BY <2>1 DEF Octet
  <1> QED
    BY <1>1, <1>2, <1>3

LEMMA CtrRoundTrip ==
    ASSUME NEW len \in Nat, NEW X, NEW plan, Tiles(plan, 0, len, X), NEW key, NEW iv
    PROVE  LET E == RunCtr(key, iv, plan, Plaintext(len))
           IN  /\ DOMAIN E = 1..len /\ Len(E) = len
               /\ RunCtr(key, iv, plan, E) = Plaintext(len)
               /\ \A i \in 1..len : E[i] # Octet(<<i>>) <=> i - 1 \in X
  <1> DEFINE P == Plaintext(len)
             E == RunCtr(key, iv, plan, P)
             mask(i) == CtrMask(key, iv, plan, i)
             t(i) == <<i>>
  <1>1. P = [i \in 1..len |-> Octet(t(i))]
    BY DEF Plaintext
  <1> HIDE DEF P, mask, t
  <1>2. E = [i \in 1..len |-> IF i - 1 \in X THEN Masked(P[i], mask(i)) ELSE P[i]]
    BY <1>1, CtrIs DEF mask
  <1> HIDE DEF E
  <1>3. RunCtr(key, iv, plan, E) =
          [i \in 1..len |-> IF i - 1 \in X THEN Masked(E[i], mask(i)) ELSE E[i]]
    BY <1>2, CtrIs DEF mask
  <1>4. ASSUME NEW i \in 1..len
        PROVE  /\ (IF i - 1 \in X THEN Masked(E[i], mask(i)) ELSE E[i]) = P[i]
               /\ E[i] # Octet(t(i)) <=> i - 1 \in X
    <2>1. P[i] = Octet(t(i))
      BY <1>1
    <2>2. E[i] = IF i - 1 \in X THEN Masked(P[i], mask(i)) ELSE P[i]
      BY <1>2
    <2>3. /\ Masked(Masked(Octet(t(i)), mask(i)), mask(i)) = Octet(t(i))
          /\ Masked(Octet(t(i)), mask(i)) # Octet(t(i))
      BY MaskedTwice
    <2> QED
      BY <2>1, <2>2, <2>3
  <1>5. RunCtr(key, iv, plan, E) = P
    BY <1>1, <1>3, <1>4
  <1>6. DOMAIN E = 1..len /\ Len(E) = len
    BY <1>2
  <1> QED
    BY <1>4, <1>5, <1>6 DEF P, E, t

(***************************************************************************)
(* Block chaining.  The encrypted steps cut into blocks cover the same     *)
(* octets.                                                                 *)
(***************************************************************************)
LEMMA TilesGap ==
    ASSUME NEW a \in Nat, NEW b \in Nat, a <= b, NEW X,
           \A i \in a..(b - 1) : i \notin X
    PROVE  Tiles(<<>>, a, b, X)
  <1> DEFINE e == <<>>
  <1>1. e \in Seq(Steps) /\ Len(e) = 0
    OBVIOUS
  <1> HIDE DEF e
  <1>2. \A i : ~Covered(e, i)
    BY <1>1 DEF Covered
  <1>3. Tiles(e, a, b, X)
    BY <1>1, <1>2 DEF Tiles
  <1> QED
    BY <1>3 DEF e

LEMMA BlocksTile ==
    ASSUME NEW s \in Steps, s.kind = "encrypted", s.len % BlockBytes = 0, NEW X,
           \A i \in s.offset..(s.offset + s.len - 1) : i \in X
    PROVE  /\ Tiles(StepBlocks(s), s.offset, s.offset + s.len, X)
           /\ \A n \in 1..Len(StepBlocks(s)) :
                 StepBlocks(s)[n].kind = "encrypted" /\ StepBlocks(s)[n].len = BlockBytes
  <1> DEFINE B == BlockBytes
             N == s.len \div B
             o == s.offset
             r == StepBlocks(s)
             W == B * N
  <1>1. /\ B \in Nat \ {0} /\ N \in Nat /\ s.len \in Nat /\ o \in Nat
        /\ s.len = W /\ s.restart \in BOOLEAN
    <2>1. s.len \in Nat /\ o \in Nat /\ s.restart \in BOOLEAN /\ B \in Nat \ {0}
      BY BlockBytesAssumption DEF Steps
    <2> DEFINE l == s.len
               y == l % B
               W0 == B * N
    <2>2. l \in Nat /\ N \in Nat /\ y = 0 /\ l = W0 + y
      BY <2>1, Divides
    <2> HIDE DEF l, y, W0
    <2>3. W0 = l
      <3>1. N <= N
        BY <2>2
      <3>2. W0 \in Nat
        BY <2>1, <2>2, <3>1, Multiplies DEF W0
      <3> QED
        BY <2>2, <3>2
    <2> QED
      BY <2>1, <2>2, <2>3 DEF W0, l
  <1> DEFINE at(n) == o + (n - 1) * B
  <1>2. ASSUME NEW n \in 1..N
        PROVE  /\ at(n) \in Nat /\ o <= at(n) /\ at(n) + B <= o + W
               /\ \A m \in 1..N : n < m => at(n) + B <= at(m)
    <2> DEFINE v == B * (n - 1)
    <2>1. (n - 1) * B = v /\ v \in Nat
      <3>1. n - 1 \in Nat /\ n - 1 <= n - 1
        OBVIOUS
      <3>2. v \in Nat
        BY <1>1, <3>1, Multiplies
      <3> QED
        BY <1>1, <3>2
    <2>2. v + B <= W /\ W \in Nat
      <3>1. n \in Nat /\ n <= N
        BY <1>1
      <3>2. B * n <= W /\ W \in Nat
        BY <1>1, <3>1, Multiplies
      <3>3. B * n = v + B
        BY <1>1, <3>1
      <3> QED
        BY <3>2, <3>3
    <2>3. ASSUME NEW m \in 1..N, n < m
          PROVE  at(n) + B <= at(m)
      <3> DEFINE u == B * (m - 1)
      <3>1. n \in Nat /\ m - 1 \in Nat /\ n <= m - 1
        BY <2>3
      <3>2. B * n <= u /\ u \in Nat
        BY <1>1, <3>1, Multiplies
      <3>3. B * n = v + B /\ (m - 1) * B = u
        BY <1>1, <3>1
      <3> HIDE DEF u, v
      <3> QED
        BY <1>1, <2>1, <3>2, <3>3
    <2> HIDE DEF v, W
    <2> QED
      BY <1>1, <2>1, <2>2, <2>3
  <1>3. /\ r = [n \in 1..N |-> Step(at(n), B, "encrypted", s.restart /\ n = 1)]
    BY DEF StepBlocks
  <1>4. /\ r \in Seq(Steps) /\ Len(r) = N
        /\ \A n \in 1..N : /\ r[n].offset = at(n) /\ r[n].len = B
                           /\ r[n].kind = "encrypted"
    <2>1. \A n \in 1..N : Step(at(n), B, "encrypted", s.restart /\ n = 1) \in Steps
      BY <1>1, <1>2 DEF Step, Steps
    <2> HIDE DEF at, r, N
    <2>2. r \in [1..N -> Steps]
      BY <1>3, <2>1
    <2>3. \A n \in 1..N : r[n] = Step(at(n), B, "encrypted", s.restart /\ n = 1)
      BY <1>3
    <2>4. r \in Seq(Steps) /\ Len(r) = N
      BY <1>1, <2>2
    <2> QED
      BY <2>3, <2>4 DEF Step
  <1>5. ASSUME NEW i \in o..(o + s.len - 1)
        PROVE  Covered(r, i)
    <2> DEFINE q == i - o
               y == q \div B
               z == q % B
               n == y + 1
    <2>1. q \in Nat /\ q < W /\ i = o + q
      BY <1>1
    <2>2. y \in Nat /\ z \in 0..(B - 1) /\ q = B * y + z
      BY <1>1, <2>1, Divides
    <2> HIDE DEF q, y, z, N
    <2>3. y < N
      <3> SUFFICES ASSUME ~(y < N) PROVE FALSE
        OBVIOUS
      <3>1. N <= y
        BY <1>1, <2>2
      <3> DEFINE u == B * y
      <3>2. W <= u /\ u \in Nat /\ W \in Nat
        BY <1>1, <2>2, <3>1, Multiplies
      <3> HIDE DEF u, W
      <3> QED
        BY <2>1, <2>2, <3>2 DEF u
    <2>4. n \in 1..N /\ n - 1 = y
      BY <1>1, <2>2, <2>3
    <2> DEFINE u == B * y
    <2>5. u \in Nat /\ (n - 1) * B = u /\ q = u + z
      <3>1. y <= y
        BY <2>2
      <3>2. u \in Nat
        BY <1>1, <2>2, <3>1, Multiplies
      <3>3. y * B = B * y
        BY <1>1, <2>2
      <3> QED
        BY <2>2, <2>4, <3>2, <3>3
    <2> HIDE DEF n, u
    <2>6. at(n) <= i /\ i < at(n) + B
      BY <1>1, <2>1, <2>2, <2>5
    <2> HIDE DEF at, r
    <2> QED
      BY <1>4, <2>4, <2>6 DEF Covered
  <1> HIDE DEF at, r, N, W
  <1>6. Tiles(r, o, o + s.len, X)
    <2>1. \A i \in o..(o + s.len - 1) : i \in X
      OBVIOUS
    <2> HIDE DEF o
    <2>2. \A n \in 1..Len(r) : o <= r[n].offset /\ r[n].offset + r[n].len <= o + s.len
      BY <1>1, <1>2, <1>4
    <2>3. \A m, n \in 1..Len(r) : m < n => r[m].offset + r[m].len <= r[n].offset
      BY <1>2, <1>4
    <2>4. o + s.len - 1 = (o + s.len) - 1
      BY <1>1 DEF o
    <2> DEFINE h == o + s.len
    <2> HIDE DEF h
    <2>5. r \in Seq(Steps)
      BY <1>4
    <2>6. /\ \A n \in 1..Len(r) : o <= r[n].offset /\ r[n].offset + r[n].len <= h
          /\ \A i \in o..(h - 1) : i \in X <=> Covered(r, i)
      <3>1. \A n \in 1..Len(r) : o <= r[n].offset /\ r[n].offset + r[n].len <= h
        BY <2>2 DEF h
      <3>2. \A i \in o..(h - 1) : i \in X <=> Covered(r, i)
        BY <1>5, <2>1, <2>4, Zenon DEF h
      <3> QED
        BY <3>1, <3>2
    <2>7. Tiles(r, o, h, X)
      BY <2>3, <2>5, <2>6 DEF Tiles
    <2> QED
      BY <2>7 DEF h
  <1> QED
    BY <1>4, <1>6 DEF r

LEMMA ChainTiles ==
    ASSUME NEW lo \in Nat, NEW hi \in Nat, lo <= hi, NEW X, NEW steps, Tiles(steps, lo, hi, X),
           \A n \in 1..Len(steps) :
              steps[n].kind = "encrypted" /\ steps[n].len % BlockBytes = 0
    PROVE  /\ Tiles(ChainBlocks(steps), lo, hi, X)
           /\ \A n \in 1..Len(ChainBlocks(steps)) :
                 /\ ChainBlocks(steps)[n].len = BlockBytes
                 /\ ChainBlocks(steps)[n].kind = "encrypted"
  <1> DEFINE N == Len(steps)
             ss == [k \in DOMAIN steps |-> StepBlocks(steps[k])]
             end(k) == steps[k].offset + steps[k].len
             g == [k \in 1..(N + 1) |-> IF k = 1 THEN lo ELSE end(k - 1)]
             Whole1 == {s \in Steps : s.len = BlockBytes /\ s.kind = "encrypted"}
  <1>1. /\ steps \in Seq(Steps) /\ N \in Nat /\ DOMAIN steps = 1..N
        /\ \A n \in 1..N : /\ steps[n] \in Steps
                           /\ steps[n].offset \in Nat /\ steps[n].len \in Nat
                           /\ lo <= steps[n].offset /\ end(n) <= hi
                           /\ end(n) \in Nat /\ steps[n].offset <= end(n)
    <2>1. steps \in Seq(Steps)
      BY DEF Tiles
    <2>2. N \in Nat /\ DOMAIN steps = 1..N /\ \A n \in 1..N : steps[n] \in Steps
      BY <2>1
    <2>3. \A n \in 1..N : steps[n].offset \in Nat /\ steps[n].len \in Nat
      BY <2>2 DEF Steps
    <2>4. \A n \in 1..N : lo <= steps[n].offset /\ end(n) <= hi
      BY DEF Tiles
    <2> QED
      BY <2>1, <2>2, <2>3, <2>4
  <1>2. \A m, n \in 1..N : m < n => end(m) <= steps[n].offset
    BY DEF Tiles
  <1>3. \A i \in lo..(hi - 1) : i \in X <=> Covered(steps, i)
    BY DEF Tiles
  <1> HIDE DEF end, N
  <1>4. /\ g \in [1..(N + 1) -> Nat] /\ g[1] = lo
        /\ \A k \in 1..N : g[k + 1] = end(k) /\ g[k] = IF k = 1 THEN lo ELSE end(k - 1)
    <2>1. \A k \in 1..(N + 1) : (IF k = 1 THEN lo ELSE end(k - 1)) \in Nat
      BY <1>1
    <2>2. \A k \in 1..N : k + 1 \in 1..(N + 1) /\ k \in 1..(N + 1) /\ k + 1 # 1 /\ k + 1 - 1 = k
      BY <1>1
    <2>3. 1 \in 1..(N + 1)
      BY <1>1
    <2> QED
      BY <2>1, <2>2, <2>3
  <1> HIDE DEF g
  <1>5. \A k \in 1..N : steps[k].offset = end(k) - steps[k].len /\ end(k) = steps[k].offset + steps[k].len
    BY <1>1 DEF end
  <1>6. ASSUME NEW k \in 1..N
        PROVE  /\ g[k] <= g[k + 1] /\ Tiles(ss[k], g[k], g[k + 1], X)
               /\ ss[k] \in Seq(Whole1)
    <2> DEFINE s == steps[k]
               o == s.offset
    <2>1. /\ g[k] \in Nat /\ o \in Nat /\ g[k] <= o /\ end(k) \in Nat /\ o <= end(k)
          /\ end(k) <= hi /\ lo <= g[k]
      <3>1. CASE k = 1
        BY <1>1, <1>4, <3>1
      <3>2. CASE k # 1
        <4>1. k - 1 \in 1..N /\ k - 1 < k
          BY <1>1, <3>2
        <4>2. g[k] = end(k - 1) /\ end(k - 1) <= o /\ end(k - 1) \in Nat /\ lo <= end(k - 1)
          <5>1. lo <= steps[k - 1].offset /\ steps[k - 1].offset <= end(k - 1)
                /\ steps[k - 1].offset \in Nat
            BY <1>1, <4>1
          <5>2. end(k - 1) \in Nat
            BY <1>1, <4>1
          <5> QED
            BY <1>2, <1>4, <3>2, <4>1, <5>1, <5>2
        <4> QED
          BY <1>1, <4>2
      <3> QED
        BY <3>1, <3>2
    <2>2. \A i \in g[k]..(o - 1) : i \notin X
      <3> SUFFICES ASSUME NEW i \in g[k]..(o - 1), i \in X PROVE FALSE
        OBVIOUS
      <3>1. i \in lo..(hi - 1) /\ i \in Nat /\ i < o /\ g[k] <= i
        BY <2>1
      <3>2. PICK n \in 1..N : steps[n].offset <= i /\ i < steps[n].offset + steps[n].len
        BY <1>3, <3>1 DEF Covered, N
      <3>3. i < end(n) /\ end(n) \in Nat /\ steps[n].offset \in Nat
        BY <1>1, <3>2 DEF end
      <3>4. n < k
        <4> SUFFICES ASSUME ~(n < k) PROVE FALSE
          OBVIOUS
        <4>1. n = k \/ k < n
          BY <1>1
        <4>2. o <= steps[n].offset
          <5>1. CASE n = k
            BY <2>1, <5>1
          <5>2. CASE k < n
            <6>1. end(k) <= steps[n].offset
              BY <1>2, <5>2
            <6> QED
              BY <2>1, <3>3, <6>1
          <5> QED
            BY <4>1, <5>1, <5>2
        <4> QED
          BY <2>1, <3>1, <3>2, <3>3, <4>2
      <3>5. k # 1 /\ k - 1 \in 1..N /\ (n < k - 1 \/ n = k - 1)
        BY <1>1, <3>4
      <3>6. g[k] = end(k - 1) /\ end(k - 1) \in Nat
        BY <1>1, <1>4, <3>5
      <3>7. end(n) <= end(k - 1)
        <4>1. CASE n = k - 1
          BY <3>3, <4>1
        <4>2. CASE n < k - 1
          <5>1. end(n) <= steps[k - 1].offset
            BY <1>2, <3>5, <4>2
          <5>2. steps[k - 1].offset <= end(k - 1) /\ steps[k - 1].offset \in Nat
            BY <1>1, <3>5
          <5> QED
            BY <3>3, <3>6, <5>1, <5>2
        <4> QED
          BY <3>5, <4>1, <4>2
      <3> QED
        BY <3>1, <3>3, <3>6, <3>7
    <2>3. \A i \in o..(o + s.len - 1) : i \in X
      <3> SUFFICES ASSUME NEW i \in o..(o + s.len - 1) PROVE i \in X
        OBVIOUS
      <3>1. s.len \in Nat /\ end(k) = o + s.len
        BY <1>1, <1>5
      <3> HIDE DEF o
      <3> DEFINE h == o + s.len
      <3>4. i \in o..(h - 1) /\ h \in Nat /\ h <= hi /\ lo <= o /\ o \in Nat
        <4>1. lo <= o
          BY <2>1, <1>4
        <4> QED
          BY <2>1, <3>1, <4>1
      <3> HIDE DEF h
      <3>5. i \in lo..(hi - 1) /\ o <= i /\ i < h
        BY <3>4
      <3>2. i \in lo..(hi - 1) /\ o <= i /\ i < o + s.len
        BY <3>5 DEF h
      <3>3. Covered(steps, i)
        BY <3>2 DEF Covered, N, o
      <3> QED
        BY <1>3, <3>2, <3>3
    <2>4. s \in Steps /\ s.kind = "encrypted" /\ s.len % BlockBytes = 0
      BY <1>1 DEF N
    <2>5. /\ Tiles(StepBlocks(s), o, o + s.len, X)
          /\ \A n \in 1..Len(StepBlocks(s)) :
                StepBlocks(s)[n].len = BlockBytes /\ StepBlocks(s)[n].kind = "encrypted"
      <3> HIDE DEF s
      <3> QED
        BY <2>3, <2>4, BlocksTile
    <2>6. end(k) = o + s.len
      BY <1>5
    <2>7. ss[k] = StepBlocks(s)
      BY <1>1
    <2>8. Tiles(<<>> \o StepBlocks(s), g[k], end(k), X)
      <3> HIDE DEF o, s
      <3>1. Tiles(<<>>, g[k], o, X)
        BY <2>1, <2>2, TilesGap
      <3> DEFINE e == <<>>
      <3> HIDE DEF e
      <3>2. Tiles(e, g[k], o, X)
        BY <3>1 DEF e
      <3>3. Tiles(StepBlocks(s), o, end(k), X)
        BY <2>5, <2>6
      <3>4. Tiles(e \o StepBlocks(s), g[k], end(k), X)
        BY <2>1, <3>2, <3>3, TilesConcat
      <3> QED
        BY <3>4 DEF e
    <2>9. StepBlocks(s) \in Seq(Steps)
      BY <2>5 DEF Tiles
    <2>10. <<>> \o StepBlocks(s) = StepBlocks(s)
      BY <2>9
    <2>11. StepBlocks(s) \in Seq(Whole1)
      <3> DEFINE r == StepBlocks(s)
      <3>1. \A n \in 1..Len(r) : r[n] \in Whole1
        BY <2>5, <2>9
      <3> HIDE DEF r, Whole1
      <3> QED
        BY <2>9, <3>1 DEF r
    <2>12. g[k + 1] = end(k) /\ g[k] <= end(k)
      BY <1>4, <2>1
    <2> HIDE DEF ss, Whole1, s, o
    <2> QED
      BY <2>7, <2>8, <2>10, <2>11, <2>12
  <1>7. ss \in Seq(Seq(Steps)) /\ ss \in Seq(Seq(Whole1)) /\ Len(ss) = N
    <2> DEFINE V == Seq(Steps)
               U == Seq(Whole1)
    <2>1. \A k \in 1..N : ss[k] \in V /\ ss[k] \in U
      BY <1>6 DEF Tiles
    <2>2. ss = [k \in 1..N |-> ss[k]]
      BY <1>1
    <2> HIDE DEF ss, V, U
    <2>3. ss \in [1..N -> V] /\ ss \in [1..N -> U]
      BY <2>1, <2>2
    <2>4. ss \in Seq(V) /\ ss \in Seq(U) /\ Len(ss) = N
      BY <1>1, <2>3
    <2> QED
      BY <2>4 DEF V, U
  <1>8. ChainBlocks(steps) = FlattenSeq(ss)
    BY DEF ChainBlocks
  <1> HIDE DEF ss, Whole1
  <1> DEFINE top == g[N + 1]
             flat == FlattenSeq(ss)
  <1>9. Tiles(flat, lo, top, X)
    <2>1. Tiles(FlattenSeq(ss), g[1], g[Len(ss) + 1], X)
      <3>1. g \in [1..(Len(ss) + 1) -> Nat]
        BY <1>4, <1>7
      <3>2. \A k \in 1..Len(ss) : g[k] <= g[k + 1] /\ Tiles(ss[k], g[k], g[k + 1], X)
        BY <1>6, <1>7
      <3> QED
        BY <1>7, <3>1, <3>2, TilesFlatten
    <2> QED
      BY <1>4, <1>7, <2>1
  <1>10. /\ top \in Nat /\ lo <= top /\ top <= hi
         /\ \A i \in top..(hi - 1) : i \notin X
    <2>1. CASE N = 0
      <3>1. top = lo
        BY <1>4, <2>1
      <3>2. \A i : ~Covered(steps, i)
        BY <2>1 DEF Covered, N
      <3> QED
        BY <1>3, <3>1, <3>2
    <2>2. CASE N # 0
      <3>1. N \in 1..N
        BY <1>1, <2>2
      <3>2. top = end(N)
        BY <1>4, <3>1
      <3>3. top \in Nat /\ lo <= top /\ top <= hi
        <4>1. lo <= steps[N].offset /\ steps[N].offset <= end(N) /\ steps[N].offset \in Nat
              /\ end(N) \in Nat /\ end(N) <= hi
          BY <1>1, <3>1
        <4> QED
          BY <3>2, <4>1
      <3> HIDE DEF top
      <3>4. ASSUME NEW i \in top..(hi - 1), i \in X PROVE FALSE
        <4>1. i \in lo..(hi - 1)
          BY <3>3
        <4>2. PICK n \in 1..N : steps[n].offset <= i /\ i < steps[n].offset + steps[n].len
          BY <1>3, <3>4, <4>1 DEF Covered, N
        <4>3. i < end(n) /\ end(n) \in Nat
          BY <1>1, <4>2 DEF end
        <4>4. end(n) <= end(N)
          <5>1. CASE n = N
            BY <4>3, <5>1
          <5>2. CASE n # N
            <6>1. n < N
              BY <1>1, <5>2
            <6>2. end(n) <= steps[N].offset
              BY <1>2, <3>1, <6>1
            <6>3. steps[N].offset <= end(N) /\ steps[N].offset \in Nat /\ end(N) \in Nat
              BY <1>1, <3>1
            <6> QED
              BY <4>3, <6>2, <6>3
          <5> QED
            BY <5>1, <5>2
        <4> QED
          BY <3>2, <3>3, <4>3, <4>4
      <3> QED
        BY <3>3, <3>4
    <2> QED
      BY <2>1, <2>2
  <1> HIDE DEF top, flat
  <1>11. Tiles(flat, lo, hi, X)
    <2>1. Tiles(<<>>, top, hi, X)
      BY <1>10, TilesGap
    <2> DEFINE e == <<>>
    <2> HIDE DEF e
    <2>2. Tiles(e, top, hi, X)
      BY <2>1 DEF e
    <2>3. Tiles(flat \o e, lo, hi, X)
      BY <1>9, <1>10, <2>2, TilesConcat
    <2>4. flat \in Seq(Steps)
      BY <1>9 DEF Tiles
    <2>5. flat \o e = flat
      BY <2>4 DEF e
    <2> QED
      BY <2>3, <2>5
  <1>12. flat \in Seq(Whole1)
    BY <1>7, FlattenTyped DEF flat
  <1>13. \A n \in 1..Len(flat) : flat[n] \in Whole1
    BY <1>12
  <1>14. \A n \in 1..Len(flat) : flat[n].len = BlockBytes /\ flat[n].kind = "encrypted"
    BY <1>13 DEF Whole1
  <1> QED
    BY <1>8, <1>11, <1>14 DEF flat

(* Reading and writing a block.                                            *)
IsData(data, len) == data = [i \in 1..len |-> data[i]]
InBlock(at, i) == at < i /\ i <= at + BlockBytes

LEMMA BlockIs ==
    ASSUME NEW len \in Nat, NEW data, IsData(data, len), NEW at \in Nat, at + BlockBytes <= len
    PROVE  BlockAt(data, at) = [j \in 1..BlockBytes |-> data[at + j]]
  <1> DEFINE B == BlockBytes
             S == {data[i] : i \in 1..len}
             b == BlockAt(data, at)
             lo == at + 1
             hi == at + B
  <1>1. B \in Nat \ {0}
    BY BlockBytesAssumption
  <1>2. data \in Seq(S) /\ Len(data) = len
    <2>1. data \in [1..len -> S]
      BY DEF IsData
    <2> HIDE DEF S
    <2> QED
      BY <2>1
  <1> HIDE DEF S
  <1>3. lo \in 1..(Len(data) + 1) /\ hi \in (lo - 1)..Len(data) /\ hi - lo + 1 = B
    BY <1>1, <1>2
  <1>4. \A j \in 1..B : lo + j - 1 = at + j
    OBVIOUS
  <1>5. b = SubSeq(data, lo, hi)
    BY DEF BlockAt
  <1> HIDE DEF lo, hi, b
  <1>6. b \in Seq(S) /\ Len(b) = B /\ \A j \in 1..B : b[j] = data[lo + j - 1]
    BY <1>2, <1>3, <1>5, SubSeqProperties
  <1>7. b = [j \in 1..B |-> b[j]]
    BY <1>6
  <1>8. \A j \in 1..B : b[j] = data[at + j]
    BY <1>4, <1>6
  <1> QED
    BY <1>7, <1>8 DEF b

LEMMA SameBlock ==
    ASSUME NEW len \in Nat, NEW data, IsData(data, len), NEW other, IsData(other, len),
           NEW at \in Nat, at + BlockBytes <= len,
           \A i \in 1..len : InBlock(at, i) => data[i] = other[i]
    PROVE  BlockAt(data, at) = BlockAt(other, at)
  <1>1. BlockBytes \in Nat
    BY BlockBytesAssumption
  <1>2. ASSUME NEW j \in 1..BlockBytes
        PROVE  data[at + j] = other[at + j]
    <2>1. at + j \in 1..len /\ InBlock(at, at + j)
      BY <1>1 DEF InBlock
    <2> QED
      BY <2>1
  <1>3. [j \in 1..BlockBytes |-> data[at + j]] = [j \in 1..BlockBytes |-> other[at + j]]
    BY <1>2
  <1>4. BlockAt(data, at) = [j \in 1..BlockBytes |-> data[at + j]]
    BY BlockIs
  <1>5. BlockAt(other, at) = [j \in 1..BlockBytes |-> other[at + j]]
    BY BlockIs
  <1> QED
    BY <1>3, <1>4, <1>5

LEMMA WithBlockIs ==
    ASSUME NEW len \in Nat, NEW data, IsData(data, len), NEW at \in Nat, at + BlockBytes <= len,
           NEW block, IsData(block, BlockBytes)
    PROVE  LET r == WithBlock(data, at, block)
           IN  /\ IsData(r, len)
               /\ \A i \in 1..len : r[i] = IF InBlock(at, i) THEN block[i - at] ELSE data[i]
               /\ BlockAt(r, at) = block
  <1> DEFINE r == WithBlock(data, at, block)
             B == BlockBytes
  <1>1. B \in Nat \ {0}
    BY BlockBytesAssumption
  <1>2. r = [i \in 1..len |-> IF InBlock(at, i) THEN block[i - at] ELSE data[i]]
    <2>1. DOMAIN data = 1..len
      BY DEF IsData
    <2> QED
      BY <2>1 DEF WithBlock, InBlock
  <1> HIDE DEF r
  <1>3. IsData(r, len)
    BY <1>2 DEF IsData
  <1>4. BlockAt(r, at) = [j \in 1..B |-> r[at + j]]
    BY <1>3, BlockIs
  <1>5. ASSUME NEW j \in 1..B PROVE r[at + j] = block[j]
    <2>1. at + j \in 1..len /\ InBlock(at, at + j) /\ at + j - at = j
      BY <1>1 DEF InBlock
    <2> QED
      BY <1>2, <2>1
  <1>6. BlockAt(r, at) = block
    BY <1>4, <1>5 DEF IsData
  <1> QED
    BY <1>2, <1>3, <1>6 DEF r

(* Decrypting what was encrypted with the same chain.                      *)
LEMMA Decrypted ==
    ASSUME NEW key, NEW chain, NEW block
    PROVE  /\ DecryptBlock(key, chain, EncryptBlock(key, chain, block)) = block
           /\ \A j \in 1..BlockBytes : \A i : EncryptBlock(key, chain, block)[j] # Octet(<<i>>)
           /\ IsData(EncryptBlock(key, chain, block), BlockBytes)
  <1> DEFINE c == EncryptBlock(key, chain, block)
             t(j) == <<key, chain, block, j>>
  <1>1. 1 \in 1..BlockBytes
    BY BlockBytesAssumption
  <1>2. c = [j \in 1..BlockBytes |-> Octet(t(j))]
    BY DEF EncryptBlock
  <1>3. \A j : Octet(t(j)).text = t(j)
    BY DEF Octet
  <1>4. \A j : t(j)[3] = block /\ Len(t(j)) = 4
    OBVIOUS
  <1>5. c[1].text = t(1)
    BY <1>1, <1>2, <1>3
  <1>6. c[1].text[3] = block /\ Len(c[1].text) = 4
    BY <1>4, <1>5
  <1>7. DecryptBlock(key, chain, c) = block
    <2>1. c = EncryptBlock(key, chain, c[1].text[3])
      BY <1>6
    <2> HIDE DEF c
    <2> QED
      BY <1>6, <2>1 DEF DecryptBlock
  <1>8. ASSUME NEW j \in 1..BlockBytes, NEW i
        PROVE  c[j] # Octet(<<i>>)
    <2> DEFINE u == <<i>>
    <2>1. Len(u) = 1
      OBVIOUS
    <2>2. t(j) # u
      BY <1>4, <2>1
    <2> HIDE DEF u, t
    <2>3. Octet(u).text = u
      BY DEF Octet
    <2>4. c[j] = Octet(t(j))
      BY <1>2
    <2> HIDE DEF c
    <2> QED
      BY <1>3, <2>2, <2>3, <2>4 DEF u
  <1>9. IsData(c, BlockBytes)
    BY <1>2 DEF IsData
  <1> QED
    BY <1>7, <1>8, <1>9

(***************************************************************************)
(* The loop over the blocks, as a function of how many are done.           *)
(***************************************************************************)
CbcChain(done, blocks, iv, data, direction, n) ==
    IF n = 1 \/ blocks[n].restart THEN IvChain(iv)
    ELSE BlockAt(IF direction = "encrypt" THEN done ELSE data, blocks[n - 1].offset)
CbcStep(done, blocks, key, iv, data, direction, n) ==
    LET chain == CbcChain(done, blocks, iv, data, direction, n)
        input == BlockAt(done, blocks[n].offset)
    IN  WithBlock(done, blocks[n].offset,
            IF direction = "encrypt" THEN EncryptBlock(key, chain, input)
            ELSE DecryptBlock(key, chain, input))
CbcLoop(f, blocks, key, iv, data, direction, N) ==
    f = [n \in 0..N |-> IF n = 0 THEN data
                        ELSE CbcStep(f[n - 1], blocks, key, iv, data, direction, n)]

LEMMA CbcRuns ==
    ASSUME NEW key, NEW iv, NEW plan, NEW data, NEW direction, NEW N \in Nat,
           Len(ChainBlocks(EncryptedSteps(plan))) = N
    PROVE  \E f : /\ CbcLoop(f, ChainBlocks(EncryptedSteps(plan)), key, iv, data, direction, N)
                  /\ RunCbc(key, iv, plan, data, direction) = f[N]
  <1> DEFINE blocks == ChainBlocks(EncryptedSteps(plan))
             Does(done, n) == CbcStep(done, blocks, key, iv, data, direction, n)
             Is(f, m) == f = [n \in 0..m |-> IF n = 0 THEN data ELSE Does(f[n - 1], n)]
             T == {m \in Nat : \E f : Is(f, m)}
             run == CHOOSE f : Is(f, N)
  <1>1. RunCbc(key, iv, plan, data, direction) = run[N]
    BY DEF RunCbc, CbcStep, CbcChain
  <1> HIDE DEF Does
  <1>2. 0 \in T
    <2> DEFINE f == [n \in 0..0 |-> data]
    <2>1. \A n \in 0..0 : n = 0
      OBVIOUS
    <2>2. Is(f, 0)
      BY <2>1
    <2> QED
      BY <2>2
  <1>3. ASSUME NEW m \in Nat, m \in T PROVE m + 1 \in T
    <2>1. PICK f : Is(f, m)
      BY <1>3
    <2> DEFINE g == [n \in 0..(m + 1) |-> IF n = m + 1 THEN Does(f[m], m + 1) ELSE f[n]]
    <2>2. ASSUME NEW n \in 0..(m + 1)
          PROVE  g[n] = IF n = 0 THEN data ELSE Does(g[n - 1], n)
      <3>1. CASE n = 0
        BY <2>1, <3>1
      <3>2. CASE n = m + 1
        <4>1. n - 1 = m /\ m \in 0..(m + 1) /\ m # m + 1 /\ n # 0
          BY <3>2
        <4>2. g[n - 1] = f[m]
          BY <4>1
        <4> QED
          BY <3>2, <4>1, <4>2
      <3>3. CASE n # 0 /\ n # m + 1
        <4>1. n \in 0..m /\ n - 1 \in 0..(m + 1) /\ n - 1 # m + 1
          BY <3>3
        <4>2. g[n - 1] = f[n - 1] /\ g[n] = f[n]
          BY <3>3, <4>1
        <4>3. f[n] = Does(f[n - 1], n)
          BY <2>1, <3>3, <4>1
        <4> QED
          BY <3>3, <4>2, <4>3
      <3> QED
        BY <3>1, <3>2, <3>3
    <2>3. g = [n \in 0..(m + 1) |-> g[n]]
      OBVIOUS
    <2> HIDE DEF g
    <2>4. Is(g, m + 1)
      BY <2>2, <2>3
    <2> QED
      BY <2>4
  <1> HIDE DEF T
  <1>4. N \in T
    BY <1>2, <1>3, NumberInduction
  <1>5. Is(run, N)
    <2>1. \E f : Is(f, N)
      BY <1>4 DEF T
    <2> QED
      BY <2>1, Zenon
  <1>6. CbcLoop(run, blocks, key, iv, data, direction, N)
    BY <1>5 DEF CbcLoop, Does
  <1> QED
    BY <1>1, <1>6

(* Blocks in their order, within the data.                                 *)
AreBlocks(blocks, N, len) ==
    \A n \in 1..N : /\ blocks[n].offset \in Nat /\ blocks[n].offset + BlockBytes <= len
                    /\ \A m \in 1..N : m < n =>
                          blocks[m].offset + BlockBytes <= blocks[n].offset

(* Octets outside block n and blocks before it.                            *)
LEMMA BlocksApart ==
    ASSUME NEW len \in Nat, NEW N \in Nat, NEW blocks, AreBlocks(blocks, N, len),
           NEW m \in 1..N, NEW n \in 1..N, m # n, NEW i \in 1..len,
           InBlock(blocks[m].offset, i)
    PROVE  ~InBlock(blocks[n].offset, i)
  <1> DEFINE a == blocks[m].offset
             b == blocks[n].offset
             B == BlockBytes
  <1>1. a \in Nat /\ b \in Nat /\ B \in Nat /\ a < i /\ i <= a + B
    BY BlockBytesAssumption DEF AreBlocks, InBlock
  <1>2. a + B <= b \/ b + B <= a
    <2>1. m < n \/ n < m
      OBVIOUS
    <2> QED
      BY <2>1 DEF AreBlocks
  <1> HIDE DEF a, b, B
  <1>3. ~(b < i /\ i <= b + B)
    BY <1>1, <1>2
  <1> QED
    BY <1>3 DEF InBlock, a, b, B

(* What encrypting the first n blocks made of the data P.                  *)
Chained(e, P, blocks, key, iv, len, n) ==
    /\ IsData(e, len)
    /\ \A m \in 1..n :
          BlockAt(e, blocks[m].offset) =
             EncryptBlock(key, CbcChain(e, blocks, iv, e, "encrypt", m),
                          BlockAt(P, blocks[m].offset))
    /\ \A i \in 1..len : (\A m \in 1..n : ~InBlock(blocks[m].offset, i)) => e[i] = P[i]

LEMMA CbcEncrypts ==
    ASSUME NEW len \in Nat, NEW N \in Nat, NEW blocks, AreBlocks(blocks, N, len),
           NEW P, IsData(P, len), NEW key, NEW iv, NEW f,
           CbcLoop(f, blocks, key, iv, P, "encrypt", N)
    PROVE  Chained(f[N], P, blocks, key, iv, len, N)
  <1> DEFINE T == {n \in Nat : n <= N => Chained(f[n], P, blocks, key, iv, len, n)}
             at(n) == blocks[n].offset
  <1>1. \A n \in 1..N : at(n) \in Nat /\ at(n) + BlockBytes <= len
    BY DEF AreBlocks
  <1>2. 0 \in T
    <2>1. f[0] = P
      BY DEF CbcLoop
    <2> QED
      BY <2>1 DEF Chained
  <1>3. ASSUME NEW p \in Nat, p \in T PROVE p + 1 \in T
    <2> SUFFICES ASSUME p + 1 <= N
                 PROVE  Chained(f[p + 1], P, blocks, key, iv, len, p + 1)
      OBVIOUS
    <2> DEFINE n == p + 1
               d == f[p]
               e == f[n]
               chain == CbcChain(d, blocks, iv, P, "encrypt", n)
               input == BlockAt(d, at(n))
               c == EncryptBlock(key, chain, input)
    <2>1. n \in 1..N /\ p \in 0..N /\ n \in 0..N /\ n # 0 /\ n - 1 = p /\ n \in Nat
      OBVIOUS
    <2>2. Chained(d, P, blocks, key, iv, len, p)
      BY <1>3, <2>1
    <2>3. e = WithBlock(d, at(n), c)
      <3>1. e = CbcStep(f[n - 1], blocks, key, iv, P, "encrypt", n)
        <4> HIDE DEF n
        <4> QED
          BY <2>1 DEF CbcLoop
      <3> HIDE DEF n
      <3> QED
        BY <2>1, <3>1 DEF CbcStep
    <2>4. \A m \in 1..n : m \in 1..N /\ (m = n \/ m \in 1..p)
      BY <2>1
    <2>5. \A m \in 1..p : m \in 1..N /\ m # n
      BY <2>1
    <2>6. IsData(d, len)
      BY <2>2 DEF Chained
    <2> HIDE DEF n, d, e, at, c
    <2>7. /\ IsData(e, len)
          /\ \A i \in 1..len : e[i] = IF InBlock(at(n), i) THEN c[i - at(n)] ELSE d[i]
          /\ BlockAt(e, at(n)) = c
      <3>1. IsData(c, BlockBytes)
        BY Decrypted DEF c
      <3>2. at(n) \in Nat /\ at(n) + BlockBytes <= len
        BY <1>1, <2>1
      <3> DEFINE a == at(n)
      <3> HIDE DEF chain, input, a
      <3>3. a \in Nat /\ a + BlockBytes <= len
        BY <3>2 DEF a
      <3>4. /\ IsData(WithBlock(d, a, c), len)
            /\ \A i \in 1..len :
                  WithBlock(d, a, c)[i] = IF InBlock(a, i) THEN c[i - a] ELSE d[i]
            /\ BlockAt(WithBlock(d, a, c), a) = c
        BY <2>6, <3>1, <3>3, WithBlockIs
      <3> QED
        BY <2>3, <3>4 DEF a
    <2>8. ASSUME NEW m \in 1..p
          PROVE  BlockAt(e, at(m)) = BlockAt(d, at(m))
      <3>1. m \in 1..N /\ m # n
        BY <2>5
      <3>2. \A i \in 1..len : InBlock(at(m), i) => ~InBlock(at(n), i)
        BY <2>1, <3>1, BlocksApart DEF at
      <3>3. \A i \in 1..len : InBlock(at(m), i) => e[i] = d[i]
        BY <2>7, <3>2
      <3>4. at(m) \in Nat /\ at(m) + BlockBytes <= len
        BY <1>1, <3>1
      <3> QED
        BY <2>6, <2>7, <3>3, <3>4, SameBlock
    <2>9. input = BlockAt(P, at(n))
      <3>1. \A i \in 1..len : InBlock(at(n), i) => d[i] = P[i]
        <4> SUFFICES ASSUME NEW i \in 1..len, InBlock(at(n), i) PROVE d[i] = P[i]
          OBVIOUS
        <4>1. \A m \in 1..p : ~InBlock(blocks[m].offset, i)
          BY <2>1, <2>5, BlocksApart DEF at
        <4> QED
          BY <2>2, <4>1 DEF Chained
      <3>2. at(n) \in Nat /\ at(n) + BlockBytes <= len
        BY <1>1, <2>1
      <3> QED
        BY <2>6, <3>1, <3>2, SameBlock
    <2>10. ASSUME NEW m \in 1..n
           PROVE  CbcChain(e, blocks, iv, e, "encrypt", m) = CbcChain(d, blocks, iv, d, "encrypt", m)
      <3>1. CASE m = 1 \/ blocks[m].restart
        BY <3>1 DEF CbcChain
      <3>2. CASE ~(m = 1 \/ blocks[m].restart)
        <4>1. m - 1 \in 1..p
          BY <2>4, <3>2 DEF n
        <4>2. BlockAt(e, blocks[m - 1].offset) = BlockAt(d, blocks[m - 1].offset)
          BY <2>8, <4>1 DEF at
        <4> QED
          BY <4>2 DEF CbcChain
      <3> QED
        BY <3>1, <3>2
    <2>11. chain = CbcChain(d, blocks, iv, d, "encrypt", n)
      BY DEF CbcChain
    <2> HIDE DEF chain, input
    <2>12. ASSUME NEW m \in 1..n
           PROVE  BlockAt(e, blocks[m].offset) =
                    EncryptBlock(key, CbcChain(e, blocks, iv, e, "encrypt", m),
                                 BlockAt(P, blocks[m].offset))
      <3>1. CASE m = n
        BY <2>7, <2>9, <2>10, <2>11, <3>1 DEF c, at
      <3>2. CASE m # n
        <4>1. m \in 1..p
          BY <2>4, <3>2
        <4>2. BlockAt(d, blocks[m].offset) =
                 EncryptBlock(key, CbcChain(d, blocks, iv, d, "encrypt", m),
                              BlockAt(P, blocks[m].offset))
          BY <2>2, <4>1 DEF Chained
        <4> QED
          BY <2>8, <2>10, <4>1, <4>2 DEF at
      <3> QED
        BY <3>1, <3>2
    <2>13. ASSUME NEW i \in 1..len, \A m \in 1..n : ~InBlock(blocks[m].offset, i)
           PROVE  e[i] = P[i]
      <3>1. n \in 1..n /\ 1..p \subseteq 1..n
        BY <2>1
      <3>2. ~InBlock(at(n), i) /\ \A m \in 1..p : ~InBlock(blocks[m].offset, i)
        BY <2>13, <3>1 DEF at
      <3>3. d[i] = P[i]
        BY <2>2, <3>2 DEF Chained
      <3> QED
        BY <2>7, <3>2, <3>3
    <2>14. Chained(e, P, blocks, key, iv, len, n)
      BY <2>7, <2>12, <2>13 DEF Chained
    <2> QED
      BY <2>14 DEF e, n
  <1> HIDE DEF T
  <1>4. N \in T
    BY <1>2, <1>3, NumberInduction
  <1> QED
    BY <1>4 DEF T

LEMMA CbcDecrypts ==
    ASSUME NEW len \in Nat, NEW N \in Nat, NEW blocks, AreBlocks(blocks, N, len),
           NEW P, IsData(P, len), NEW key, NEW iv,
           NEW E, Chained(E, P, blocks, key, iv, len, N),
           NEW f, CbcLoop(f, blocks, key, iv, E, "decrypt", N)
    PROVE  f[N] = P
  <1> DEFINE Done(d, n) ==
                /\ IsData(d, len)
                /\ \A i \in 1..len :
                      d[i] = IF \E m \in 1..n : InBlock(blocks[m].offset, i) THEN P[i] ELSE E[i]
             T == {n \in Nat : n <= N => Done(f[n], n)}
             at(n) == blocks[n].offset
  <1>1. \A n \in 1..N : at(n) \in Nat /\ at(n) + BlockBytes <= len
    BY DEF AreBlocks
  <1>2. 0 \in T
    <2>1. f[0] = E
      BY DEF CbcLoop
    <2> QED
      BY <2>1 DEF Chained
  <1>3. ASSUME NEW p \in Nat, p \in T PROVE p + 1 \in T
    <2> SUFFICES ASSUME p + 1 <= N
                 PROVE  Done(f[p + 1], p + 1)
      OBVIOUS
    <2> DEFINE n == p + 1
               d == f[p]
               e == f[n]
               chain == CbcChain(d, blocks, iv, E, "decrypt", n)
               input == BlockAt(d, at(n))
               b == BlockAt(P, at(n))
    <2>1. n \in 1..N /\ p \in 0..N /\ n \in 0..N /\ n # 0 /\ n - 1 = p /\ n \in Nat
      OBVIOUS
    <2>2. Done(d, p)
      BY <1>3, <2>1
    <2>3. e = WithBlock(d, at(n), DecryptBlock(key, chain, input))
      <3>1. e = CbcStep(f[n - 1], blocks, key, iv, E, "decrypt", n)
        <4> HIDE DEF n
        <4> QED
          BY <2>1 DEF CbcLoop
      <3> HIDE DEF n
      <3> QED
        BY <2>1, <3>1 DEF CbcStep
    <2>4. \A m \in 1..n : m \in 1..N /\ (m = n \/ m \in 1..p)
      BY <2>1
    <2>5. \A m \in 1..p : m \in 1..N /\ m # n /\ m \in 1..n
      BY <2>1
    <2>6. at(n) \in Nat /\ at(n) + BlockBytes <= len
      BY <1>1, <2>1
    <2> DEFINE a == at(n)
    <2> HIDE DEF n, d, e, a
    <2>7. input = BlockAt(E, a)
      <3>1. \A i \in 1..len : InBlock(a, i) => d[i] = E[i]
        <4> SUFFICES ASSUME NEW i \in 1..len, InBlock(a, i) PROVE d[i] = E[i]
          OBVIOUS
        <4>1. \A m \in 1..p : ~InBlock(blocks[m].offset, i)
          BY <2>1, <2>5, BlocksApart DEF a
        <4> QED
          BY <2>2, <4>1
      <3>2. a \in Nat /\ a + BlockBytes <= len
        BY <2>6 DEF a
      <3>3. IsData(E, len) /\ IsData(d, len)
        BY <2>2 DEF Chained
      <3>4. BlockAt(d, a) = BlockAt(E, a)
        BY <3>1, <3>2, <3>3, SameBlock
      <3> QED
        BY <3>4 DEF a
    <2>8. chain = CbcChain(E, blocks, iv, E, "encrypt", n)
      BY DEF CbcChain
    <2>9. input = EncryptBlock(key, chain, b)
      <3>1. BlockAt(E, blocks[n].offset) =
               EncryptBlock(key, CbcChain(E, blocks, iv, E, "encrypt", n),
                            BlockAt(P, blocks[n].offset))
        BY <2>1 DEF Chained
      <3> QED
        BY <2>7, <2>8, <3>1 DEF a
    <2> HIDE DEF chain, input, b
    <2>10. DecryptBlock(key, chain, input) = b
      BY <2>9, Decrypted
    <2>11. IsData(b, BlockBytes) /\ \A i \in 1..len : InBlock(a, i) => b[i - a] = P[i]
      <3>1. a \in Nat /\ a + BlockBytes <= len
        BY <2>6 DEF a
      <3>2. b = [j \in 1..BlockBytes |-> P[a + j]]
        <4>1. BlockAt(P, a) = [j \in 1..BlockBytes |-> P[a + j]]
          BY <3>1, BlockIs
        <4> QED
          BY <4>1 DEF a, b
      <3>3. \A i \in 1..len : InBlock(a, i) => i - a \in 1..BlockBytes /\ a + (i - a) = i
        BY <3>1, BlockBytesAssumption DEF InBlock
      <3>4. \A j \in 1..BlockBytes : b[j] = P[a + j]
        BY <3>2
      <3>5. IsData(b, BlockBytes)
        BY <3>2 DEF IsData
      <3> QED
        BY <3>3, <3>4, <3>5
    <2>12. /\ IsData(e, len)
           /\ \A i \in 1..len : e[i] = IF InBlock(a, i) THEN P[i] ELSE d[i]
      <3>1. a \in Nat /\ a + BlockBytes <= len
        BY <2>6 DEF a
      <3>2. IsData(d, len)
        BY <2>2
      <3>3. /\ IsData(WithBlock(d, a, b), len)
            /\ \A i \in 1..len :
                  WithBlock(d, a, b)[i] = IF InBlock(a, i) THEN b[i - a] ELSE d[i]
        BY <2>11, <3>1, <3>2, WithBlockIs
      <3>4. e = WithBlock(d, a, b)
        BY <2>3, <2>10 DEF a
      <3> QED
        BY <2>11, <3>3, <3>4
    <2>13. ASSUME NEW i \in 1..len
           PROVE  e[i] = IF \E m \in 1..n : InBlock(blocks[m].offset, i) THEN P[i] ELSE E[i]
      <3>1. (\E m \in 1..n : InBlock(blocks[m].offset, i))
               <=> InBlock(a, i) \/ \E m \in 1..p : InBlock(blocks[m].offset, i)
        <4>1. n \in 1..n
          BY <2>1
        <4> QED
          BY <2>4, <2>5, <4>1 DEF a
      <3> QED
        BY <2>2, <2>12, <3>1
    <2>14. Done(e, n)
      BY <2>12, <2>13
    <2> QED
      BY <2>14 DEF e, n
  <1>4. N \in T
    <2> HIDE DEF T
    <2> QED
      BY <1>2, <1>3, NumberInduction
  <1>5. Done(f[N], N)
    BY <1>4
  <1> DEFINE d == f[N]
  <1> HIDE DEF d
  <1>6. IsData(d, len) /\ \A i \in 1..len : d[i] = P[i]
    <2>1. \A i \in 1..len : (\A m \in 1..N : ~InBlock(blocks[m].offset, i)) => E[i] = P[i]
      BY DEF Chained
    <2> QED
      BY <1>5, <2>1 DEF d
  <1>7. d = P
    BY <1>6 DEF IsData
  <1> QED
    BY <1>7 DEF d

LEMMA CbcRoundTrip ==
    ASSUME NEW len \in Nat, NEW X, NEW plan, Tiles(plan, 0, len, X), NEW key, NEW iv,
           \A n \in 1..Len(EncryptedSteps(plan)) :
              EncryptedSteps(plan)[n].len % BlockBytes = 0
    PROVE  LET E == RunCbc(key, iv, plan, Plaintext(len), "encrypt")
           IN  /\ DOMAIN E = 1..len /\ Len(E) = len
               /\ RunCbc(key, iv, plan, E, "decrypt") = Plaintext(len)
               /\ \A i \in 1..len : E[i] # Octet(<<i>>) <=> i - 1 \in X
  <1> DEFINE P == Plaintext(len)
             E == RunCbc(key, iv, plan, P, "encrypt")
             steps == EncryptedSteps(plan)
             blocks == ChainBlocks(steps)
             N == Len(blocks)
             B == BlockBytes
  <1>1. Tiles(steps, 0, len, X)
        /\ \A n \in 1..Len(steps) : steps[n].kind = "encrypted" /\ steps[n].len % BlockBytes = 0
    BY EncryptedTiles, ZenonT(60), SMTT(30)
  <1>2. Tiles(blocks, 0, len, X)
        /\ \A n \in 1..N : blocks[n].len = B /\ blocks[n].kind = "encrypted"
    <2> HIDE DEF steps
    <2>1. 0 <= len
      OBVIOUS
    <2> QED
      BY <1>1, <2>1, ChainTiles, ZenonT(60), SMTT(30)
  <1>3. blocks \in Seq(Steps)
    BY <1>2 DEF Tiles
  <1>4. IsData(P, len) /\ \A i \in 1..len : P[i] = Octet(<<i>>)
    BY DEF Plaintext, IsData
  <1>5. \E f : CbcLoop(f, blocks, key, iv, P, "encrypt", N) /\ E = f[N]
    <2>1. N \in Nat
      BY <1>3
    <2> HIDE DEF N
    <2> QED
      BY <2>1, CbcRuns DEF N
  <1>6. \E f : CbcLoop(f, blocks, key, iv, E, "decrypt", N)
               /\ RunCbc(key, iv, plan, E, "decrypt") = f[N]
    <2>1. N \in Nat
      BY <1>3
    <2> HIDE DEF N, E
    <2> QED
      BY <2>1, CbcRuns DEF N
  <1> HIDE DEF steps, blocks, P, E
  <1>7. N \in Nat /\ AreBlocks(blocks, N, len)
    <2>1. N \in Nat /\ \A n \in 1..N : blocks[n] \in Steps
      BY <1>3
    <2>2. \A n \in 1..N : blocks[n].offset \in Nat
      BY <2>1 DEF Steps
    <2> QED
      BY <1>2, <2>1, <2>2 DEF AreBlocks, Tiles
  <1> HIDE DEF N
  <1>8. Chained(E, P, blocks, key, iv, len, N)
    BY <1>4, <1>5, <1>7, CbcEncrypts
  <1>9. RunCbc(key, iv, plan, E, "decrypt") = P
    <2>1. PICK f : CbcLoop(f, blocks, key, iv, E, "decrypt", N)
                   /\ RunCbc(key, iv, plan, E, "decrypt") = f[N]
      BY <1>6
    <2>2. f[N] = P
      BY <1>4, <1>7, <1>8, <2>1, CbcDecrypts
    <2> QED
      BY <2>1, <2>2
  <1>10. DOMAIN E = 1..len /\ Len(E) = len
    <2>1. E = [i \in 1..len |-> E[i]]
      BY <1>8 DEF Chained, IsData
    <2> QED
      BY <2>1
  <1>11. ASSUME NEW i \in 1..len
         PROVE  E[i] # P[i] <=> i - 1 \in X
    <2> DEFINE j == i - 1
    <2>1. j \in 0..(len - 1) /\ i = j + 1 /\ B \in Nat
      BY BlockBytesAssumption
    <2>2. j \in X <=> Covered(blocks, j)
      <3> HIDE DEF j
      <3> QED
        BY <1>2, <2>1 DEF Tiles
    <2>3. \A n \in 1..N : /\ blocks[n].offset \in Nat /\ blocks[n].offset + B <= len
                          /\ blocks[n].kind = "encrypted" /\ blocks[n].len = B
      <3>1. \A n \in 1..N : blocks[n].kind = "encrypted" /\ blocks[n].len = B
        BY <1>2 DEF N
      <3> QED
        BY <1>7, <3>1 DEF AreBlocks
    <2> HIDE DEF j
    <2>4. Covered(blocks, j) <=> \E n \in 1..N : InBlock(blocks[n].offset, i)
      <3>1. \A n \in 1..N : InBlock(blocks[n].offset, i)
               <=> blocks[n].offset <= j /\ j < blocks[n].offset + blocks[n].len
        BY <2>1, <2>3 DEF InBlock
      <3> QED
        BY <2>3, <3>1 DEF Covered, N
    <2>5. ASSUME NEW n \in 1..N, InBlock(blocks[n].offset, i)
          PROVE  E[i] # P[i]
      <3> DEFINE a == blocks[n].offset
                 k == i - a
                 chain == CbcChain(E, blocks, iv, E, "encrypt", n)
                 b == BlockAt(P, a)
      <3>1. a \in Nat /\ a + B <= len
        BY <2>3
      <3>2. k \in 1..B /\ a + k = i
        BY <2>1, <2>5, <3>1 DEF InBlock
      <3>3. BlockAt(E, a) = EncryptBlock(key, chain, b)
        BY <1>8 DEF Chained
      <3>4. BlockAt(E, a) = [x \in 1..B |-> E[a + x]]
        <4>1. IsData(E, len)
          BY <1>8 DEF Chained
        <4> HIDE DEF a
        <4> QED
          BY <3>1, <4>1, BlockIs
      <3> HIDE DEF a, k, chain, b
      <3>5. E[i] = EncryptBlock(key, chain, b)[k]
        BY <3>2, <3>3, <3>4
      <3>6. EncryptBlock(key, chain, b)[k] # Octet(<<i>>)
        BY <3>2, Decrypted
      <3> QED
        BY <1>4, <3>5, <3>6
    <2>6. (\A n \in 1..N : ~InBlock(blocks[n].offset, i)) => E[i] = P[i]
      BY <1>8 DEF Chained
    <2> QED
      BY <2>2, <2>4, <2>5, <2>6 DEF j
  <1> QED
    BY <1>4, <1>9, <1>10, <1>11 DEF P, E

(***************************************************************************)
(* A sample of its packet: what EncryptSample makes of a plaintext,        *)
(* DecryptSample turns back, and only the octets the standard encrypts     *)
(* differ.                                                                 *)
(***************************************************************************)
IsOption(o) == o = {} \/ \E v : o = {v}

LEMMA OptionAlone ==
    ASSUME NEW o, IsOption(o), NEW v \in o
    PROVE  o = {v}
  BY DEF IsOption

LEMMA PlanAlone ==
    ASSUME NEW d, NEW map, IsMap(map), NEW len
    PROVE  IsOption(PlanSampleCipher(d, map, len))
  <1>1. CASE IvSupply(d.tenc) = "none" \/ d.scheme \notin DOMAIN CipherMode
    BY <1>1 DEF PlanSampleCipher, IsOption
  <1>2. CASE ~(IvSupply(d.tenc) = "none" \/ d.scheme \notin DOMAIN CipherMode) /\ map = {}
    BY <1>2 DEF PlanSampleCipher, IsOption
  <1>3. CASE ~(IvSupply(d.tenc) = "none" \/ d.scheme \notin DOMAIN CipherMode) /\ map # {}
    <2>1. PICK m : map = {m}
      BY <1>3 DEF IsMap
    <2>2. PlanSampleCipher(d, map, len) = {MapPlan(d, s) : s \in {s \in {m} : MapCovers(s, len)}}
      BY <1>3, <2>1 DEF PlanSampleCipher
    <2>3. CASE MapCovers(m, len)
      <3>1. {s \in {m} : MapCovers(s, len)} = {m}
        BY <2>3
      <3>2. PlanSampleCipher(d, map, len) = {MapPlan(d, m)}
        BY <2>2, <3>1
      <3> QED
        BY <3>2 DEF IsOption
    <2>4. CASE ~MapCovers(m, len)
      <3>1. {s \in {m} : MapCovers(s, len)} = {}
        BY <2>4
      <3>2. PlanSampleCipher(d, map, len) = {}
        BY <2>2, <3>1
      <3> QED
        BY <3>2 DEF IsOption
    <2> QED
      BY <2>3, <2>4
  <1> QED
    BY <1>1, <1>2, <1>3

LEMMA IvAlone ==
    ASSUME NEW d, IsOption(d.tenc.constantIv), NEW own, IsOption(own)
    PROVE  IsOption(EffectiveIv(d, own))
  <1>1. CASE IvSupply(d.tenc) = "none"
    BY <1>1 DEF EffectiveIv, IsOption
  <1>2. CASE IvSupply(d.tenc) = "sample"
    <2>1. EffectiveIv(d, own) = {iv \in own : iv.len = d.tenc.ivSize}
      BY <1>2 DEF EffectiveIv
    <2>2. CASE own = {}
      BY <2>1, <2>2 DEF IsOption
    <2>3. CASE own # {}
      <3>1. PICK v : own = {v}
        BY <2>3 DEF IsOption
      <3>2. EffectiveIv(d, own) = {} \/ EffectiveIv(d, own) = {v}
        BY <2>1, <3>1
      <3> QED
        BY <3>2 DEF IsOption
    <2> QED
      BY <2>2, <2>3
  <1>3. CASE IvSupply(d.tenc) = "constant"
    BY <1>3 DEF EffectiveIv, IsOption
  <1> QED
    BY <1>1, <1>2, <1>3 DEF IvSupply

LEMMA StepsRoundTrip ==
    ASSUME NEW len \in Nat, NEW X, NEW plan, Tiles(plan, 0, len, X), NEW key, NEW iv,
           NEW mode, NEW octets \in RunSteps(mode, key, iv, plan, Plaintext(len), "encrypt")
    PROVE  /\ DOMAIN octets = 1..len /\ Len(octets) = len
           /\ RunSteps(mode, key, iv, plan, octets, "decrypt") = {Plaintext(len)}
           /\ \A i \in 1..len : octets[i] # Octet(<<i>>) <=> i - 1 \in X
  <1> DEFINE P == Plaintext(len)
             steps == EncryptedSteps(plan)
  <1>1. Len(P) = len
    BY DEF Plaintext
  <1>2. StepsFit(mode, iv, plan, P)
    BY DEF RunSteps
  <1>3. Tiles(steps, 0, len, X)
    BY EncryptedTiles
  <1>4. DOMAIN steps = 1..Len(steps)
    <2> HIDE DEF steps
    <2>1. steps \in Seq(Steps)
      BY <1>3 DEF Tiles
    <2> QED
      BY <2>1
  <1>5. ASSUME Len(octets) = len
        PROVE  StepsFit(mode, iv, plan, octets)
    BY <1>1, <1>2, <1>5 DEF StepsFit
  <1>6. CASE mode = "ctr"
    <2>1. octets = RunCtr(key, iv, plan, P)
      BY <1>2, <1>6 DEF RunSteps
    <2>2. /\ DOMAIN octets = 1..len /\ Len(octets) = len
          /\ RunCtr(key, iv, plan, octets) = P
          /\ \A i \in 1..len : octets[i] # Octet(<<i>>) <=> i - 1 \in X
      BY <2>1, CtrRoundTrip
    <2>3. RunSteps(mode, key, iv, plan, octets, "decrypt") = {RunCtr(key, iv, plan, octets)}
      BY <1>5, <1>6, <2>2 DEF RunSteps
    <2> QED
      BY <2>2, <2>3
  <1>7. CASE mode # "ctr"
    <2>1. octets = RunCbc(key, iv, plan, P, "encrypt")
      BY <1>2, <1>7 DEF RunSteps
    <2>2. \A n \in 1..Len(steps) : steps[n].len % BlockBytes = 0
      BY <1>2, <1>4, <1>7 DEF StepsFit
    <2>3. /\ DOMAIN octets = 1..len /\ Len(octets) = len
          /\ RunCbc(key, iv, plan, octets, "decrypt") = P
          /\ \A i \in 1..len : octets[i] # Octet(<<i>>) <=> i - 1 \in X
      BY <2>1, <2>2, CbcRoundTrip
    <2>4. RunSteps(mode, key, iv, plan, octets, "decrypt")
            = {RunCbc(key, iv, plan, octets, "decrypt")}
      BY <1>5, <1>7, <2>3 DEF RunSteps
    <2> QED
      BY <2>3, <2>4
  <1> QED
    BY <1>6, <1>7

Ciphered(d, sample, key, own, octets) ==
    /\ Len(octets) = sample.len
    /\ DecryptSample(d, key, own, sample.map, octets) = {Plaintext(sample.len)}
    /\ \A i \in 1..sample.len :
          octets[i] # Octet(<<i>>) <=> OctetEncrypted(d.scheme, d.tenc, sample, i - 1)

LEMMA SampleRoundTrip ==
    ASSUME NEW d, d.tenc.crypt \in Nat, d.tenc.skip \in Nat, IsOption(d.tenc.constantIv),
           UsesPattern(d.scheme) => d.tenc.crypt # 0 \/ d.tenc.skip # 0,
           NEW sample, sample.len \in Nat, IsMap(sample.map),
           NEW key, NEW own, IsOption(own),
           NEW octets \in EncryptSample(d, key, own, sample.map, Plaintext(sample.len))
    PROVE  Ciphered(d, sample, key, own, octets)
  <1> DEFINE len == sample.len
             map == sample.map
             P == Plaintext(len)
             mode == CipherMode[d.scheme]
             X == Encrypted(d, sample)
  <1>1. Len(P) = len
    BY DEF Plaintext
  <1>2. d.scheme \in DOMAIN CipherMode /\ IsDecided(d)
    BY DEF EncryptSample, RunSample, IsDecided
  <1>3. PICK iv \in EffectiveIv(d, own), plan \in PlanSampleCipher(d, map, len) :
           octets \in RunSteps(mode, key, iv, plan, P, "encrypt")
    <2> DEFINE U(v) == UNION {RunSteps(mode, key, v, q, P, "encrypt")
                              : q \in PlanSampleCipher(d, map, len)}
    <2>1. octets \in UNION {U(v) : v \in EffectiveIv(d, own)}
      <3> HIDE DEF P
      <3> QED
        BY <1>1, <1>2 DEF EncryptSample, RunSample, P
    <2> HIDE DEF U, P, mode
    <2>2. PICK iv \in EffectiveIv(d, own) : octets \in U(iv)
      BY <2>1
    <2>3. PICK plan \in PlanSampleCipher(d, map, len) :
             octets \in RunSteps(mode, key, iv, plan, P, "encrypt")
      BY <2>2 DEF U
    <2> QED
      BY <2>3
  <1>4. EffectiveIv(d, own) = {iv} /\ PlanSampleCipher(d, map, len) = {plan}
    <2>1. IsOption(EffectiveIv(d, own)) /\ IsOption(PlanSampleCipher(d, map, len))
      BY PlanAlone, IvAlone
    <2> QED
      BY <1>3, <2>1, OptionAlone
  <1>5. Tiles(plan, 0, len, X)
    BY <1>2, <1>3, PlanTiles
  <1>6. /\ DOMAIN octets = 1..len /\ Len(octets) = len
        /\ RunSteps(mode, key, iv, plan, octets, "decrypt") = {P}
        /\ \A i \in 1..len : octets[i] # Octet(<<i>>) <=> i - 1 \in X
    <2> HIDE DEF X, mode
    <2> QED
      BY <1>3, <1>5, StepsRoundTrip
  <1>7. DecryptSample(d, key, own, map, octets) = {P}
    <2>1. DecryptSample(d, key, own, map, octets)
            = UNION {UNION {RunSteps(mode, key, v, q, octets, "decrypt")
                            : q \in PlanSampleCipher(d, map, len)}
                     : v \in EffectiveIv(d, own)}
      BY <1>2, <1>6 DEF DecryptSample, RunSample
    <2> HIDE DEF P, mode
    <2>2. {RunSteps(mode, key, iv, q, octets, "decrypt") : q \in {plan}} = {{P}}
      BY <1>6
    <2>3. UNION {RunSteps(mode, key, iv, q, octets, "decrypt") : q \in {plan}} = {P}
      BY <2>2
    <2>4. {UNION {RunSteps(mode, key, v, q, octets, "decrypt") : q \in {plan}} : v \in {iv}} = {{P}}
      BY <2>3
    <2>5. UNION {UNION {RunSteps(mode, key, v, q, octets, "decrypt") : q \in {plan}} : v \in {iv}}
            = {P}
      BY <2>4
    <2> QED
      BY <1>4, <2>1, <2>5
  <1>8. \A i \in 1..len : i - 1 \in X <=> OctetEncrypted(d.scheme, d.tenc, sample, i - 1)
    BY DEF Encrypted
  <1> QED
    BY <1>6, <1>7, <1>8 DEF Ciphered

LEMMA OptionOf ==
    ASSUME NEW o, \A x, y \in o : x = y
    PROVE  IsOption(o)
  <1>1. CASE o = {}
    BY <1>1 DEF IsOption
  <1>2. CASE o # {}
    <2>1. PICK v \in o : TRUE
      BY <1>2
    <2>2. o = {v}
      BY <2>1
    <2> QED
      BY <2>2 DEF IsOption
  <1> QED
    BY <1>1, <1>2

(* What a sample of a protected stream is: made by the cipher, under the   *)
(* key its store held for the KID in force.                                *)
Scheme(p, tenc) == [scheme |-> p.scheme, tenc |-> tenc]
Locked(p, x) ==
    LET tenc == EffectiveTenc(p.tenc, x.group)
    IN  /\ x.len \in Nat /\ IsMap(x.map) /\ IsOption(x.iv) /\ IsOption(x.group)
        /\ tenc.crypt \in Nat /\ tenc.skip \in Nat /\ IsOption(tenc.constantIv)
        /\ Decision(p.scheme, tenc) = {Scheme(p, tenc)}
        /\ x.data \in EncryptSample(Scheme(p, tenc), x.store[tenc.kid], x.iv, x.map,
                                    Plaintext(x.len))
        /\ VectorSize(x) = p.tenc.ivSize
        /\ x.iv # {} => VectorSize(x) # 0

LEMMA LockedOpens ==
    ASSUME NEW p, NEW x, Locked(p, x)
    PROVE  LET d == Scheme(p, EffectiveTenc(p.tenc, x.group))
           IN  /\ Len(x.data) = x.len
               /\ DecryptSample(d, x.store[d.tenc.kid], x.iv, x.map, x.data) = {Plaintext(x.len)}
               /\ \A i \in 1..x.len :
                     x.data[i] # Octet(<<i>>) <=> OctetEncrypted(d.scheme, d.tenc, x, i - 1)
  <1> DEFINE tenc == EffectiveTenc(p.tenc, x.group)
             d == Scheme(p, tenc)
  <1>1. d.tenc = tenc /\ d.scheme = p.scheme
    BY DEF Scheme
  <1>2. d \in Decision(p.scheme, tenc)
    BY DEF Locked
  <1>3. UsesPattern(d.scheme) => d.tenc.crypt # 0 \/ d.tenc.skip # 0
    BY <1>1, <1>2 DEF Decision
  <1>4. /\ d.tenc.crypt \in Nat /\ d.tenc.skip \in Nat /\ IsOption(d.tenc.constantIv)
        /\ x.len \in Nat /\ IsMap(x.map) /\ IsOption(x.iv)
        /\ x.data \in EncryptSample(d, x.store[d.tenc.kid], x.iv, x.map, Plaintext(x.len))
    BY <1>1 DEF Locked
  <1> DEFINE key == x.store[d.tenc.kid]
             own == x.iv
             octets == x.data
  <1>5. octets \in EncryptSample(d, key, own, x.map, Plaintext(x.len)) /\ IsOption(own)
    BY <1>4
  <1>6. Ciphered(d, x, key, own, octets)
    <2> HIDE DEF d, key, own, octets
    <2> QED
      BY <1>3, <1>4, <1>5, SampleRoundTrip
  <1> QED
    BY <1>6 DEF Ciphered

(* A map of no subsamples, of an empty sample only, is as good as none.    *)
LEMMA EmptyMap ==
    ASSUME NEW d, NEW key, NEW own, NEW len \in Nat,
           EncryptSample(d, key, own, {<<>>}, Plaintext(len)) # {}, NEW data, Len(data) = len
    PROVE  DecryptSample(d, key, own, {<<>>}, data) = DecryptSample(d, key, own, {}, data)
  <1> DEFINE e == <<>>
             P == Plaintext(len)
  <1>1. d.scheme \in DOMAIN CipherMode /\ Len(P) = len
    BY DEF EncryptSample, RunSample, Plaintext
  <1>2. PlanSampleCipher(d, {e}, len) # {}
    <2> DEFINE U(v) == UNION {RunSteps(CipherMode[d.scheme], key, v, q, P, "encrypt")
                              : q \in PlanSampleCipher(d, {e}, len)}
    <2>1. UNION {U(v) : v \in EffectiveIv(d, own)} # {}
      <3> HIDE DEF P
      <3> QED
        BY <1>1 DEF EncryptSample, RunSample, P
    <2>2. ASSUME PlanSampleCipher(d, {e}, len) = {}
          PROVE  FALSE
      <3>1. \A v : U(v) = {}
        BY <2>2
      <3> HIDE DEF U
      <3> QED
        BY <2>1, <3>1
    <2> QED
      BY <2>2
  <1>3. IvSupply(d.tenc) # "none" /\ MapCovers(e, len)
    BY <1>2 DEF PlanSampleCipher
  <1>4. len = 0
    <2>1. e \in Seq(Nat \X Nat) /\ Len(e) = 0
      OBVIOUS
    <2> HIDE DEF e
    <2>2. SubsampleStart(e, 0 + 1) = len
      BY <1>3, <2>1 DEF MapCovers
    <2>3. SubsampleStart(e, 1) = 0
      BY <2>1, StartIs
    <2>4. 0 + 1 = 1
      OBVIOUS
    <2> QED
      BY <2>2, <2>3, <2>4
  <1>5. PlanSampleCipher(d, {e}, 0) = {<<>>}
    <2>1. MapPlan(d, e) = <<>>
      <3> DEFINE ss == [k \in DOMAIN e |-> SubsamplePlan(d, SubsampleStart(e, k), e[k])]
      <3>1. ss = <<>>
        OBVIOUS
      <3>2. MapPlan(d, e) = FlattenSeq(ss)
        BY DEF MapPlan
      <3> QED
        BY <3>1, <3>2, FlattenEmpty
    <2>2. {s \in {e} : MapCovers(s, 0)} = {e}
      BY <1>3, <1>4
    <2>3. PlanSampleCipher(d, {e}, 0) = {MapPlan(d, s) : s \in {e}}
      <3> HIDE DEF e
      <3> QED
        BY <1>1, <1>3, <2>2 DEF PlanSampleCipher
    <2> QED
      BY <2>1, <2>3
  <1>6. PlanSampleCipher(d, {}, 0) = {<<>>}
    <2>1. Whole(0) = 0
      <3>1. Whole(0) \in Nat /\ Whole(0) <= 0
        BY WholeIs
      <3> QED
        BY <3>1
    <2>2. FullSamplePlan(d, 0) = <<>> \o <<>>
      BY <2>1 DEF FullSamplePlan, EncryptedRun, ClearRun
    <2>3. <<>> \o <<>> = <<>>
      OBVIOUS
    <2> QED
      BY <1>1, <1>3, <2>2, <2>3 DEF PlanSampleCipher
  <1>7. PlanSampleCipher(d, {e}, Len(data)) = PlanSampleCipher(d, {}, Len(data))
    BY <1>4, <1>5, <1>6
  <1> DEFINE steps(v, map) == {RunSteps(CipherMode[d.scheme], key, v, plan, data, "decrypt")
                               : plan \in PlanSampleCipher(d, map, Len(data))}
             run(map) == UNION {UNION steps(v, map) : v \in EffectiveIv(d, own)}
  <1>8. \A v : steps(v, {e}) = steps(v, {})
    BY <1>7
  <1>9. run({e}) = run({})
    <2> HIDE DEF steps, e
    <2> QED
      BY <1>8
  <1> QED
    BY <1>9, Zenon DEF DecryptSample, RunSample

(***************************************************************************)
(* A fragment says of its samples what was used.                           *)
(***************************************************************************)
LockedSeq(p, q) == \E S : q \in Seq(S) /\ \A x \in S : Locked(p, x)

LEMMA LockedAt ==
    ASSUME NEW p, NEW q, LockedSeq(p, q)
    PROVE  /\ DOMAIN q = 1..Len(q) /\ Len(q) \in Nat
           /\ \A k \in 1..Len(q) : Locked(p, q[k])
  <1>1. PICK S : q \in Seq(S) /\ \A x \in S : Locked(p, x)
    BY DEF LockedSeq
  <1> QED
    BY <1>1

LEMMA FragmentGroups ==
    ASSUME NEW p, NEW q, LockedSeq(p, q), NEW k \in 1..Len(q)
    PROVE  ReadGroup(Fragment(q).groups, k) = q[k].group
  <1> DEFINE seig == [i \in DOMAIN q |-> q[i].group]
             E == UNION {q[i].group : i \in DOMAIN q}
  <1>1. /\ DOMAIN q = 1..Len(q) /\ Len(q) \in Nat
        /\ \A i \in 1..Len(q) : IsOption(q[i].group)
    BY LockedAt DEF Locked
  <1>2. seig \in Seq(SUBSET E) /\ Len(seig) = Len(q) /\ \A i \in 1..Len(q) : seig[i] = q[i].group
    <2>1. \A i \in 1..Len(q) : q[i].group \in SUBSET E
      BY <1>1
    <2> HIDE DEF E
    <2> QED
      BY <1>1, <2>1
  <1>3. \A i \in 1..Len(seig) : \A x, y \in seig[i] : x = y
    BY <1>1, <1>2 DEF IsOption
  <1>4. Fragment(q).groups = SeigGroups(seig)
    BY DEF Fragment
  <1>5. k \in 1..Len(seig)
    BY <1>2
  <1> HIDE DEF seig, E
  <1>6. ReadGroup(SeigGroups(seig), k) = seig[k]
    BY <1>2, <1>3, <1>5, GroupsRead
  <1> QED
    BY <1>2, <1>4, <1>6

LEMMA FragmentRecords ==
    ASSUME NEW p, NEW q, LockedSeq(p, q), NEW k \in 1..Len(q)
    PROVE  /\ ReadVector(Fragment(q), k) = q[k].iv
           /\ \/ ReadMap(Fragment(q), k) = q[k].map
              \/ ReadMap(Fragment(q), k) = {} /\ q[k].map = {<<>>}
  <1> DEFINE aux == [i \in DOMAIN q |-> AuxRecordOf(q[i])]
             f == Fragment(q)
             x == q[k]
             none == <<>>
  <1>1. /\ DOMAIN q = 1..Len(q) /\ Len(q) \in Nat /\ 1 \in 1..Len(q)
        /\ Locked(p, q[1]) /\ Locked(p, x)
    BY LockedAt
  <1>2. f.cenc = CencBoxes(aux, 0)
    BY DEF Fragment
  <1>3. DOMAIN aux = 1..Len(q) /\ aux # <<>>
    BY <1>1
  <1>4. /\ aux[k].vector = x.iv /\ aux[k].map = MapOf(x) /\ aux[k].subs = Len(MapOf(x))
        /\ aux[1].iv = VectorSize(q[1])
    BY <1>1 DEF AuxRecordOf
  <1>5. x.map = {} \/ \E m \in Seq(Nat \X Nat) : x.map = {m} /\ MapOf(x) = m
    <2>1. CASE x.map # {}
      <3>1. PICK m \in Seq(Nat \X Nat) : x.map = {m}
        BY <1>1, <2>1 DEF Locked, IsMap
      <3>2. MapOf(x) = m
        BY <3>1 DEF MapOf
      <3> QED
        BY <3>1, <3>2
    <2> QED
      BY <2>1
  <1>6. x.map = {} => MapOf(x) = none
    BY DEF MapOf
  <1> HIDE DEF aux
  <1>7. CASE AuxOmitted(aux)
    <2>1. f.cenc = {}
      BY <1>2, <1>7, CencBoxIs
    <2>2. ReadVector(f, k) = {} /\ ReadMap(f, k) = {}
      <3> HIDE DEF f
      <3>1. {b.senc[k].vector : b \in f.cenc} = {} /\ {b.senc[k].map : b \in f.cenc} = {}
        BY <2>1
      <3> QED
        BY <3>1 DEF ReadVector, ReadMap
    <2>3. aux[1].iv = 0 /\ ~AnySubsamples(aux)
      BY <1>3, <1>7 DEF AuxOmitted
    <2>4. VectorSize(x) = 0
      BY <1>1, <1>4, <2>3 DEF Locked
    <2>5. x.iv = {}
      BY <1>1, <2>4 DEF Locked
    <2>6. ~(Len(MapOf(x)) > 0)
      BY <1>3, <1>4, <2>3 DEF AnySubsamples
    <2>7. x.map = {} \/ x.map = {<<>>}
      <3>1. ASSUME NEW m \in Seq(Nat \X Nat), ~(Len(m) > 0)
            PROVE  m = <<>>
        BY <3>1
      <3> QED
        BY <1>5, <2>6, <3>1
    <2> QED
      BY <2>2, <2>5, <2>7
  <1>8. CASE ~AuxOmitted(aux)
    <2> DEFINE b == CencBox(aux, 0)
    <2>1. f.cenc = {b}
      BY <1>2, <1>8 DEF CencBoxes, CencBox
    <2>2. b.senc = aux
      BY DEF CencBox
    <2> HIDE DEF b, f
    <2>3. {c.senc[k].vector : c \in f.cenc} = {x.iv} /\ {c.senc[k].map : c \in f.cenc} = {MapOf(x)}
      BY <1>4, <2>1, <2>2
    <2>4. ReadVector(f, k) = x.iv
      BY <2>3 DEF ReadVector
    <2>5. ReadMap(f, k) = {m \in {MapOf(x)} : m # none}
      BY <2>3 DEF ReadMap
    <2>6. CASE MapOf(x) = none
      <3>1. ReadMap(f, k) = {}
        BY <2>5, <2>6
      <3>2. x.map = {} \/ x.map = {none}
        BY <1>5, <2>6
      <3> QED
        BY <2>4, <3>1, <3>2 DEF f
    <2>7. CASE MapOf(x) # none
      <3>1. ReadMap(f, k) = {MapOf(x)}
        <4> HIDE DEF none
        <4> QED
          BY <2>5, <2>7
      <3>2. x.map = {MapOf(x)}
        BY <1>5, <1>6, <2>7
      <3> QED
        BY <2>4, <3>1, <3>2 DEF f
    <2> QED
      BY <2>6, <2>7
  <1> QED
    BY <1>7, <1>8

LEMMA LockedReads ==
    ASSUME NEW s \in Stream, NEW p, config[s] = {p}, NEW q, LockedSeq(p, q),
           NEW k \in 1..Len(q)
    PROVE  ReadBack(s, Fragment(q), k) = {Plaintext(q[k].len)}
  <1> DEFINE f == Fragment(q)
             x == q[k]
             tenc == EffectiveTenc(p.tenc, x.group)
             d == Scheme(p, tenc)
             plain == Plaintext(x.len)
             open(c) == DecryptSample(c, x.store[tenc.kid], ReadVector(f, k), ReadMap(f, k), x.data)
  <1>1. (CHOOSE c \in config[s] : TRUE) = p
    BY Zenon
  <1>2. ReadTenc(s, f, k) = tenc
    BY <1>1, FragmentGroups DEF ReadTenc
  <1>3. f.samples[k] = x
    BY DEF Fragment
  <1>4. Locked(p, x)
    BY LockedAt
  <1>5. Decision(p.scheme, tenc) = {d}
    BY <1>4 DEF Locked
  <1>6. ReadBack(s, f, k) = UNION {open(c) : c \in {d}}
    <2> HIDE DEF f, x, tenc, d
    <2> QED
      BY <1>1, <1>2, <1>3, <1>5, Zenon DEF ReadBack
  <1>7. d.tenc = tenc
    BY DEF Scheme
  <1>8. /\ Len(x.data) = x.len
        /\ DecryptSample(d, x.store[tenc.kid], x.iv, x.map, x.data) = {plain}
    <2> HIDE DEF plain
    <2> QED
      BY <1>4, <1>7, LockedOpens DEF plain
  <1>9. open(d) = {plain}
    <2>1. ReadVector(f, k) = x.iv /\ (ReadMap(f, k) = x.map \/ (ReadMap(f, k) = {} /\ x.map = {<<>>}))
      BY FragmentRecords
    <2>2. CASE ReadMap(f, k) = x.map
      <3> HIDE DEF f, d, x, tenc, plain
      <3> QED
        BY <1>8, <2>1, <2>2
    <2>3. CASE ReadMap(f, k) = {} /\ x.map = {<<>>}
      <3> DEFINE key == x.store[tenc.kid]
      <3>1. EncryptSample(d, key, x.iv, {<<>>}, Plaintext(x.len)) # {} /\ x.len \in Nat
        BY <1>4, <1>7, <2>3 DEF Locked
      <3> HIDE DEF f, d, x, tenc, plain, key
      <3>2. DecryptSample(d, key, x.iv, {<<>>}, x.data) = DecryptSample(d, key, x.iv, {}, x.data)
        BY <1>8, <3>1, EmptyMap
      <3> QED
        BY <1>8, <2>1, <2>3, <3>2 DEF key
    <2> QED
      BY <2>1, <2>2, <2>3
  <1> QED
    <2> HIDE DEF d, plain, open
    <2>1. {open(c) : c \in {d}} = {{plain}}
      BY <1>9
    <2> QED
      BY <1>6, <2>1 DEF plain

(***************************************************************************)
(* The crypto state of a protected stream: the parameters it was opened    *)
(* with, an override of them that `rotate_key` let pass, and a key for the *)
(* KID in force.                                                           *)
(***************************************************************************)
OverrideKept(p, c) ==
    \/ c.override = {}
    \/ \E kid, iv :
          /\ c.override = {Override(p.tenc, kid, iv)}
          /\ kid \in DOMAIN c.keys /\ IsOption(iv)
          /\ Serializable(Override(p.tenc, kid, iv))
KeptBy(p, c) ==
    /\ DOMAIN c = CryptoFields /\ c = [f \in CryptoFields |-> c[f]]
    /\ c.scheme = p.scheme /\ c.tenc = p.tenc /\ p.tenc.kid \in DOMAIN c.keys
    /\ c.ivCounter \in Nat \ {0}
    /\ OverrideKept(p, c)
Protection(p) ==
    p.tenc.crypt \in Nat /\ p.tenc.skip \in Nat /\ IsOption(p.tenc.constantIv)
StoreInv ==
    /\ config \in Configs /\ calls \in 0..MaxCalls /\ accepted \in BOOLEAN
    /\ DOMAIN pending = Stream /\ DOMAIN fragments = Stream
    /\ DOMAIN tracks = Stream /\ DOMAIN handed = Stream
    /\ \A s \in Stream : tracks[s] = {} => config[s] = {}
    /\ \A s \in Stream : \A c \in tracks[s] : \E p \in config[s] : KeptBy(p, c)
FragmentsLocked(p, fs) ==
    \E F : fs \in Seq(F) /\ \A f \in F : \E q : LockedSeq(p, q) /\ f = Fragment(q)
LockedInv ==
    \A s \in Stream : \A p \in config[s] :
        /\ LockedSeq(p, handed[s]) /\ LockedSeq(p, pending[s])
        /\ FragmentsLocked(p, fragments[s])

LEMMA ConfigIs ==
    ASSUME StoreInv, NEW s \in Stream, NEW p \in config[s]
    PROVE  config[s] = {p} /\ Protection(p)
  <1>1. /\ \A q \in config[s] : q = p
        /\ p.tenc.crypt \in Nat /\ p.tenc.skip \in Nat
        /\ \A v, w \in p.tenc.constantIv : v = w
    BY ConfigsAssumption DEF StoreInv
  <1>2. IsOption(p.tenc.constantIv)
    BY <1>1, OptionOf
  <1> QED
    BY <1>1, <1>2 DEF Protection

LEMMA EffectiveIs ==
    ASSUME NEW p, NEW c, Protection(p), KeptBy(p, c)
    PROVE  LET tenc == EffectiveTenc(c.tenc, c.override)
           IN  /\ tenc.crypt \in Nat /\ tenc.skip \in Nat /\ IsOption(tenc.constantIv)
               /\ tenc.kid \in DOMAIN c.keys
               /\ IsOption(c.override)
               /\ tenc = EffectiveTenc(p.tenc, c.override)
               /\ \A g \in c.override : Serializable(g) /\ g.ivSize = p.tenc.ivSize
  <1> DEFINE tenc == EffectiveTenc(p.tenc, c.override)
  <1>1. c.tenc = p.tenc
    BY DEF KeptBy
  <1>2. CASE c.override = {}
    <2>1. tenc = p.tenc
      BY <1>2 DEF EffectiveTenc
    <2> QED
      BY <1>1, <1>2, <2>1 DEF KeptBy, Protection, IsOption
  <1>3. CASE c.override # {}
    <2>1. PICK kid, iv : /\ c.override = {Override(p.tenc, kid, iv)}
                         /\ kid \in DOMAIN c.keys /\ IsOption(iv)
                         /\ Serializable(Override(p.tenc, kid, iv))
      BY <1>3 DEF KeptBy, OverrideKept
    <2> DEFINE g == Override(p.tenc, kid, iv)
    <2>2. g.crypt = p.tenc.crypt /\ g.skip = p.tenc.skip /\ g.kid = kid /\ g.constantIv = iv
          /\ g.ivSize = p.tenc.ivSize
      BY DEF Override
    <2> HIDE DEF g
    <2>3. (CHOOSE h \in {g} : TRUE) = g
      OBVIOUS
    <2>4. /\ tenc.crypt = g.crypt /\ tenc.skip = g.skip /\ tenc.kid = g.kid
          /\ tenc.constantIv = g.constantIv
      BY <1>3, <2>1, <2>3 DEF EffectiveTenc, g
    <2>5. IsOption(c.override)
      BY <2>1 DEF IsOption
    <2>6. \A h \in c.override : Serializable(h) /\ h.ivSize = p.tenc.ivSize
      BY <2>1, <2>2 DEF g
    <2> HIDE DEF tenc
    <2> QED
      BY <1>1, <2>1, <2>2, <2>4, <2>5, <2>6 DEF Protection, tenc
  <1> QED
    BY <1>2, <1>3

(* The sample of a packet is Locked, once the muxer takes it.              *)
LEMMA ProtectLocks ==
    ASSUME NEW s \in Stream, NEW p, NEW c, Protection(p), KeptBy(p, c),
           NEW len \in Lengths, NEW map \in Maps,
           NEW x \in Protect(s, c, len, map), MuxerAccepts(c.tenc, x)
    PROVE  Locked(p, x)
  <1> DEFINE tenc == EffectiveTenc(c.tenc, c.override)
  <1>1. PICK d \in Decision(c.scheme, tenc) :
           \E octets \in EncryptSample(d, c.keys[tenc.kid], VectorOf(c), map, Plaintext(len)) :
              x = [id |-> calls, len |-> len, map |-> map, iv |-> VectorOf(c),
                   group |-> c.override, store |-> c.keys, data |-> octets]
    BY Zenon DEF Protect
  <1>2. PICK octets \in EncryptSample(d, c.keys[tenc.kid], VectorOf(c), map, Plaintext(len)) :
              x = [id |-> calls, len |-> len, map |-> map, iv |-> VectorOf(c),
                   group |-> c.override, store |-> c.keys, data |-> octets]
    BY <1>1
  <1>3. /\ x.len = len /\ x.map = map /\ x.iv = VectorOf(c) /\ x.group = c.override
        /\ x.store = c.keys /\ x.data = octets
    BY <1>2
  <1>4. /\ tenc.crypt \in Nat /\ tenc.skip \in Nat /\ IsOption(tenc.constantIv)
        /\ IsOption(c.override) /\ tenc = EffectiveTenc(p.tenc, c.override)
    BY EffectiveIs
  <1>5. c.scheme = p.scheme /\ c.tenc = p.tenc
    BY DEF KeptBy
  <1>6. Decision(c.scheme, tenc) = {Scheme(p, tenc)} /\ d = Scheme(p, tenc)
    <2>1. Decision(c.scheme, tenc) \subseteq {[scheme |-> c.scheme, tenc |-> tenc]}
      BY DEF Decision
    <2>2. [scheme |-> c.scheme, tenc |-> tenc] = Scheme(p, tenc)
      BY <1>5 DEF Scheme
    <2> QED
      BY <1>1, <2>1, <2>2
  <1>7. len \in Nat /\ IsMap(map)
    <2>1. map \subseteq Seq(Nat \X Nat) /\ IsOption(map)
      BY PacketsAssumption, OptionOf
    <2>2. len \in Nat
      BY PacketsAssumption
    <2>3. IsMap(map)
      BY <2>1 DEF IsOption, IsMap
    <2> QED
      BY <2>2, <2>3
  <1>8. IsOption(VectorOf(c))
    BY DEF VectorOf, IsOption
  <1>9. VectorSize(x) = p.tenc.ivSize
    BY <1>5 DEF MuxerAccepts
  <1>10. ASSUME x.iv # {} PROVE VectorSize(x) # 0
    <2>1. IvSupply(tenc) = "sample" /\ x.iv = {NextIv(c)}
      BY <1>3, <1>10 DEF VectorOf
    <2>2. tenc.ivSize # 0
      BY <2>1 DEF IvSupply
    <2> DEFINE v == NextIv(c)
    <2>3. v.len = tenc.ivSize
      BY DEF NextIv
    <2> HIDE DEF v
    <2>4. (CHOOSE w \in {v} : TRUE) = v
      OBVIOUS
    <2>5. VectorSize(x) = v.len
      BY <1>10, <2>1, <2>4 DEF VectorSize, v
    <2> QED
      BY <2>2, <2>3, <2>5
  <1> HIDE DEF tenc
  <1>11. x.data \in EncryptSample(Scheme(p, tenc), x.store[tenc.kid], x.iv, x.map, Plaintext(x.len))
    BY <1>2, <1>3, <1>6
  <1>12. tenc = EffectiveTenc(p.tenc, x.group)
    BY <1>3, <1>4
  <1> QED
    BY <1>3, <1>4, <1>5, <1>6, <1>7, <1>8, <1>9, <1>10, <1>11, <1>12 DEF Locked

LEMMA LockedAppend ==
    ASSUME NEW p, NEW q, LockedSeq(p, q), NEW x, Locked(p, x)
    PROVE  LockedSeq(p, Append(q, x))
  <1>1. PICK S : q \in Seq(S) /\ \A y \in S : Locked(p, y)
    BY DEF LockedSeq
  <1>2. q \in Seq(S \cup {x}) /\ \A y \in S \cup {x} : Locked(p, y)
    BY <1>1
  <1>3. Append(q, x) \in Seq(S \cup {x})
    BY <1>2
  <1> QED
    BY <1>2, <1>3 DEF LockedSeq

LEMMA LockedEmpty ==
    ASSUME NEW p
    PROVE  LockedSeq(p, <<>>) /\ FragmentsLocked(p, <<>>)
  <1> DEFINE e == <<>>
  <1>1. e \in Seq({}) /\ \A x \in {} : Locked(p, x)
    OBVIOUS
  <1>2. \A f \in {} : \E q : LockedSeq(p, q) /\ f = Fragment(q)
    OBVIOUS
  <1> HIDE DEF e
  <1>3. LockedSeq(p, e)
    BY <1>1 DEF LockedSeq
  <1>4. FragmentsLocked(p, e)
    BY <1>1, <1>2 DEF FragmentsLocked
  <1> QED
    BY <1>3, <1>4 DEF e

LEMMA FragmentAppend ==
    ASSUME NEW p, NEW fs, FragmentsLocked(p, fs), NEW q, LockedSeq(p, q)
    PROVE  FragmentsLocked(p, Append(fs, Fragment(q)))
  <1>1. PICK F : fs \in Seq(F) /\ \A f \in F : \E r : LockedSeq(p, r) /\ f = Fragment(r)
    BY DEF FragmentsLocked
  <1> DEFINE G == F \cup {Fragment(q)}
  <1>2. Append(fs, Fragment(q)) \in Seq(G)
    BY <1>1
  <1>3. \A f \in G : \E r : LockedSeq(p, r) /\ f = Fragment(r)
    BY <1>1
  <1> HIDE DEF G
  <1> QED
    BY <1>2, <1>3 DEF FragmentsLocked

LEMMA HandKeeps ==
    ASSUME StoreInv, LockedInv, NEW s \in Stream, NEW x, Hand(s, x), config' = config,
           \A p \in config[s] : Locked(p, x)
    PROVE  /\ LockedInv' /\ accepted' \in BOOLEAN
           /\ DOMAIN pending' = Stream /\ DOMAIN fragments' = Stream /\ DOMAIN handed' = Stream
  <1> DEFINE q == Append(pending[s], x)
  <1>1. /\ pending' = [pending EXCEPT ![s] = <<>>] \/ pending' = [pending EXCEPT ![s] = q]
        /\ \/ fragments' = [fragments EXCEPT ![s] = Append(@, Fragment(q))]
           \/ fragments' = [fragments EXCEPT ![s] = @]
        /\ handed' = [handed EXCEPT ![s] = Append(@, x)]
    BY Zenon DEF Hand
  <1>2. accepted' \in BOOLEAN
    BY DEF Hand
  <1>3. /\ DOMAIN pending' = Stream /\ DOMAIN fragments' = Stream /\ DOMAIN handed' = Stream
        /\ \A r \in Stream : r # s => /\ pending'[r] = pending[r]
                                      /\ fragments'[r] = fragments[r]
                                      /\ handed'[r] = handed[r]
        /\ handed'[s] = Append(handed[s], x)
        /\ pending'[s] = <<>> \/ pending'[s] = q
        /\ fragments'[s] = Append(fragments[s], Fragment(q)) \/ fragments'[s] = fragments[s]
    <2> HIDE DEF q
    <2> QED
      BY <1>1 DEF StoreInv
  <1>4. ASSUME NEW r \in Stream, NEW p \in config[r]
        PROVE  /\ LockedSeq(p, handed'[r]) /\ LockedSeq(p, pending'[r])
               /\ FragmentsLocked(p, fragments'[r])
    <2>1. LockedSeq(p, handed[r]) /\ LockedSeq(p, pending[r]) /\ FragmentsLocked(p, fragments[r])
      BY <1>4 DEF LockedInv
    <2>2. CASE r # s
      BY <1>3, <2>1, <2>2
    <2>3. CASE r = s
      <3>1. Locked(p, x)
        BY <1>4, <2>3
      <3>2. LockedSeq(p, q) /\ LockedSeq(p, Append(handed[s], x))
        BY <2>1, <2>3, <3>1, LockedAppend
      <3> HIDE DEF q
      <3>3. FragmentsLocked(p, Append(fragments[s], Fragment(q)))
        BY <2>1, <2>3, <3>2, FragmentAppend
      <3> QED
        BY <1>3, <2>1, <2>3, <3>2, <3>3, LockedEmpty
    <2> QED
      BY <2>2, <2>3
  <1>5. LockedInv'
    BY <1>4 DEF LockedInv
  <1> QED
    BY <1>2, <1>3, <1>5

(* Nothing handed over: the samples stand.                                 *)
LEMMA LockedStands ==
    ASSUME LockedInv, UNCHANGED <<config, pending, fragments, handed>>
    PROVE  LockedInv'
  BY DEF LockedInv

(* The crypto states of a step.                                            *)
TracksKept ==
    /\ DOMAIN tracks' = Stream
    /\ \A s \in Stream : tracks'[s] = {} => tracks[s] = {}
    /\ \A s \in Stream : \A b \in tracks'[s] : \E c \in tracks[s] :
          \A p : Protection(p) /\ KeptBy(p, c) => KeptBy(p, b)

LEMMA StoreKeeps ==
    ASSUME StoreInv, TracksKept, config' = config, calls < MaxCalls, calls' = calls + 1,
           accepted' \in BOOLEAN,
           DOMAIN pending' = Stream, DOMAIN fragments' = Stream, DOMAIN handed' = Stream
    PROVE  StoreInv'
  <1>1. calls' \in 0..MaxCalls
    BY BoundsAssumption DEF StoreInv
  <1>2. ASSUME NEW s \in Stream, tracks'[s] = {}
        PROVE  config'[s] = {}
    BY <1>2 DEF StoreInv, TracksKept
  <1>3. ASSUME NEW s \in Stream, NEW b \in tracks'[s]
        PROVE  \E p \in config'[s] : KeptBy(p, b)
    <2>1. PICK c \in tracks[s] : \A p : Protection(p) /\ KeptBy(p, c) => KeptBy(p, b)
      BY <1>3 DEF TracksKept
    <2>2. PICK p \in config[s] : KeptBy(p, c)
      BY <2>1 DEF StoreInv
    <2>3. Protection(p)
      BY <2>2, ConfigIs
    <2> QED
      BY <2>1, <2>2, <2>3
  <1> QED
    BY <1>1, <1>2, <1>3 DEF StoreInv, TracksKept, KeptBy, OverrideKept

LEMMA CountKeeps ==
    ASSUME StoreInv, NEW s \in Stream, NEW c \in tracks[s],
           tracks' = [tracks EXCEPT ![s] = {CountVector(c)}]
    PROVE  TracksKept
  <1>1. DOMAIN tracks' = Stream /\ tracks'[s] = {CountVector(c)}
        /\ \A r \in Stream : r # s => tracks'[r] = tracks[r]
    BY DEF StoreInv
  <1>2. Cardinality(VectorOf(c)) \in {0, 1}
    BY FS_EmptySet, FS_Singleton DEF VectorOf
  <1>3. ASSUME NEW p, KeptBy(p, c)
        PROVE  KeptBy(p, CountVector(c))
    <2> DEFINE b == CountVector(c)
    <2>1. c.ivCounter \in Nat \ {0} /\ DOMAIN c = CryptoFields
      BY <1>3 DEF KeptBy
    <2>2. b = [c EXCEPT !.ivCounter = c.ivCounter + Cardinality(VectorOf(c))]
      BY DEF CountVector
    <2>3. /\ DOMAIN b = CryptoFields /\ b.scheme = c.scheme /\ b.tenc = c.tenc
          /\ b.keys = c.keys /\ b.override = c.override
          /\ b.ivCounter = c.ivCounter + Cardinality(VectorOf(c))
          /\ b = [f \in CryptoFields |-> b[f]]
      BY <2>1, <2>2 DEF CryptoFields
    <2>4. b.ivCounter \in Nat \ {0}
      BY <1>2, <2>1, <2>3
    <2> HIDE DEF b
    <2> QED
      BY <1>3, <2>3, <2>4 DEF KeptBy, OverrideKept, b
  <1> QED
    BY <1>1, <1>3 DEF TracksKept

LEMMA WriteStores ==
    ASSUME StoreInv, LockedInv, calls < MaxCalls, calls' = calls + 1,
           NEW s \in Stream, NEW len \in Lengths, NEW map \in Maps, WritePacket(s, len, map)
    PROVE  StoreInv' /\ LockedInv'
  <1>1. CASE WriteProtected(s, len, map)
    <2>1. PICK c \in tracks[s] :
             /\ tracks' = [tracks EXCEPT ![s] = {CountVector(c)}]
             /\ \/ \E x \in Protect(s, c, len, map) : MuxerAccepts(c.tenc, x) /\ Hand(s, x)
                \/ Refuse
             /\ UNCHANGED <<config, bound>>
      BY <1>1 DEF WriteProtected
    <2>2. TracksKept
      BY <2>1, CountKeeps
    <2>3. CASE Refuse
      <3>1. UNCHANGED <<config, pending, fragments, handed>> /\ accepted' \in BOOLEAN
        BY <2>1, <2>3 DEF Refuse
      <3>2. DOMAIN pending' = Stream /\ DOMAIN fragments' = Stream /\ DOMAIN handed' = Stream
        BY <3>1 DEF StoreInv
      <3> QED
        BY <2>1, <2>2, <3>1, <3>2, LockedStands, StoreKeeps
    <2>4. ASSUME NEW x \in Protect(s, c, len, map), MuxerAccepts(c.tenc, x), Hand(s, x)
          PROVE  StoreInv' /\ LockedInv'
      <3>1. PICK p \in config[s] : KeptBy(p, c)
        BY DEF StoreInv
      <3>2. config[s] = {p} /\ Protection(p)
        BY <3>1, ConfigIs
      <3>3. Locked(p, x)
        BY <2>4, <3>1, <3>2, ProtectLocks
      <3>4. \A r \in config[s] : Locked(r, x)
        BY <3>2, <3>3
      <3>5. /\ LockedInv' /\ accepted' \in BOOLEAN
            /\ DOMAIN pending' = Stream /\ DOMAIN fragments' = Stream /\ DOMAIN handed' = Stream
        BY <2>1, <2>4, <3>4, HandKeeps
      <3> QED
        BY <2>1, <2>2, <3>5, StoreKeeps
    <2> QED
      BY <2>1, <2>3, <2>4
  <1>2. CASE WriteClear(s, len, map)
    <2> DEFINE x == [id |-> calls, len |-> len, map |-> {}, iv |-> {}, group |-> {},
                     store |-> <<>>, data |-> Plaintext(len)]
    <2>1. /\ UNCHANGED <<config, tracks>> /\ (Refuse \/ Hand(s, x))
          /\ config[s] = {}
      BY <1>2 DEF WriteClear, StoreInv
    <2> HIDE DEF x
    <2>2. TracksKept
      BY <2>1 DEF TracksKept, StoreInv
    <2>3. CASE Refuse
      <3>1. UNCHANGED <<config, pending, fragments, handed>> /\ accepted' \in BOOLEAN
        BY <2>1, <2>3 DEF Refuse
      <3>2. DOMAIN pending' = Stream /\ DOMAIN fragments' = Stream /\ DOMAIN handed' = Stream
        BY <3>1 DEF StoreInv
      <3> QED
        BY <2>1, <2>2, <3>1, <3>2, LockedStands, StoreKeeps
    <2>4. CASE Hand(s, x)
      <3>1. \A r \in config[s] : Locked(r, x)
        BY <2>1
      <3>2. /\ LockedInv' /\ accepted' \in BOOLEAN
            /\ DOMAIN pending' = Stream /\ DOMAIN fragments' = Stream /\ DOMAIN handed' = Stream
        BY <2>1, <2>4, <3>1, HandKeeps
      <3> QED
        BY <2>1, <2>2, <3>2, StoreKeeps
    <2> QED
      BY <2>1, <2>3, <2>4
  <1> QED
    BY <1>1, <1>2 DEF WritePacket

LEMMA RotateStores ==
    ASSUME StoreInv, LockedInv, calls < MaxCalls, calls' = calls + 1,
           NEW s \in Stream, NEW kid, NEW key, NEW iv \in ConstantIvs,
           RotateKey(s, kid, key, iv)
    PROVE  StoreInv' /\ LockedInv'
  <1>1. IsOption(iv)
    BY VectorsAssumption, OptionOf
  <1>2. /\ tracks' = [tracks EXCEPT ![s] = {RotateAfter(c, kid, key, iv) : c \in @}]
        /\ accepted' \in BOOLEAN
        /\ UNCHANGED <<config, pending, fragments, handed>>
    BY DEF RotateKey
  <1>3. DOMAIN tracks' = Stream /\ tracks'[s] = {RotateAfter(c, kid, key, iv) : c \in tracks[s]}
        /\ \A r \in Stream : r # s => tracks'[r] = tracks[r]
    BY <1>2 DEF StoreInv
  <1>4. ASSUME NEW p, NEW c, KeptBy(p, c)
        PROVE  KeptBy(p, RotateAfter(c, kid, key, iv))
    <2> DEFINE keys == [k \in DOMAIN c.keys \cup {kid} |-> IF k = kid THEN key ELSE c.keys[k]]
               stored == [c EXCEPT !.keys = keys]
               g == Override(p.tenc, kid, iv)
    <2>1. DOMAIN c = CryptoFields /\ c.tenc = p.tenc
      BY <1>4 DEF KeptBy
    <2>2. DOMAIN keys = DOMAIN c.keys \cup {kid}
      OBVIOUS
    <2> HIDE DEF keys
    <2>3. StoreKey(c, kid, key) = stored
      BY DEF StoreKey, keys
    <2>4. /\ DOMAIN stored = CryptoFields /\ stored = [f \in CryptoFields |-> stored[f]]
          /\ stored.scheme = c.scheme /\ stored.tenc = c.tenc /\ stored.keys = keys
          /\ stored.ivCounter = c.ivCounter /\ stored.override = c.override
      BY <2>1 DEF CryptoFields
    <2>5. OverrideKept(p, stored)
      <3> HIDE DEF stored
      <3> QED
        BY <1>4, <2>2, <2>4 DEF KeptBy, OverrideKept
    <2>6. KeptBy(p, stored)
      <3> HIDE DEF stored
      <3> QED
        BY <1>4, <2>2, <2>4, <2>5 DEF KeptBy
    <2>7. CASE RotateAfter(c, kid, key, iv) = c \/ RotateAfter(c, kid, key, iv) = stored
      BY <1>4, <2>6, <2>7
    <2>8. ASSUME NEW o, RotateAfter(c, kid, key, iv) = [stored EXCEPT !.override = o],
                 o = {} \/ (o = {g} /\ Serializable(g))
          PROVE  KeptBy(p, RotateAfter(c, kid, key, iv))
      <3> DEFINE b == [stored EXCEPT !.override = o]
      <3> HIDE DEF stored
      <3>1. /\ DOMAIN b = CryptoFields /\ b = [f \in CryptoFields |-> b[f]]
            /\ b.scheme = stored.scheme /\ b.tenc = stored.tenc /\ b.keys = stored.keys
            /\ b.ivCounter = stored.ivCounter /\ b.override = o
        BY <2>4 DEF CryptoFields
      <3> HIDE DEF b
      <3>2. kid \in DOMAIN b.keys
        BY <2>2, <2>4, <3>1
      <3>3. OverrideKept(p, b)
        BY <1>1, <2>8, <3>1, <3>2 DEF OverrideKept
      <3>4. KeptBy(p, b)
        BY <2>6, <3>1, <3>3 DEF KeptBy
      <3> QED
        BY <2>8, <3>4 DEF b
    <2>9. \/ RotateAfter(c, kid, key, iv) = c \/ RotateAfter(c, kid, key, iv) = stored
          \/ \E o : /\ RotateAfter(c, kid, key, iv) = [stored EXCEPT !.override = o]
                    /\ o = {} \/ (o = {g} /\ Serializable(g))
      <3>1. CASE ~TakesVector(c, iv)
        BY <3>1 DEF RotateAfter
      <3>2. CASE TakesVector(c, iv) /\ ~RotateAccepts(c, kid, iv)
        BY <2>3, <3>2 DEF RotateAfter
      <3>3. CASE TakesVector(c, iv) /\ RotateAccepts(c, kid, iv) /\ ToDefault(c, kid, iv)
        <4> HIDE DEF stored
        <4>1. RotateAfter(c, kid, key, iv) = [stored EXCEPT !.override = {}]
          BY <2>3, <3>3 DEF RotateAfter
        <4> QED
          BY <4>1
      <3>4. CASE TakesVector(c, iv) /\ RotateAccepts(c, kid, iv) /\ ~ToDefault(c, kid, iv)
        <4> HIDE DEF stored
        <4>1. RotateAfter(c, kid, key, iv) = [stored EXCEPT !.override = {g}]
          BY <2>1, <2>3, <3>4 DEF RotateAfter
        <4>2. Serializable(g)
          BY <2>1, <3>4 DEF RotateAccepts
        <4> QED
          BY <4>1, <4>2
      <3> QED
        BY <3>1, <3>2, <3>3, <3>4
    <2> QED
      BY <2>7, <2>8, <2>9
  <1>5. TracksKept
    <2>1. ASSUME NEW r \in Stream, NEW b \in tracks'[r]
          PROVE  \E c \in tracks[r] : \A p : Protection(p) /\ KeptBy(p, c) => KeptBy(p, b)
      <3>1. CASE r # s
        BY <1>3, <2>1, <3>1
      <3>2. CASE r = s
        <4>1. PICK c \in tracks[s] : b = RotateAfter(c, kid, key, iv)
          BY <1>3, <2>1, <3>2
        <4> QED
          BY <1>4, <3>2, <4>1
      <3> QED
        BY <3>1, <3>2
    <2>2. \A r \in Stream : tracks'[r] = {} => tracks[r] = {}
      BY <1>3
    <2> QED
      BY <1>3, <2>1, <2>2 DEF TracksKept
  <1>6. DOMAIN pending' = Stream /\ DOMAIN fragments' = Stream /\ DOMAIN handed' = Stream
    BY <1>2 DEF StoreInv
  <1> QED
    BY <1>2, <1>5, <1>6, LockedStands, StoreKeeps

LEMMA ResetStores ==
    ASSUME StoreInv, LockedInv, calls < MaxCalls, calls' = calls + 1,
           NEW s \in Stream, ResetToDefaultKey(s)
    PROVE  StoreInv' /\ LockedInv'
  <1>1. /\ tracks' = [tracks EXCEPT ![s] = {[c EXCEPT !.override = {}] : c \in @}]
        /\ accepted' \in BOOLEAN
        /\ UNCHANGED <<config, pending, fragments, handed>>
    BY DEF ResetToDefaultKey
  <1>2. DOMAIN tracks' = Stream /\ tracks'[s] = {[c EXCEPT !.override = {}] : c \in tracks[s]}
        /\ \A r \in Stream : r # s => tracks'[r] = tracks[r]
    BY <1>1 DEF StoreInv
  <1>3. ASSUME NEW p, NEW c, KeptBy(p, c)
        PROVE  KeptBy(p, [c EXCEPT !.override = {}])
    <2> DEFINE b == [c EXCEPT !.override = {}]
    <2>1. DOMAIN c = CryptoFields
      BY <1>3 DEF KeptBy
    <2>2. /\ DOMAIN b = CryptoFields /\ b.scheme = c.scheme /\ b.tenc = c.tenc
          /\ b.keys = c.keys /\ b.override = {} /\ b.ivCounter = c.ivCounter
          /\ b = [f \in CryptoFields |-> b[f]]
      BY <2>1 DEF CryptoFields
    <2> HIDE DEF b
    <2>3. KeptBy(p, b)
      BY <1>3, <2>2 DEF KeptBy, OverrideKept
    <2> QED
      BY <2>3 DEF b
  <1>4. TracksKept
    <2>1. ASSUME NEW r \in Stream, NEW b \in tracks'[r]
          PROVE  \E c \in tracks[r] : \A p : Protection(p) /\ KeptBy(p, c) => KeptBy(p, b)
      <3>1. CASE r # s
        BY <1>2, <2>1, <3>1
      <3>2. CASE r = s
        <4>1. PICK c \in tracks[s] : b = [c EXCEPT !.override = {}]
          BY <1>2, <2>1, <3>2
        <4> QED
          BY <1>3, <3>2, <4>1
      <3> QED
        BY <3>1, <3>2
    <2>2. \A r \in Stream : tracks'[r] = {} => tracks[r] = {}
      BY <1>2, ZenonT(60), SMTT(30)
    <2> QED
      BY <1>2, <2>1, <2>2 DEF TracksKept
  <1>5. DOMAIN pending' = Stream /\ DOMAIN fragments' = Stream /\ DOMAIN handed' = Stream
    BY <1>1 DEF StoreInv
  <1> QED
    BY <1>1, <1>4, <1>5, LockedStands, StoreKeeps

LEMMA InitStores == Init => StoreInv /\ LockedInv
  <1> SUFFICES ASSUME Init PROVE StoreInv /\ LockedInv
    OBVIOUS
  <1>1. /\ config \in Configs
        /\ tracks = [s \in Stream |-> {TrackCrypto(p) : p \in config[s]}]
        /\ pending = [s \in Stream |-> <<>>] /\ fragments = [s \in Stream |-> <<>>]
        /\ handed = [s \in Stream |-> <<>>] /\ accepted \in BOOLEAN
    BY DEF Init, New
  <1>2. calls \in 0..MaxCalls
    BY BoundsAssumption DEF Init
  <1>3. ASSUME NEW p
        PROVE  KeptBy(p, TrackCrypto(p))
    <2> DEFINE c == TrackCrypto(p)
    <2>1. /\ DOMAIN c = CryptoFields /\ c.scheme = p.scheme /\ c.tenc = p.tenc
          /\ c.keys = [kid \in {p.tenc.kid} |-> p.key] /\ c.override = {} /\ c.ivCounter = 1
          /\ c = [f \in CryptoFields |-> c[f]]
      BY DEF TrackCrypto, CryptoFields
    <2> HIDE DEF c
    <2>2. p.tenc.kid \in DOMAIN c.keys
      BY <2>1
    <2>3. KeptBy(p, c)
      BY <2>1, <2>2 DEF KeptBy, OverrideKept
    <2> QED
      BY <2>3 DEF c
  <1>4. StoreInv
    <2>1. \A s \in Stream : tracks[s] = {} => config[s] = {}
      BY <1>1
    <2>2. \A s \in Stream : \A c \in tracks[s] : \E p \in config[s] : KeptBy(p, c)
      <3>1. \A s \in Stream : \A c \in tracks[s] : \E p \in config[s] : c = TrackCrypto(p)
        BY <1>1
      <3> QED
        BY <1>3, <3>1
    <2> QED
      BY <1>1, <1>2, <2>1, <2>2 DEF StoreInv
  <1>5. LockedInv
    BY <1>1, LockedEmpty DEF LockedInv
  <1> QED
    BY <1>4, <1>5

LEMMA NextStores ==
    StoreInv /\ LockedInv /\ [Next]_vars => StoreInv' /\ LockedInv'
  <1> SUFFICES ASSUME StoreInv, LockedInv, [Next]_vars PROVE StoreInv' /\ LockedInv'
    OBVIOUS
  <1>1. CASE UNCHANGED vars
    BY <1>1 DEF vars, StoreInv, LockedInv
  <1>2. CASE Next
    BY <1>2, WriteStores, RotateStores, ResetStores DEF Next
  <1> QED
    BY <1>1, <1>2

LEMMA TypeFollows == StoreInv => PackagerTypeOK
  <1> SUFFICES ASSUME StoreInv PROVE PackagerTypeOK
    OBVIOUS
  <1>1. ASSUME NEW s \in Stream, NEW c \in tracks[s]
        PROVE  /\ c.ivCounter \in Nat \ {0}
               /\ \A g \in c.override : Serializable(g) /\ g.ivSize = c.tenc.ivSize
               /\ EffectiveTenc(c.tenc, c.override).kid \in DOMAIN c.keys
    <2>1. PICK p \in config[s] : KeptBy(p, c)
      BY <1>1 DEF StoreInv
    <2>2. Protection(p)
      BY <2>1, ConfigIs
    <2> DEFINE tenc == EffectiveTenc(c.tenc, c.override)
    <2>3. /\ tenc.kid \in DOMAIN c.keys
          /\ \A g \in c.override : Serializable(g) /\ g.ivSize = p.tenc.ivSize
      BY <2>1, <2>2, EffectiveIs
    <2> QED
      BY <2>1, <2>3 DEF KeptBy
  <1> QED
    BY <1>1 DEF PackagerTypeOK, StoreInv

LEMMA DecryptionFollows == StoreInv /\ LockedInv => DecryptsBack
  <1> SUFFICES ASSUME StoreInv, LockedInv, NEW s \in Stream, NEW n \in DOMAIN fragments[s],
                      NEW k \in DOMAIN fragments[s][n].samples, config[s] # {}
               PROVE  ReadBack(s, fragments[s][n], k) = {Plaintext(fragments[s][n].samples[k].len)}
    BY DEF DecryptsBack
  <1>1. PICK p \in config[s] : TRUE
    OBVIOUS
  <1>2. config[s] = {p} /\ FragmentsLocked(p, fragments[s])
    BY <1>1, ConfigIs DEF LockedInv
  <1>3. PICK F : fragments[s] \in Seq(F) /\ \A f \in F : \E q : LockedSeq(p, q) /\ f = Fragment(q)
    BY <1>2 DEF FragmentsLocked
  <1>4. PICK q : LockedSeq(p, q) /\ fragments[s][n] = Fragment(q)
    BY <1>3
  <1>5. Fragment(q).samples = q
    BY DEF Fragment
  <1>6. k \in 1..Len(q)
    BY <1>4, <1>5, LockedAt
  <1> QED
    BY <1>2, <1>4, <1>5, <1>6, LockedReads

LEMMA OctetsFollow == StoreInv /\ LockedInv => CiphersWhatItShould
  <1> SUFFICES ASSUME StoreInv, LockedInv, NEW s \in Stream, NEW k \in DOMAIN handed[s],
                      NEW p \in config[s], NEW i \in 1..handed[s][k].len
               PROVE  (handed[s][k].data[i] # Octet(<<i>>))
                        = OctetEncrypted(p.scheme, EffectiveTenc(p.tenc, handed[s][k].group),
                                         handed[s][k], i - 1)
    BY DEF CiphersWhatItShould
  <1> DEFINE x == handed[s][k]
             tenc == EffectiveTenc(p.tenc, x.group)
             d == Scheme(p, tenc)
  <1>1. Locked(p, x)
    <2>1. LockedSeq(p, handed[s])
      BY DEF LockedInv
    <2> QED
      BY <2>1, LockedAt
  <1>2. d.scheme = p.scheme /\ d.tenc = tenc
    BY DEF Scheme
  <1>3. \A j \in 1..x.len : x.data[j] # Octet(<<j>>) <=> OctetEncrypted(d.scheme, d.tenc, x, j - 1)
    BY <1>1, LockedOpens
  <1>4. OctetEncrypted(p.scheme, tenc, x, i - 1) \in BOOLEAN
    BY DEF OctetEncrypted
  <1> HIDE DEF x, tenc, d
  <1>5. x.data[i] # Octet(<<i>>) <=> OctetEncrypted(p.scheme, tenc, x, i - 1)
    BY <1>2, <1>3 DEF x
  <1> QED
    BY <1>4, <1>5, Zenon DEF x, tenc

(* The crypto state of a protected stream keeps its type, and the KID in   *)
(* force always has a key: for every behaviour of the packager.            *)
THEOREM PackagerTyped == Spec => []PackagerTypeOK
  <1> QED
    BY InitStores, NextStores, TypeFollows, PTL DEF Spec

(* Every sample of a fragment decrypts, with what the fragment says of it  *)
(* and the keys held when it was made, to the packet it came from.         *)
THEOREM PacketsDecryptBack == Spec => []DecryptsBack
  <1> QED
    BY InitStores, NextStores, DecryptionFollows, PTL DEF Spec

(* The cipher changes the octets the scheme, the pattern and the map call  *)
(* for, and no other.                                                      *)
THEOREM OctetsCiphered == Spec => []CiphersWhatItShould
  <1> QED
    BY InitStores, NextStores, OctetsFollow, PTL DEF Spec
=============================================================================
