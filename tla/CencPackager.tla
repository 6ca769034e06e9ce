---------------------------- MODULE CencPackager -----------------------------
(***************************************************************************)
(* CencFragmentPackager (src/cenc_packager.rs): plaintext packets come in, *)
(* encrypted samples with their auxiliary records and key-rotation groups  *)
(* go to a FragmentedMuxer.                                                *)
(*                                                                         *)
(* Of the muxer only what the packager relies on is here: what it accepts  *)
(* of a protected sample (queue_packet_protected, src/frag.rs), and a      *)
(* flush after every FragmentPackets samples of a track that writes their  *)
(* CENC boxes; module FragMuxer has the rest, set_next_segment_pssh        *)
(* included, which the packager only passes on.  A call that is refused    *)
(* says so in `accepted`.                                                  *)
(***************************************************************************)
EXTENDS CencCipher, TrackCenc

CONSTANTS
    Stream,           \* the streams of the movie
    Configs,          \* the protections to open with: per stream an option
                      \* of [scheme, tenc, key]
    Kids, Keys,       \* key identifiers and keys of rotations
    ConstantIvs,      \* constant vectors a rotation may bring, as options
    Lengths,          \* plaintext lengths of the packets
    Maps,             \* subsample maps, as options
    FragmentPackets,  \* cadence of the muxer, in samples of a track
    MaxCalls, MaxWrites  \* bounds: calls, packets of a stream

ASSUME BoundsAssumption == MaxCalls \in Nat /\ MaxWrites \in Nat
ASSUME ConfigsAssumption ==
    \A c \in Configs : \A s \in Stream :
        /\ \A p, q \in c[s] : p = q
        /\ \A p \in c[s] : /\ p.tenc.crypt \in Nat /\ p.tenc.skip \in Nat
                           /\ \A v, w \in p.tenc.constantIv : v = w
ASSUME PacketsAssumption ==
    /\ Lengths \subseteq Nat
    /\ \A map \in Maps : map \subseteq Seq(Nat \X Nat) /\ \A m, n \in map : m = n
ASSUME VectorsAssumption == \A iv \in ConstantIvs : \A v, w \in iv : v = w

VARIABLES
    config,      \* the protection, fixed when the packager is built
    tracks,      \* per stream: TrackCrypto, an option
    pending,     \* per stream: samples handed to the muxer, not yet flushed
    fragments,   \* per stream: the fragments in the file
    handed,      \* per stream: every sample the muxer took (history)
    accepted,    \* whether the last call succeeded
    calls,       \* number of calls
    bound        \* per stream: <<KID, key>> accepted calls gave (history)

vars == <<config, tracks, pending, fragments, handed, accepted, calls, bound>>

(* new: a stream opens when its parameters suit the scheme and can be      *)
(* written to its sinf (build_sinf_box).                                   *)
Opens(p) == Decision(p.scheme, p.tenc) # {} /\ TencSerializable(p.tenc)
TrackCrypto(p) ==
    [scheme |-> p.scheme, tenc |-> p.tenc,
     keys |-> [kid \in {p.tenc.kid} |-> p.key],
     override |-> {}, ivCounter |-> 1]

New ==
    \E c \in Configs :
        /\ \A s \in Stream : \A p \in c[s] : Opens(p)
        /\ config = c
        /\ tracks = [s \in Stream |-> {TrackCrypto(p) : p \in c[s]}]
        /\ bound = [s \in Stream |-> {<<p.tenc.kid, p.key>> : p \in c[s]}]

Init ==
    /\ New
    /\ pending = [s \in Stream |-> <<>>]
    /\ fragments = [s \in Stream |-> <<>>]
    /\ handed = [s \in Stream |-> <<>>]
    /\ accepted = TRUE
    /\ calls = 0

(* effective_tenc: the defaults, or the override in their place.           *)
EffectiveTenc(tenc, override) ==
    IF override = {} THEN tenc
    ELSE LET g == CHOOSE g \in override : TRUE
         IN  [version |-> tenc.version, isProtected |-> g.isProtected,
              ivSize |-> g.ivSize, kid |-> g.kid, crypt |-> g.crypt,
              skip |-> g.skip, constantIv |-> g.constantIv]

(* Faulty: a rotation starts the counter over with the key. *)
NextIvPerKey(c) ==
    [len |-> EffectiveTenc(c.tenc, c.override).ivSize,
     high |-> IF c.override = {} THEN c.ivCounter ELSE 1, low |-> 0]

(* next_iv: the counter, in the half the block counter leaves alone.       *)
NextIv(c) ==
    [len |-> EffectiveTenc(c.tenc, c.override).ivSize,
     high |-> c.ivCounter, low |-> 0]

(***************************************************************************)
(* The muxer.                                                              *)
(***************************************************************************)
MapOf(sample) == IF sample.map = {} THEN <<>> ELSE CHOOSE m \in sample.map : TRUE
VectorSize(sample) == IF sample.iv = {} THEN 0 ELSE (CHOOSE v \in sample.iv : TRUE).len

(* queue_packet_protected: an override must be writable and keep the width *)
(* of the vectors; the vector must be the one tenc asks for; a map covers. *)
MuxerAccepts(tenc, sample) ==
    /\ \A g \in sample.group :
          Serializable(g) /\ (g.isProtected = 1 => g.ivSize = tenc.ivSize)
    /\ IvSupply(tenc) # "none" /\ VectorSize(sample) = tenc.ivSize
    /\ MapOf(sample) # <<>> =>
          SubsampleStart(MapOf(sample), Len(MapOf(sample)) + 1) = Len(sample.data)

AuxRecordOf(sample) ==
    [of |-> sample.id, iv |-> VectorSize(sample), subs |-> Len(MapOf(sample)),
     vector |-> sample.iv, map |-> MapOf(sample)]
Fragment(samples) ==
    [samples |-> samples,
     cenc |-> CencBoxes([k \in DOMAIN samples |-> AuxRecordOf(samples[k])], 0),
     groups |-> SeigGroups([k \in DOMAIN samples |-> samples[k].group])]

(* A full queue is flushed.  Auxiliary data too large for its box fails    *)
(* the call, with the sample queued all the same.                          *)
Flushable(q) ==
    AuxFits([k \in DOMAIN q |-> AuxRecordOf(q[k])], q)
Hand(s, sample) ==
    LET q == Append(pending[s], sample)
        full == Len(q) >= FragmentPackets
        flushed == full /\ Flushable(q)
    IN  /\ pending' = [pending EXCEPT ![s] = IF flushed THEN <<>> ELSE q]
        /\ fragments' = [fragments EXCEPT
              ![s] = IF flushed THEN Append(@, Fragment(q)) ELSE @]
        /\ handed' = [handed EXCEPT ![s] = Append(@, sample)]
        /\ accepted' = (full => flushed)

(***************************************************************************)
(* The calls.                                                              *)
(***************************************************************************)
Refuse == accepted' = FALSE /\ UNCHANGED <<pending, fragments, handed>>

(* The vector a protected sample gets, an option, and its cost.            *)
VectorOf(c) ==
    IF IvSupply(EffectiveTenc(c.tenc, c.override)) = "sample" THEN {NextIv(c)}
    ELSE {}
CountVector(c) == [c EXCEPT !.ivCounter = @ + Cardinality(VectorOf(c))]

(* Faulty: the key is always the one of the default KID. *)
ProtectDefaultKey(s, c, len, map) ==
    LET tenc == EffectiveTenc(c.tenc, c.override)
    IN  UNION {{[id |-> calls, len |-> len, map |-> map, iv |-> VectorOf(c),
                 group |-> c.override, store |-> c.keys, data |-> octets]
                 : octets \in EncryptSample(d, c.keys[c.tenc.kid], VectorOf(c),
                                            map, Plaintext(len))}
               : d \in Decision(c.scheme, tenc)}

(* The sample write_packet_inner makes of a packet, an option: none when   *)
(* the cipher refuses.                                                     *)
Protect(s, c, len, map) ==
    LET tenc == EffectiveTenc(c.tenc, c.override)
    IN  UNION {{[id |-> calls, len |-> len, map |-> map, iv |-> VectorOf(c),
                 group |-> c.override, store |-> c.keys, data |-> octets]
                 : octets \in EncryptSample(d, c.keys[tenc.kid], VectorOf(c),
                                            map, Plaintext(len))}
               : d \in Decision(c.scheme, tenc)}

(* write_packet and write_packet_with_subsamples on a protected stream.    *)
(* The counter has moved on before the cipher may refuse.                  *)
WriteProtected(s, len, map) ==
    \E c \in tracks[s] :
        /\ tracks' = [tracks EXCEPT ![s] = {CountVector(c)}]
        /\ LET samples == Protect(s, c, len, map)
           IN  \/ \E x \in samples : MuxerAccepts(c.tenc, x) /\ Hand(s, x)
               \/ ~(\E x \in samples : MuxerAccepts(c.tenc, x)) /\ Refuse
        /\ UNCHANGED <<config, bound>>

(* An unprotected stream passes through, but takes no subsample map.       *)
WriteClear(s, len, map) ==
    /\ tracks[s] = {}
    /\ IF map # {} THEN Refuse
       ELSE Hand(s, [id |-> calls, len |-> len, map |-> {}, iv |-> {},
                     group |-> {}, store |-> <<>>, data |-> Plaintext(len)])
    /\ UNCHANGED <<config, tracks, bound>>

WritePacket(s, len, map) ==
    /\ Len(handed[s]) < MaxWrites
    /\ WriteProtected(s, len, map) \/ WriteClear(s, len, map)

(* Faulty: takes every generated vector to have 8 octets. *)
OverrideEightOctets(tenc, kid, constantIv) ==
    [crypt |-> tenc.crypt, skip |-> tenc.skip, isProtected |-> 1,
     ivSize |-> IF constantIv = {} THEN 8 ELSE 0, kid |-> kid,
     constantIv |-> constantIv]

Override(tenc, kid, constantIv) ==
    [crypt |-> tenc.crypt, skip |-> tenc.skip, isProtected |-> 1,
     ivSize |-> tenc.ivSize, kid |-> kid, constantIv |-> constantIv]

StoreKey(c, kid, key) ==
    [c EXCEPT !.keys = [k \in DOMAIN @ \cup {kid} |-> IF k = kid THEN key ELSE @[k]]]

(* A constant vector comes exactly when the track uses one; back to the    *)
(* default needs no override; any other must be writable.                  *)
TakesVector(c, iv) == (IvSupply(c.tenc) = "constant") = (iv # {})
ToDefault(c, kid, iv) == kid = c.tenc.kid /\ iv = c.tenc.constantIv
RotateAccepts(c, kid, iv) ==
    TakesVector(c, iv)
      /\ (ToDefault(c, kid, iv) \/ Serializable(Override(c.tenc, kid, iv)))

(* The key is stored before the override is validated.                     *)
RotateAfter(c, kid, key, iv) ==
    IF ~TakesVector(c, iv) THEN c
    ELSE IF ~RotateAccepts(c, kid, iv) THEN StoreKey(c, kid, key)
    ELSE [StoreKey(c, kid, key) EXCEPT
            !.override = IF ToDefault(c, kid, iv) THEN {}
                         ELSE {Override(c.tenc, kid, iv)}]

RotateKey(s, kid, key, iv) ==
    LET accepting == {c \in tracks[s] : RotateAccepts(c, kid, iv)}
    IN  /\ tracks' = [tracks EXCEPT ![s] = {RotateAfter(c, kid, key, iv) : c \in @}]
        /\ accepted' = (accepting # {})
        /\ bound' = [bound EXCEPT ![s] = @ \cup {<<kid, key>> : c \in accepting}]
        /\ UNCHANGED <<config, pending, fragments, handed>>

ResetToDefaultKey(s) ==
    /\ tracks' = [tracks EXCEPT ![s] = {[c EXCEPT !.override = {}] : c \in @}]
    /\ accepted' = (tracks[s] # {})
    /\ UNCHANGED <<config, pending, fragments, handed, bound>>

Next ==
    /\ calls < MaxCalls
    /\ calls' = calls + 1
    /\ \E s \in Stream :
          \/ \E len \in Lengths, map \in Maps : WritePacket(s, len, map)
          \/ \E kid \in Kids, key \in Keys, iv \in ConstantIvs :
                RotateKey(s, kid, key, iv)
          \/ ResetToDefaultKey(s)

Spec == Init /\ [][Next]_vars
=============================================================================
