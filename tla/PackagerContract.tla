-------------------------- MODULE PackagerContract ---------------------------
(***************************************************************************)
(* What the packager promises: to a reader of the file, who has the boxes  *)
(* and a key store, and to the keys, which must not see a vector twice.    *)
(***************************************************************************)
EXTENDS CencPackager

(* Every variable holds a value of its type; the pattern and the sizes of  *)
(* an active override are writable and its vectors fit the track's senc.   *)
PackagerTypeOK ==
    /\ config \in Configs /\ calls \in 0..MaxCalls /\ accepted \in BOOLEAN
    /\ DOMAIN pending = Stream /\ DOMAIN fragments = Stream
    /\ \A s \in Stream : \A c \in tracks[s] :
          /\ c.ivCounter \in Nat \ {0}
          /\ \A g \in c.override :
                Serializable(g) /\ g.ivSize = c.tenc.ivSize
          /\ EffectiveTenc(c.tenc, c.override).kid \in DOMAIN c.keys

(***************************************************************************)
(* The reader of sample k of a fragment: its parameters are the group's or *)
(* the track's, its vector and map those of its senc record, its key the   *)
(* one under that KID.                                                     *)
(***************************************************************************)
ReadTenc(s, f, k) ==
    EffectiveTenc((CHOOSE p \in config[s] : TRUE).tenc, ReadGroup(f.groups, k))
ReadVector(f, k) == UNION {b.senc[k].vector : b \in f.cenc}
ReadMap(f, k) ==
    {m \in {b.senc[k].map : b \in f.cenc} : m # <<>>}
ReadBack(s, f, k) ==
    LET tenc == ReadTenc(s, f, k)
        sample == f.samples[k]
    IN  UNION {DecryptSample(d, sample.store[tenc.kid], ReadVector(f, k),
                             ReadMap(f, k), sample.data)
               : d \in Decision((CHOOSE p \in config[s] : TRUE).scheme, tenc)}

(* Every sample of a fragment decrypts to the packet it was made from,     *)
(* with what the fragment says of it and the keys held when it was made:   *)
(* across rotations within a fragment, under every scheme, with and        *)
(* without a subsample map.                                                *)
DecryptsBack ==
    \A s \in Stream : \A n \in DOMAIN fragments[s] :
        LET f == fragments[s][n]
        IN  \A k \in DOMAIN f.samples :
               config[s] # {} => ReadBack(s, f, k) = {Plaintext(f.samples[k].len)}

(***************************************************************************)
(* Which octets the standard encrypts, octet by octet and without a plan:  *)
(* of a protected range, those in a whole block at the crypt part of the   *)
(* pattern; of a range in plain counter mode, all.                         *)
(***************************************************************************)
RangeOctetEncrypted(scheme, tenc, q, len) ==
    LET b == q \div BlockBytes
    IN  IF UsesPattern(scheme)
        THEN (b + 1) * BlockBytes <= len
             /\ b % (tenc.crypt + tenc.skip) < tenc.crypt
        ELSE TRUE
OctetEncrypted(scheme, tenc, sample, i) ==
    IF sample.map = {}
    THEN (scheme = "cenc") \/ i < BlockBytes * (sample.len \div BlockBytes)
    ELSE LET m == MapOf(sample)
         IN  \E n \in DOMAIN m :
                LET q == i - SubsampleStart(m, n) - m[n][1]
                IN  /\ q \in 0..(m[n][2] - 1)
                    /\ RangeOctetEncrypted(scheme, tenc, q, m[n][2])

(* Exactly the octets the scheme, the pattern and the map call for are     *)
(* changed by the cipher: clear headers stay clear, nothing else does.     *)
CiphersWhatItShould ==
    \A s \in Stream : \A k \in DOMAIN handed[s] : \A p \in config[s] :
        LET sample == handed[s][k]
            tenc == EffectiveTenc(p.tenc, sample.group)
        IN  \A i \in 1..sample.len :
               (sample.data[i] # Octet(<<i>>))
                   = OctetEncrypted(p.scheme, tenc, sample, i - 1)

(* No vector of a stream is ever used twice, whatever was refused, rotated *)
(* or reset in between; in counter mode no block of the keystream is.      *)
CounterMode(s) == \A p \in config[s] : p.scheme \in {"cenc", "cens"}
KeystreamBlocks(sample) ==
    {<<m[1], m[2], m[3]>> : m \in UNION {sample.data[i].masks : i \in DOMAIN sample.data}}
VectorsFresh ==
    \A s \in Stream : \A j, k \in DOMAIN handed[s] :
        LET a == handed[s][j]
            b == handed[s][k]
        IN  j # k /\ a.iv # {} /\ b.iv # {} =>
              /\ a.iv # b.iv
              /\ CounterMode(s) => KeystreamBlocks(a) \cap KeystreamBlocks(b) = {}

(* Without an override a sample is encrypted under a key that `new` or an  *)
(* accepted rotation gave the default KID.  A refused rotation has already *)
(* replaced it.                                                            *)
DefaultKeyGiven ==
    \A s \in Stream : \A k \in DOMAIN handed[s] : \A p \in config[s] :
        LET sample == handed[s][k]
        IN  sample.group = {} =>
              <<p.tenc.kid, sample.store[p.tenc.kid]>> \in bound[s]
=============================================================================
