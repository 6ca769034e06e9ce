----------------------------- MODULE CencScheme ------------------------------
(***************************************************************************)
(* The CENC protection schemes and the plan of a sample's cipher           *)
(* (src/cenc.rs): which octets of a sample stay clear and which feed the   *)
(* block cipher, as a sequence of steps.                                   *)
(*                                                                         *)
(* Parameters are a record [version, isProtected, ivSize, kid, crypt,      *)
(* skip, constantIv], constantIv an option; a cipher block has BlockBytes  *)
(* octets (16 in the code).  A subsample is a pair <<clear, protected>>.   *)
(* What can fail returns a set of at most one result, {} being the error.  *)
(***************************************************************************)
EXTENDS Lists

CONSTANT BlockBytes
ASSUME BlockBytesAssumption == BlockBytes \in Nat \ {0}

(***************************************************************************)
(* Schemes.  Any other four-character code is an unknown scheme, of which  *)
(* nothing is required and nothing can be planned.                         *)
(***************************************************************************)
CipherMode ==
    [scheme \in {"cenc", "cens", "cbc1", "cbcs"} |->
        IF scheme \in {"cenc", "cens"} THEN "ctr" ELSE "cbc"]
UsesPattern(scheme) == scheme \in {"cens", "cbcs"}
RequiredTencVersions(scheme) ==
    IF scheme \in {"cenc", "cbc1"} THEN {0}
    ELSE IF scheme \in {"cens", "cbcs"} THEN {1} ELSE 0..255

(* CencSchemeDecision::new: a scheme with parameters that suit it.         *)
Decision(scheme, tenc) ==
    {d \in {[scheme |-> scheme, tenc |-> tenc]} :
        /\ tenc.version \in RequiredTencVersions(scheme)
        /\ UsesPattern(scheme) => tenc.crypt # 0 \/ tenc.skip # 0}

IvSupply(params) ==
    IF params.isProtected # 1 THEN "none"
    ELSE IF params.ivSize = 0 THEN "constant" ELSE "sample"

(* What build_seig_entry and build_tenc_box ask of the parameters alike:   *)
(* sizes the standard knows, a constant IV exactly where one is needed.    *)
(* The pattern must fit two 4-bit fields.                                  *)
Serializable(params) ==
    LET needsConstant == IvSupply(params) = "constant"
    IN  /\ params.crypt <= 15 /\ params.skip <= 15
        /\ params.ivSize \in {0, 8, 16}
        /\ needsConstant = (params.constantIv # {})
        /\ \A iv \in params.constantIv : iv.len \in {8, 16}
TencSerializable(tenc) ==
    /\ Serializable(tenc)
    /\ tenc.version <= 1
    /\ tenc.version = 0 => tenc.crypt = 0 /\ tenc.skip = 0

(***************************************************************************)
(* The cipher plan.                                                        *)
(***************************************************************************)
Step(offset, len, kind, restart) ==
    [offset |-> offset, len |-> len, kind |-> kind, restart |-> restart]
ClearRun(offset, len) ==
    IF len = 0 THEN <<>> ELSE <<Step(offset, len, "clear", FALSE)>>
EncryptedRun(offset, len, restart) ==
    IF len = 0 THEN <<>> ELSE <<Step(offset, len, "encrypted", restart)>>

Whole(len) == BlockBytes * (len \div BlockBytes)

(* Without a subsample map: everything, but for the tail that fills no     *)
(* block unless the scheme is plain counter mode.                          *)
FullSamplePlan(d, len) ==
    LET blocksOnly == CipherMode[d.scheme] = "cbc" \/ UsesPattern(d.scheme)
        encrypted == IF blocksOnly THEN Whole(len) ELSE len
    IN  EncryptedRun(0, encrypted, FALSE) \o ClearRun(encrypted, len - encrypted)

(* Faulty: a run of the pattern that the range cuts short is encrypted to  *)
(* its last octet.                                                         *)
PatternRunWhole(offset, len, crypt, skip, restart) ==
    LET run[at \in 0..len] ==
          LET left == len - at
              full == IF left < crypt THEN left ELSE crypt
              skipped == IF left - full < skip THEN left - full ELSE skip
          IN  IF left = 0 THEN <<>>
              ELSE EncryptedRun(offset + at, full, restart /\ at = 0)
                   \o ClearRun(offset + at + full, skipped)
                   \o run[at + full + skipped]
    IN  IF crypt = 0 THEN ClearRun(offset, len) ELSE run[0]

(* plan_pattern_run, crypt and skip in octets.  A crypt run that cannot    *)
(* be filled with whole blocks ends the pattern; what is left is clear.    *)
PatternRun(offset, len, crypt, skip, restart) ==
    LET run[at \in 0..len] ==
          LET left == len - at
              full == IF Whole(left) < crypt THEN Whole(left) ELSE crypt
              skipped == IF left - full < skip THEN left - full ELSE skip
          IN  IF left = 0 THEN <<>>
              ELSE EncryptedRun(offset + at, full, restart /\ at = 0)
                   \o (IF full < crypt THEN ClearRun(offset + at + full, left - full)
                       ELSE ClearRun(offset + at + full, skipped)
                            \o run[at + full + skipped])
    IN  IF crypt = 0 THEN ClearRun(offset, len) ELSE run[0]

SubsampleBytes(sub) == sub[1] + sub[2]
SubsampleStart(subs, n) == SumOf(SubSeq(subs, 1, n - 1), SubsampleBytes)

(* The steps of one subsample.                                             *)
SubsamplePlan(d, start, sub) ==
    LET at == start + sub[1]
    IN  ClearRun(start, sub[1]) \o
        IF UsesPattern(d.scheme)
        THEN PatternRun(at, sub[2], d.tenc.crypt * BlockBytes,
                        d.tenc.skip * BlockBytes, d.scheme = "cbcs")
        ELSE EncryptedRun(at, sub[2], FALSE)

MapCovers(subs, len) ==
    /\ \A k \in DOMAIN subs : subs[k] # <<0, 0>>
    /\ SubsampleStart(subs, Len(subs) + 1) = len

MapPlan(d, subs) ==
    FlattenSeq([k \in DOMAIN subs |->
                   SubsamplePlan(d, SubsampleStart(subs, k), subs[k])])

(* plan_sample_cipher; `map` is an option, an empty subsample list being a *)
(* map that covers only an empty sample.                                   *)
PlanSampleCipher(d, map, len) ==
    IF IvSupply(d.tenc) = "none" \/ d.scheme \notin DOMAIN CipherMode THEN {}
    ELSE IF map = {} THEN {FullSamplePlan(d, len)}
    ELSE {MapPlan(d, subs) : subs \in {s \in map : MapCovers(s, len)}}
=============================================================================
