------------------------------- MODULE CencBoxes -------------------------------
(***************************************************************************)
(* The boxes of Common Encryption and of its PIFF predecessor, read and    *)
(* written by src/cenc.rs, and the protection information of a sample      *)
(* entry as src/demux.rs unwraps it.  The parameters of a track or of a    *)
(* group are the records of CencScheme, a constant IV an option of octets. *)
(***************************************************************************)
EXTENDS MediaBoxes, TLC

Cenc == INSTANCE CencScheme WITH BlockBytes <- 16

IvSizes == {0, 8, 16}
Kid == {kid \in Seq(0..255) : Len(kid) = 16}
CencParams ==
    [version : 0..255, crypt : 0..15, skip : 0..15, isProtected : 0..255, ivSize : 0..255,
     kid : Kid, constantIv : SUBSET Seq(0..255)]
(* The scheme's lengths of constant IVs are those of the octets.           *)
Planned(params) == [params EXCEPT !.constantIv = {[len |-> Len(iv)] : iv \in @}]

(***************************************************************************)
(* tenc, and the seig entry of a sample group: the same parameters, in a   *)
(* full box or bare.                                                       *)
(***************************************************************************)
(* The constant IV behind the parameters: an option of the field, which is *)
(* none where the samples have their own.                                  *)
ConstantIv(body, at, params) ==
    LET size == U(body, at, 1)
    IN  IF params.isProtected = 1 /\ params.ivSize = 0
        THEN When(at + 1 <= Len(body) /\ size \in {8, 16} /\ at + 1 + size <= Len(body),
                  {Slice(body, at + 1, size)})
        ELSE When(params.ivSize \in IvSizes, {})
WriteConstantIv(params) ==
    IF params.constantIv = {} THEN <<>>
    ELSE LET iv == CHOOSE octets \in params.constantIv : TRUE IN <<Len(iv)>> \o iv
ReadParams(body, at, version, pattern) ==
    LET params == [version |-> version, crypt |-> pattern \div 16, skip |-> pattern % 16,
                   isProtected |-> U(body, at + 2, 1), ivSize |-> U(body, at + 3, 1),
                   kid |-> Slice(body, at + 4, 16), constantIv |-> {}]
    IN  {[params EXCEPT !.constantIv = iv] : iv \in ConstantIv(body, at + 20, params)}
WriteParams(p) == <<0, 16 * p.crypt + p.skip, p.isProtected, p.ivSize>> \o p.kid \o WriteConstantIv(p)

(* A group has no version: it can always have a pattern.                   *)
ParseSeig(body) == IF Len(body) < 20 THEN {} ELSE ReadParams(body, 0, 1, U(body, 1, 1))
BuildSeigEntry(p) == When(Cenc!Serializable(Planned(p)), WriteParams(p))

ParseTenc(body) ==
    IF Len(body) < 24 THEN {}
    ELSE ReadParams(body, 4, Version(body), IF Version(body) = 0 THEN 0 ELSE U(body, 5, 1))
BuildTenc(p) ==
    When(Cenc!TencSerializable(Planned(p)), WrapBox("tenc", FullBox(p.version, 0) \o WriteParams(p)))

(***************************************************************************)
(* pssh                                                                    *)
(***************************************************************************)
PsshBox == [version : 0..255, system_id : Kid, kids : Seq(Kid), data : Seq(0..255)]
ParsePssh(body) ==
    LET kid_count == IF Version(body) > 0 THEN U(body, 20, 4) ELSE 0
        kids == IF Version(body) > 0 THEN 24 ELSE 20
        at == kids + 16 * kid_count
        size == U(body, at, 4)
    IN  When(/\ Len(body) >= 20 /\ kids <= Len(body)
             /\ kid_count <= (Len(body) - kids) \div 16
             /\ at + 4 <= Len(body) /\ size <= Len(body) - at - 4,
             [version |-> Version(body), system_id |-> Slice(body, 4, 16),
              kids |-> [i \in 1..kid_count |-> Slice(body, kids + 16 * (i - 1), 16)],
              data |-> Slice(body, at + 4, size)])
PsshBody(p) ==
    FullBox(p.version, 0) \o p.system_id
      \o (IF p.version > 0 THEN Num(4, Len(p.kids)) \o Concat(p.kids) ELSE <<>>)
      \o Num(4, Len(p.data)) \o p.data
BuildPssh(p) == When(p.version > 0 \/ p.kids = <<>>, WrapBox("pssh", PsshBody(p)))

(***************************************************************************)
(* senc.  A sample that takes no octet is only counted, up to a limit.     *)
(***************************************************************************)
CountLimit == 1048576
UseSubsamples(flags) == Bit(flags, 1)
SubsampleLayout == <<<<"clear", "u16">>, <<"protected", "u32">>>>
SencSample ==
    [initialization_vector : Seq(0..255), subsamples : Seq(RecordOf(SubsampleLayout))]
SencBox == [flags : Nat, samples : Seq(SencSample)]
ParseSencSampleTable(body, at, subsampled, iv_size) ==
    LET count == U(body, at, 4)
        entry == iv_size + (IF subsampled THEN 2 ELSE 0)
        backed == IF entry = 0 THEN count <= CountLimit
                  ELSE count <= (Len(body) - at - 4) \div entry
        Sample(from) ==
          LET map == from + iv_size
              subs == IF subsampled THEN U(body, map, 2) ELSE 0
              fits == IF subsampled THEN map + 2 <= Len(body) /\ FitRows(body, map + 2, subs, SubsampleLayout)
                      ELSE map <= Len(body)
          IN  When(fits, [row |-> [initialization_vector |-> Slice(body, from, iv_size),
                                   subsamples |-> ReadRows(body, map + 2, subs, SubsampleLayout)],
                          next |-> map + (IF subsampled THEN 2 + 6 * subs ELSE 0)])
    IN  IF at + 4 > Len(body) \/ ~backed THEN {}
        ELSE {list.rows : list \in ReadList(Sample, at + 4, count, CountLimit)}
BuildSencSampleTable(samples, iv_size, subsampled) ==
    LET Sample(s) ==
          When(/\ Len(s.initialization_vector) = iv_size
               /\ IF subsampled THEN Fits(2, Len(s.subsamples)) ELSE s.subsamples = <<>>,
               s.initialization_vector
                 \o (IF subsampled
                     THEN Num(2, Len(s.subsamples)) \o WriteRows(s.subsamples, SubsampleLayout)
                     ELSE <<>>))
    IN  {Num(4, Len(samples)) \o table : table \in BuildAll(Sample, samples)}
SharedIvSize(samples) == IF samples = <<>> THEN 0 ELSE Len(samples[1].initialization_vector)

ParseSenc(body, per_sample_iv_size) ==
    IF per_sample_iv_size \notin IvSizes \/ Len(body) < 8 THEN {}
    ELSE {[flags |-> Flags(body), samples |-> samples] :
            samples \in ParseSencSampleTable(body, 4, UseSubsamples(Flags(body)), per_sample_iv_size)}
BuildSenc(s) ==
    LET iv_size == SharedIvSize(s.samples)
    IN  IF ~Fits(3, s.flags) \/ iv_size \notin IvSizes THEN {}
        ELSE {WrapBox("senc", FullBox(0, s.flags) \o table) :
                table \in BuildSencSampleTable(s.samples, iv_size, UseSubsamples(s.flags))}

(***************************************************************************)
(* PIFF: boxes of type uuid, told by a user type of 16 octets.             *)
(***************************************************************************)
UserType ==
    [tenc |-> <<137, 116, 219, 206, 123, 231, 76, 81, 132, 249, 113, 72, 249, 136, 37, 84>>,
     senc |-> <<162, 57, 79, 82, 90, 155, 79, 20, 162, 68, 108, 66, 124, 100, 141, 244>>,
     pssh |-> <<208, 138, 79, 24, 16, 243, 74, 130, 182, 200, 50, 216, 171, 161, 131, 211>>]
WrapUuid(user_type, body) == WrapBox("uuid", user_type \o body)
PiffLayout == <<<<"algorithm_id", "u24">>, <<"iv_size", "u8">>>>
PiffTencBox == [algorithm_id : Nat, iv_size : 0..255, kid : Kid]
ReadPiff(body, at) == [kid |-> Slice(body, at + 4, 16)] @@ ReadFields(body, at, PiffLayout)
WritePiff(p) == WriteFields(p, PiffLayout) \o p.kid

ParsePiffTenc(body) ==
    LET p == ReadPiff(body, 4)
    IN  When(Len(body) >= 24 /\ Version(body) = 0 /\ p.iv_size \in IvSizes, p)
BuildPiffTenc(p) ==
    When(Fits(3, p.algorithm_id) /\ p.iv_size \in IvSizes,
         WrapUuid(UserType.tenc, FullBox(0, 0) \o WritePiff(p)))

PiffSencBox == [flags : Nat, override_params : SUBSET PiffTencBox, samples : Seq(SencSample)]
ParsePiffSenc(body, default_iv_size) ==
    LET override == Bit(Flags(body), 0)
        iv_size == IF override THEN U(body, 7, 1) ELSE default_iv_size
    IN  IF Len(body) < 4 \/ Version(body) # 0 \/ (override /\ Len(body) < 24) \/ iv_size \notin IvSizes
        THEN {}
        ELSE {[flags |-> Flags(body), override_params |-> When(override, ReadPiff(body, 4)),
               samples |-> samples] :
                 samples \in ParseSencSampleTable(body, IF override THEN 24 ELSE 4,
                                                  UseSubsamples(Flags(body)), iv_size)}
BuildPiffSenc(s) ==
    LET override == s.override_params # {}
        params == CHOOSE p \in s.override_params : TRUE
        iv_size == IF override THEN params.iv_size ELSE SharedIvSize(s.samples)
    IN  IF \/ ~Fits(3, s.flags) \/ Bit(s.flags, 0) # override \/ iv_size \notin IvSizes
           \/ override /\ ~Fits(3, params.algorithm_id)
        THEN {}
        ELSE {WrapUuid(UserType.senc, FullBox(0, s.flags)
                \o (IF override THEN WritePiff(params) ELSE <<>>) \o table) :
                  table \in BuildSencSampleTable(s.samples, iv_size, UseSubsamples(s.flags))}
(* The flag of the override is not one of senc.                            *)
ToSenc(s) == [flags |-> BitsWhen(UseSubsamples(s.flags), 2), samples |-> s.samples]

ParsePiffPssh(body) == IF body # <<>> /\ body[1] # 0 THEN {} ELSE ParsePssh(body)
BuildPiffPssh(p) ==
    When(p.version = 0 /\ p.kids = <<>>, WrapUuid(UserType.pssh, PsshBody(p)))

(***************************************************************************)
(* sinf: how the samples of an entry are protected.  What is under schi is *)
(* read leniently, the first of each kind that can be read; a PIFF tenc is *)
(* told by its user type.  A later schi replaces an earlier one whole.     *)
(***************************************************************************)
SchemeOf(fourcc) ==
    IF \E name \in DOMAIN Cenc!CipherMode : FourCC[name] = fourcc
    THEN CHOOSE name \in DOMAIN Cenc!CipherMode : FourCC[name] = fourcc ELSE "unknown"
BuildSinf(original_format, scheme_type, scheme_version, tenc) ==
    IF Cenc!Decision(SchemeOf(scheme_type), tenc) = {} THEN {}
    ELSE {WrapBox("sinf", WrapBox("frma", Num(4, original_format))
            \o WrapBox("schm", FullBox(0, 0) \o Num(4, scheme_type) \o Num(4, scheme_version))
            \o WrapBox("schi", box)) : box \in BuildTenc(tenc)}

NoUnwrap == [original_format |-> {}, scheme_type |-> {}, tenc |-> {}, piff_tenc |-> {}, stvi |-> {}]
FirstRecord(records) == IF records = <<>> THEN {} ELSE {records[1]}
PiffTencOf(body) ==
    IF Len(body) >= 16 /\ Slice(body, 0, 16) = UserType.tenc THEN ParsePiffTenc(Rest(body, 16)) ELSE {}
WalkSchi(body) ==
    LET boxes == LenientBoxes(body)
    IN  [tenc |-> FirstRecord(RecordsOf(boxes, "tenc", ParseTenc)),
         piff_tenc |-> FirstRecord(RecordsOf(boxes, "uuid", PiffTencOf)),
         stvi |-> FirstRecord(RecordsOf(boxes, "stvi", ParseStvi))]
ParseSinf(body) ==
    LET said(boxes, code, room) ==
          LET those == {i \in DOMAIN boxes : boxes[i].type = FourCC[code] /\ Len(boxes[i].body) >= room}
          IN  {boxes[i].body : i \in {i \in those : \A j \in those : j <= i}}
        children(boxes) ==
          IF said(boxes, "schi", 0) = {} THEN [tenc |-> {}, piff_tenc |-> {}, stvi |-> {}]
          ELSE WalkSchi(CHOOSE schi \in said(boxes, "schi", 0) : TRUE)
    IN  {children(boxes) @@ [original_format |-> {U(frma, 0, 4) : frma \in said(boxes, "frma", 4)},
                             scheme_type |-> {U(schm, 4, 4) : schm \in said(boxes, "schm", 8)}] :
            boxes \in StrictBoxes(body, AnyType)}
(* The first sinf behind the fixed fields of an audio or a video entry,    *)
(* whatever follows it; without one the boxes must be sound to the end.    *)
UnwrapEntry(entry, media_type) ==
    LET preamble == IF media_type = "audio" THEN 28 ELSE 78
        children == Rest(entry, preamble)
        boxes == LenientBoxes(children)
        sinfs == {i \in DOMAIN boxes : boxes[i].type = FourCC["sinf"]}
    IN  IF media_type \notin {"audio", "video"} \/ Len(entry) <= preamble THEN {NoUnwrap}
        ELSE IF sinfs # {} THEN ParseSinf(boxes[CHOOSE i \in sinfs : \A j \in sinfs : i <= j].body)
        ELSE {NoUnwrap : walked \in StrictBoxes(children, AnyType)}
=============================================================================
