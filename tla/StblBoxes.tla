------------------------------- MODULE StblBoxes ------------------------------
(***************************************************************************)
(* The boxes of a sample table: what src/demux.rs reads of them, and the   *)
(* builders of src/muxer.rs and src/demux.rs.                              *)
(***************************************************************************)
EXTENDS BoxReader, FiniteSetsExt

(* A count behind version and flags, and as many rows.                     *)
CountedRows(body, layout) ==
    When(Len(body) >= 8 /\ FitRows(body, 8, U(body, 4, 4), layout),
         ReadRows(body, 8, U(body, 4, 4), layout))
WriteCountedRows(code, version, rows, layout) ==
    WrapBox(code, FullBox(version, 0) \o Num(4, Len(rows)) \o WriteRows(rows, layout))

SttsLayout == <<<<"count", "u32">>, <<"value", "u32">>>>
ParseStts(body) == CountedRows(body, SttsLayout)
BuildStts(runs) == WriteCountedRows("stts", 0, runs, SttsLayout)

(* An offset is signed, whatever the version says.                         *)
CttsLayout == <<<<"count", "u32">>, <<"value", "i32">>>>
ParseCtts(body) == CountedRows(body, CttsLayout)
BuildCtts(runs) ==
    WriteCountedRows("ctts", IF \E i \in DOMAIN runs : runs[i].value < 0 THEN 1 ELSE 0,
                     runs, CttsLayout)

StscLayout == <<<<"first", "u32">>, <<"perChunk", "u32">>, <<"description", "u32">>>>
ParseStsc(body) == CountedRows(body, StscLayout)
BuildStsc(runs) == WriteCountedRows("stsc", 0, runs, StscLayout)

SampleLayout == <<<<"sample", "u32">>>>
ParseStss(body) == CountedRows(body, SampleLayout)
BuildStss(keyframes) == WriteCountedRows("stss", 0, keyframes, SampleLayout)

StshLayout == <<<<"shadowed_sample_number", "u32">>, <<"sync_sample_number", "u32">>>>
ParseStsh(body) == CountedRows(body, StshLayout)

OffsetLayout(code) == <<<<"offset", IF code = "co64" THEN "u64" ELSE "u32">>>>
ParseStco(body) == CountedRows(body, OffsetLayout("stco"))
ParseCo64(body) == CountedRows(body, OffsetLayout("co64"))
BuildChunkOffsets(offsets) ==
    LET code == IF \E i \in DOMAIN offsets : offsets[i].offset >= Wide THEN "co64" ELSE "stco"
    IN  WriteCountedRows(code, 0, offsets, OffsetLayout(code))

(***************************************************************************)
(* Sample sizes: one for all, never more than the file has room for, or    *)
(* one each, in stz2 of 4, 8 or 16 bits.                                   *)
(***************************************************************************)
ParseStsz(body, file_size) ==
    LET uniform == U(body, 4, 4)
        count == U(body, 8, 4)
    IN  IF Len(body) < 12 THEN {}
        ELSE IF uniform # 0
        THEN When(count <= file_size \div uniform, [i \in 1..count |-> uniform])
        ELSE When(count <= (Len(body) - 12) \div 4, Words(body, 12, count, "u32"))
BuildStsz(sizes) ==
    LET uniform == IF sizes # <<>> /\ \A i \in DOMAIN sizes : sizes[i] = sizes[1]
                   THEN sizes[1] ELSE 0
    IN  WrapBox("stsz", FullBox(0, 0) \o Num(4, uniform) \o Num(4, Len(sizes))
          \o (IF uniform = 0 THEN WriteWords(sizes, "u32") ELSE <<>>))
Nibble(octets, at, i) ==
    LET octet == U(octets, at + (i - 1) \div 2, 1)
    IN  IF i % 2 = 1 THEN octet \div 16 ELSE octet % 16
ParseStz2(body) ==
    LET count == U(body, 8, 4)
        room == Len(body) - 12
        width == U(body, 7, 1)
    IN  IF Len(body) < 12 THEN {}
        ELSE IF width = 4 THEN When((count + 1) \div 2 <= room, [i \in 1..count |-> Nibble(body, 12, i)])
        ELSE IF width = 8 THEN When(count <= room, Words(body, 12, count, "u8"))
        ELSE When(width = 16 /\ count <= room \div 2, Words(body, 12, count, "u16"))

(***************************************************************************)
(* One value for each sample: dependencies, degradation priority, padding. *)
(***************************************************************************)
SdtpEntry ==
    [is_leading : 0..3, sample_depends_on : 0..3, sample_is_depended_on : 0..3,
     sample_has_redundancy : 0..3]
ParseSdtp(body) ==
    LET entry(octet) ==
          [is_leading |-> BitsOf(octet, 6, 2), sample_depends_on |-> BitsOf(octet, 4, 2),
           sample_is_depended_on |-> BitsOf(octet, 2, 2), sample_has_redundancy |-> BitsOf(octet, 0, 2)]
    IN  When(Len(body) >= 4, [i \in 1..(Len(body) - 4) |-> entry(body[4 + i])])
ParseStdp(body) == When(Len(body) >= 4, Words(body, 4, (Len(body) - 4) \div 2, "u16"))
ParsePadb(body) ==
    LET count == U(body, 4, 4)
    IN  When(Len(body) >= 8 /\ (count + 1) \div 2 <= Len(body) - 8,
             [i \in 1..count |-> Nibble(body, 8, i) % 8])

(***************************************************************************)
(* cslg: the muxer makes it of the tables it writes, when an offset is     *)
(* negative.  The composition end is that of the last sample of the        *)
(* greatest composition time.                                              *)
(***************************************************************************)
CslgLayout(version) ==
    LET type == IF version = 0 THEN "i32" ELSE "i64"
    IN  <<<<"composition_to_dts_shift", type>>, <<"least_decode_to_display_delta", type>>,
          <<"greatest_decode_to_display_delta", type>>, <<"composition_start_time", type>>,
          <<"composition_end_time", type>>>>
ParseCslg(body) ==
    LET layout == CslgLayout(Version(body))
    IN  When(Len(body) >= 4 /\ FitFields(body, 4, layout), ReadFields(body, 4, layout))
EachOf(runs) == Concat([k \in DOMAIN runs |-> [j \in 1..runs[k].count |-> runs[k].value]])
CslgOf(stts, ctts) ==
    LET offset == EachOf(ctts)
        delta == EachOf(stts)
        duration(i) == IF i \in DOMAIN delta THEN delta[i] ELSE 0
        decode[i \in 1..(Len(offset) + 1)] ==
          IF i = 1 THEN 0 ELSE decode[i - 1] + duration(i - 1)
        cts(i) == decode[i] + offset[i]
        times == {cts(i) : i \in DOMAIN offset}
        offsets == {ctts[k].value : k \in DOMAIN ctts}
        last == Max({i \in DOMAIN offset : cts(i) = Max(times)})
    IN  [composition_to_dts_shift |-> -Min(offsets), least_decode_to_display_delta |-> Min(offsets),
         greatest_decode_to_display_delta |-> Max(offsets), composition_start_time |-> Min(times),
         composition_end_time |-> cts(last) + duration(last)]
CslgVersion(fields) ==
    IF \A name \in DOMAIN fields : fields[name] \in -(Wide \div 2)..(Wide \div 2 - 1) THEN 0 ELSE 1
CslgBody(version, fields) == FullBox(version, 0) \o WriteFields(fields, CslgLayout(version))
CslgBox(fields) == WrapBox("cslg", CslgBody(CslgVersion(fields), fields))
BuildCslg(stts, ctts) == When(\E k \in DOMAIN ctts : ctts[k].value < 0, CslgBox(CslgOf(stts, ctts)))

(* The tables of a track the muxer writes, behind its sample description.  *)
BuildStbl(stsd, t, groups) ==
    LET reordered == \E k \in DOMAIN t.ctts : t.ctts[k].value # 0
    IN  WrapBox("stbl", stsd \o BuildStts(t.stts)
          \o (IF reordered THEN BuildCtts(t.ctts) ELSE <<>>)
          \o (IF reordered THEN OrNothing(BuildCslg(t.stts, t.ctts)) ELSE <<>>)
          \o (IF t.stss # <<>> THEN BuildStss(t.stss) ELSE <<>>)
          \o BuildStsc(t.stsc) \o BuildStsz(t.stsz) \o BuildChunkOffsets(t.chunkOffsets) \o groups)

(***************************************************************************)
(* subs                                                                    *)
(***************************************************************************)
SubsLayout(version) ==
    <<<<"subsample_size", IF version = 1 THEN "u32" ELSE "u16">>, <<"subsample_priority", "u8">>,
      <<"discardable", "u8">>, <<"codec_specific_parameters", "u32">>>>
SubSampleEntry == RecordOf(SubsLayout(1))
SubsEntry == [sample_delta : Nat, subsamples : Seq(SubSampleEntry)]
SubsBox == [version : 0..255, flags : Nat, entries : Seq(SubsEntry)]
ParseSubs(body) ==
    LET layout == SubsLayout(Version(body))
        Entry(at) ==
          LET count == U(body, at + 4, 2)
          IN  When(at + 6 <= Len(body) /\ FitRows(body, at + 6, count, layout),
                   [row |-> [sample_delta |-> U(body, at, 4),
                             subsamples |-> ReadRows(body, at + 6, count, layout)],
                    next |-> at + 6 + count * SizeOf(layout)])
    IN  {[version |-> Version(body), flags |-> Flags(body), entries |-> list.rows] :
            list \in IF Len(body) < 8 THEN {} ELSE ReadList(Entry, 8, U(body, 4, 4), Len(body))}
BuildSubs(r) ==
    LET layout == SubsLayout(r.version)
        Entry(e) ==
          When(/\ Fits(2, Len(e.subsamples))
               /\ \A i \in DOMAIN e.subsamples :
                     r.version = 1 \/ Fits(2, e.subsamples[i].subsample_size),
               Num(4, e.sample_delta) \o Num(2, Len(e.subsamples)) \o WriteRows(e.subsamples, layout))
    IN  {WrapBox("subs", FullBox(r.version, r.flags) \o Num(4, Len(r.entries)) \o entries) :
            entries \in IF r.version > 1 THEN {} ELSE BuildAll(Entry, r.entries)}

(***************************************************************************)
(* saiz and saio: the sizes and the places of auxiliary information of a   *)
(* type; a parameter without a type is not written.                        *)
(***************************************************************************)
AuxInfo == [aux_info_type : SUBSET Nat, aux_info_type_parameter : SUBSET Nat]
AuxInfoOf(body) ==
    IF Bit(Flags(body), 0)
    THEN [aux_info_type |-> {U(body, 4, 4)}, aux_info_type_parameter |-> {U(body, 8, 4)}]
    ELSE [aux_info_type |-> {}, aux_info_type_parameter |-> {}]
AfterAuxInfo(body) == IF Bit(Flags(body), 0) THEN 12 ELSE 4
WriteAuxInfo(aux) ==
    IF aux.aux_info_type = {} THEN <<>>
    ELSE Num(4, CHOOSE t \in aux.aux_info_type : TRUE)
           \o Num(4, IF aux.aux_info_type_parameter = {} THEN 0
                     ELSE CHOOSE p \in aux.aux_info_type_parameter : TRUE)
AuxFlags(aux) == IF aux.aux_info_type = {} THEN 0 ELSE 1

SaizBox ==
    [aux : AuxInfo, default_sample_info_size : 0..255, sample_count : Nat, per_sample : Seq(0..255)]
ParseSaiz(body) ==
    LET off == AfterAuxInfo(body)
        sample_count == U(body, off + 1, 4)
        each == U(body, off, 1) = 0
    IN  When(/\ Len(body) >= 4 /\ off + 5 <= Len(body)
             /\ each => sample_count <= Len(body) - off - 5,
             [aux |-> AuxInfoOf(body), default_sample_info_size |-> U(body, off, 1),
              sample_count |-> sample_count,
              per_sample |-> IF each THEN Slice(body, off + 5, sample_count) ELSE <<>>])
BuildSaiz(r) ==
    When(IF r.default_sample_info_size = 0 THEN r.sample_count = Len(r.per_sample)
         ELSE r.per_sample = <<>>,
         WrapBox("saiz", FullBox(0, AuxFlags(r.aux)) \o WriteAuxInfo(r.aux)
           \o <<r.default_sample_info_size>> \o Num(4, r.sample_count) \o r.per_sample))

SaioBox == [version : 0..255, aux : AuxInfo, offsets : Seq(Nat)]
ParseSaio(body) ==
    LET off == AfterAuxInfo(body)
        type == IF Version(body) = 1 THEN "u64" ELSE "u32"
        entry_count == U(body, off, 4)
    IN  When(/\ Len(body) >= 4 /\ off + 4 <= Len(body)
             /\ entry_count <= (Len(body) - off - 4) \div TypeOctets[type],
             [version |-> Version(body), aux |-> AuxInfoOf(body),
              offsets |-> Words(body, off + 4, entry_count, type)])
BuildSaio(r) ==
    When(r.version <= 1 /\ (r.version = 0 => \A i \in DOMAIN r.offsets : Fits(4, r.offsets[i])),
         WrapBox("saio", FullBox(r.version, AuxFlags(r.aux)) \o WriteAuxInfo(r.aux)
           \o Num(4, Len(r.offsets))
           \o WriteWords(r.offsets, IF r.version = 0 THEN "u32" ELSE "u64")))
=============================================================================
