------------------------------ MODULE GroupBoxes ------------------------------
(***************************************************************************)
(* Sample groups: sbgp, sgpd and the compact csgp, written by              *)
(* src/sample_groups.rs and read by src/demux.rs, and the descriptions of  *)
(* the groups the base format defines (src/sample_group_entries.rs).       *)
(***************************************************************************)
EXTENDS BoxReader, FiniteSetsExt

RunLayout == <<<<"sample_count", "u32">>, <<"group_description_index", "u32">>>>
SbgpBox ==
    [grouping_type : Nat, grouping_type_parameter : SUBSET Nat, entries : Seq(RecordOf(RunLayout))]
ParseSbgp(body) ==
    LET at == IF Version(body) = 1 THEN 12 ELSE 8
    IN  When(/\ Len(body) >= 4 /\ at + 4 <= Len(body)
             /\ FitRows(body, at + 4, U(body, at, 4), RunLayout),
             [grouping_type |-> U(body, 4, 4),
              grouping_type_parameter |-> When(Version(body) = 1, U(body, 8, 4)),
              entries |-> ReadRows(body, at + 4, U(body, at, 4), RunLayout)])
Words4(option) == IF option = {} THEN <<>> ELSE Num(4, CHOOSE v \in option : TRUE)
BuildSbgp(s) ==
    WrapBox("sbgp", FullBox(Cardinality(s.grouping_type_parameter), 0) \o Num(4, s.grouping_type)
      \o Words4(s.grouping_type_parameter) \o Num(4, Len(s.entries)) \o WriteRows(s.entries, RunLayout))

(***************************************************************************)
(* sgpd: entries of one length, or of a length each, or, where the box     *)
(* gives no length, one entry of all that is left.                         *)
(***************************************************************************)
SgpdBox ==
    [grouping_type : Nat, default_sample_description_index : SUBSET Nat, entries : Seq(Seq(0..255))]
ParseSgpd(body) ==
    LET version == Version(body)
        at == IF version = 0 THEN 8 ELSE 12
        default_length == IF version = 1 THEN U(body, 8, 4) ELSE 0
        count == U(body, at, 4)
        Entry(from) ==
          LET prefix == IF default_length = 0 THEN 4 ELSE 0
              len == IF prefix = 0 THEN default_length ELSE U(body, from, 4)
          IN  When(from + prefix <= Len(body) /\ len <= Len(body) - from - prefix,
                   [row |-> Slice(body, from + prefix, len), next |-> from + prefix + len])
        whole == IF count = 0 \/ at + 4 = Len(body) THEN <<>> ELSE <<Rest(body, at + 4)>>
        entries == IF Len(body) < 4 \/ at + 4 > Len(body) THEN {}
                   ELSE IF version = 1 THEN {list.rows : list \in ReadList(Entry, at + 4, count, Len(body))}
                   ELSE {whole}
    IN  {[grouping_type |-> U(body, 4, 4),
          default_sample_description_index |-> When(version >= 2, U(body, 8, 4)),
          entries |-> e] : e \in entries}
LengthOfTheFirst(entries) ==
    IF entries # <<>> /\ entries[1] # <<>> THEN {Len(entries[1])} ELSE {}
(* The length all entries share, when they do and it is not 0.             *)
EntriesCommonLength(entries) ==
    IF entries # <<>> /\ entries[1] # <<>> /\ \A i \in DOMAIN entries : Len(entries[i]) = Len(entries[1])
    THEN {Len(entries[1])} ELSE {}
BuildSgpd(s) ==
    LET common == EntriesCommonLength(s.entries)
        version == IF s.default_sample_description_index # {} /\ common # {} THEN 2 ELSE 1
        prefixed(e) == IF common = {} THEN Num(4, Len(e)) \o e ELSE e
    IN  WrapBox("sgpd", FullBox(version, 0) \o Num(4, s.grouping_type)
          \o (IF version = 2 THEN Words4(s.default_sample_description_index)
              ELSE IF common = {} THEN Num(4, 0) ELSE Words4(common))
          \o Num(4, Len(s.entries)) \o Concat([i \in DOMAIN s.entries |-> prefixed(s.entries[i])]))

(***************************************************************************)
(* csgp: patterns of indices in fields of 4, 8, 16 or 32 bits, packed      *)
(* without alignment.                                                      *)
(***************************************************************************)
WriteBits(value, n) ==
    LET octets == Num(4, value)
    IN  [k \in 1..n |-> BitAt(octets, 32 - n + k - 1)]
PackBits(bits) ==
    LET bit(p) == IF p \in DOMAIN bits THEN bits[p] ELSE 0
    IN  [i \in 1..((Len(bits) + 7) \div 8) |->
            LET value[k \in 0..8] ==
                  IF k = 0 THEN 0 ELSE 2 * value[k - 1] + bit(8 * (i - 1) + k)
            IN  value[8]]

SizeCodeFor(max) == IF max < 16 THEN 0 ELSE IF max < 256 THEN 1 ELSE IF max < 65536 THEN 2 ELSE 3
FieldWidth(code) == 4 * 2^code
CsgpPattern == [sample_count : Nat, indices : Seq(Nat)]
CsgpBox ==
    [grouping_type : Nat, grouping_type_parameter : SUBSET Nat, msb_fragment_local : BOOLEAN,
     index_field_bits : {4, 8, 16, 32}, patterns : Seq(CsgpPattern)]
(* First the lengths and counts of all patterns, then all their indices.   *)
ParseCsgp(body) ==
    LET flags == Flags(body)
        code(low) == BitsOf(flags, low, 2)
        at == IF Bit(flags, 6) THEN 12 ELSE 8
        lengthBits == FieldWidth(code(4))
        countBits == FieldWidth(code(2))
        indexBits == FieldWidth(code(0))
        Length(p) ==
          {[row |-> [length |-> l.row, count |-> c.row], next |-> c.next] :
             <<l, c>> \in UNION {{<<l, c>> : c \in ReadBits(body, l.next, countBits)} :
                                   l \in ReadBits(body, p, lengthBits)}}
        Index(p) == ReadBits(body, p, indexBits)
        lengths == ReadList(Length, 8 * (at + 4), U(body, at, 4), 8 * Len(body))
        patterns[n \in 0..Len(body) * 8] ==
          LET known == CHOOSE l \in lengths : TRUE
          IN  IF n = 0 THEN {[rows |-> <<>>, next |-> known.next]}
              ELSE {[rows |-> Append(done.rows, [sample_count |-> known.rows[n].count,
                                                 indices |-> list.rows]),
                     next |-> list.next] :
                      <<done, list>> \in UNION {{<<done, list>> : list \in
                          ReadList(Index, done.next, known.rows[n].length, 8 * Len(body))} :
                              done \in patterns[n - 1]}}
    IN  IF Len(body) < 4 \/ (code(4) = 0) # (code(2) = 0) \/ at + 4 > Len(body) \/ lengths = {} THEN {}
        ELSE {[grouping_type |-> U(body, 4, 4),
               grouping_type_parameter |-> When(Bit(flags, 6), U(body, 8, 4)),
               msb_fragment_local |-> Bit(flags, 7), index_field_bits |-> indexBits,
               patterns |-> all.rows] :
                 all \in patterns[Len((CHOOSE l \in lengths : TRUE).rows)]}
(* The narrowest fields that hold every value; of lengths and counts both  *)
(* have four bits or neither has.                                          *)
BuildCsgp(c) ==
    LET greatest(values) == Max({0} \cup values)
        lengthCode == SizeCodeFor(greatest({Len(c.patterns[i].indices) : i \in DOMAIN c.patterns}))
        countCode == SizeCodeFor(greatest({c.patterns[i].sample_count : i \in DOMAIN c.patterns}))
        wide(code) == IF (lengthCode = 0) # (countCode = 0) /\ code = 0 THEN 1 ELSE code
        indexCode == SizeCodeFor(greatest(UNION {
                       {c.patterns[i].indices[k] : k \in DOMAIN c.patterns[i].indices} :
                           i \in DOMAIN c.patterns}))
        flags == indexCode + 4 * wide(countCode) + 16 * wide(lengthCode)
                   + BitsWhen(c.grouping_type_parameter # {}, 64) + BitsWhen(c.msb_fragment_local, 128)
        lengths(p) == WriteBits(Len(p.indices), FieldWidth(wide(lengthCode)))
                        \o WriteBits(p.sample_count, FieldWidth(wide(countCode)))
        indices(p) == Concat([k \in DOMAIN p.indices |-> WriteBits(p.indices[k], FieldWidth(indexCode))])
        bits == Concat([i \in DOMAIN c.patterns |-> lengths(c.patterns[i])])
                  \o Concat([i \in DOMAIN c.patterns |-> indices(c.patterns[i])])
    IN  WrapBox("csgp", FullBox(0, flags) \o Num(4, c.grouping_type) \o Words4(c.grouping_type_parameter)
          \o Num(4, Len(c.patterns)) \o PackBits(bits))

(* The top bit of an index may say that the description is the fragment's. *)
(* The indices of the model leave that of 32 bits clear.                   *)
ResolveCsgpIndex(raw, box) ==
    LET local == 2^(box.index_field_bits - 1)
    IN  IF ~box.msb_fragment_local \/ box.index_field_bits = 32
        THEN [fragment_local |-> FALSE, value |-> raw]
        ELSE [fragment_local |-> Bit(raw, box.index_field_bits - 1), value |-> raw % local]
(* A pattern is cycled over as many samples as it counts; samples beyond   *)
(* all patterns are in no group.                                           *)
ResolveSamples(box, total_samples) ==
    LET cycled(p) ==
          IF p.indices = <<>> THEN <<>>
          ELSE [s \in 1..Min({p.sample_count, total_samples}) |->
                  ResolveCsgpIndex(p.indices[((s - 1) % Len(p.indices)) + 1], box)]
        mapped == Concat([i \in DOMAIN box.patterns |-> cycled(box.patterns[i])])
    IN  [s \in 1..total_samples |->
            IF s \in DOMAIN mapped THEN mapped[s] ELSE [fragment_local |-> FALSE, value |-> 0]]

(***************************************************************************)
(* The descriptions.  A rash of one operation point has no bit rate of its *)
(* own; what an alst has behind its offsets are pieces up to its end.      *)
(***************************************************************************)
RollLayout == <<<<"roll_distance", "i16">>>>
ParseRoll(blob) == When(FitFields(blob, 0, RollLayout), ReadFields(blob, 0, RollLayout))
BuildRoll(e) == WriteFields(e, RollLayout)

PointLayout == <<<<"available_bitrate", "u32">>, <<"target_rate_share", "u16">>>>
RashLayout == <<<<"maximum_bitrate", "u32">>, <<"minimum_bitrate", "u32">>, <<"discard_priority", "u8">>>>
RateShareEntry ==
    [single_target_rate_share : SUBSET (0..65535), operation_points : Seq(RecordOf(PointLayout)),
     limits : RecordOf(RashLayout)]
ParseRash(blob) ==
    LET count == U(blob, 0, 2)
        points == IF count = 1 THEN 0 ELSE count
        limits == IF count = 1 THEN 4 ELSE 2 + SizeOf(PointLayout) * count
    IN  IF Len(blob) < 2 \/ count = 0 \/ ~FitFields(blob, limits, RashLayout) THEN {}
        ELSE {[single_target_rate_share |-> When(count = 1, U(blob, 2, 2)),
               operation_points |-> ReadRows(blob, 2, points, PointLayout),
               limits |-> ReadFields(blob, limits, RashLayout)]}
BuildRash(e) ==
    LET single == IF e.single_target_rate_share # {} \/ e.operation_points # <<>>
                  THEN e.single_target_rate_share ELSE {0}
    IN  (IF single # {} THEN Num(2, 1) \o Num(2, CHOOSE share \in single : TRUE)
         ELSE Num(2, Len(e.operation_points)) \o WriteRows(e.operation_points, PointLayout))
          \o WriteFields(e.limits, RashLayout)

PieceLayout == <<<<"num_output_samples", "u16">>, <<"num_total_samples", "u16">>>>
AlternativeStartupEntry ==
    [first_output_sample : 0..65535, sample_offsets : Seq(Nat),
     output_rate_pieces : Seq(RecordOf(PieceLayout))]
ParseAlst(blob) ==
    LET tail == 4 + 4 * U(blob, 0, 2)
    IN  IF Len(blob) < 4 THEN {}
        ELSE When(tail <= Len(blob) /\ (Len(blob) - tail) % 4 = 0,
                  [first_output_sample |-> U(blob, 2, 2),
                   sample_offsets |-> Words(blob, 4, U(blob, 0, 2), "u32"),
                   output_rate_pieces |-> ReadRows(blob, tail, (Len(blob) - tail) \div 4, PieceLayout)])
BuildAlst(e) ==
    Num(2, Len(e.sample_offsets)) \o Num(2, e.first_output_sample)
      \o WriteWords(e.sample_offsets, "u32") \o WriteRows(e.output_rate_pieces, PieceLayout)

(* The others are one octet.                                               *)
ParseRap(blob) ==
    When(blob # <<>>, [num_leading_samples_known |-> Bit(blob[1], 7), num_leading_samples |-> blob[1] % 128])
BuildRap(e) == <<BitsWhen(e.num_leading_samples_known, 128) + (e.num_leading_samples % 128)>>
ParseTele(blob) == When(blob # <<>>, [level_independently_decodable |-> Bit(blob[1], 7)])
BuildTele(e) == <<BitsWhen(e.level_independently_decodable, 128)>>
ParseSap(blob) == When(blob # <<>>, [dependent_flag |-> Bit(blob[1], 7), sap_type |-> blob[1] % 16])
BuildSap(e) == <<BitsWhen(e.dependent_flag, 128) + (e.sap_type % 16)>>

(* A description of another type stays the octets it is.                   *)
DecodeSampleGroupEntry(grouping_type, blob) ==
    LET named(code) == grouping_type = FourCC[code]
    IN  CASE named("roll") \/ named("prol") -> ParseRoll(blob) [] named("rash") -> ParseRash(blob)
          [] named("alst") -> ParseAlst(blob) [] named("rap ") -> ParseRap(blob)
          [] named("tele") -> ParseTele(blob) [] named("sap ") -> ParseSap(blob)
          [] OTHER -> {blob}
=============================================================================
