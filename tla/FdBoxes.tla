------------------------------- MODULE FdBoxes -------------------------------
(***************************************************************************)
(* File delivery boxes (src/fd.rs): FEC parameters and reservoirs of a     *)
(* file partition (fpar, fecr, fire, paen), session groups and group names *)
(* (segr, gitn), the box that holds them (fiin), and FEC symbols (feci).   *)
(* The readers refuse what is cut short; the writers refuse nothing.       *)
(***************************************************************************)
EXTENDS BoxReader

(* rd_id, wr_id: the width of ids and counts depends on the version.       *)
IdType(version) == IF version = 0 THEN "u16" ELSE "u32"
IdWidth(version) == TypeOctets[IdType(version)]

(* each_child: a walk that ends at the first box that does not fit; a size *)
(* of zero takes the rest.                                                 *)
FdChildren(octets) ==
    LET end == Len(octets)
        walk[at \in 0..end] ==
          LET size == U(octets, at, 4)
              head == IF size = 1 THEN 16 ELSE 8
              total == IF size = 0 THEN end - at
                       ELSE IF size = 1 THEN U(octets, at + 8, 8) ELSE size
          IN  IF at + 8 > end \/ at + head > end \/ total < head \/ total > end - at
              THEN <<>>
              ELSE <<[type |-> U(octets, at + 4, 4),
                      body |-> Slice(octets, at + head, total - head)]>> \o walk[at + total]
    IN  walk[0]
(* The last child of a type, if it can be read.                            *)
ReadLast(boxes, code, Parse(_)) == UNION {Parse(body) : body \in LastOf(boxes, code)}

(***************************************************************************)
(* fpar                                                                    *)
(***************************************************************************)
FparLayout(version) ==
    <<<<"item_id", IdType(version)>>, <<"packet_payload_size", "u16">>,
      <<"reserved", "u8">>, <<"fec_encoding_id", "u8">>, <<"fec_instance_id", "u16">>,
      <<"max_source_block_length", "u16">>, <<"encoding_symbol_length", "u16">>,
      <<"max_number_of_encoding_symbols", "u16">>>>
FparEntry == <<<<"block_count", "u16">>, <<"block_size", "u32">>>>
FparBox ==
    [version : 0..255, fields : RecordOf(FparLayout(0)), scheme_specific_info : Seq(0..255),
     entries : Seq(RecordOf(FparEntry))]

ParseFpar(body) ==
    LET version == Version(body)
        layout == FparLayout(version)
        count(info) == U(body, info.next, IdWidth(version))
        rows(info) == info.next + IdWidth(version)
    IN  IF ~FitFields(body, 4, layout) THEN {}
        ELSE {[version |-> version, fields |-> ReadFields(body, 4, layout),
               scheme_specific_info |-> Lossy(info.row),
               entries |-> ReadRows(body, rows(info), count(info), FparEntry)] :
                info \in {i \in CString(body, 4 + SizeOf(layout)) :
                            FitRows(body, rows(i), count(i), FparEntry)}}
BuildFpar(b) ==
    WrapBox("fpar", FullBox(b.version, 0) \o WriteFields(b.fields, FparLayout(b.version))
      \o b.scheme_specific_info \o <<0>> \o Num(IdWidth(b.version), Len(b.entries))
      \o WriteRows(b.entries, FparEntry))

(***************************************************************************)
(* fecr and fire are reservoirs; a paen holds an fpar and both.            *)
(***************************************************************************)
ReservoirEntry(version) == <<<<"item_id", IdType(version)>>, <<"symbol_count", "u32">>>>
ReservoirBox == [version : 0..255, entries : Seq(RecordOf(ReservoirEntry(0)))]

ParseReservoir(body) ==
    LET version == Version(body)
        wide == IdWidth(version)
        count == U(body, 4, wide)
    IN  When(Len(body) >= 4 /\ FitRows(body, 4 + wide, count, ReservoirEntry(version)),
             [version |-> version,
              entries |-> ReadRows(body, 4 + wide, count, ReservoirEntry(version))])
BuildReservoir(code, b) ==
    WrapBox(code, FullBox(b.version, 0) \o Num(IdWidth(b.version), Len(b.entries))
      \o WriteRows(b.entries, ReservoirEntry(b.version)))

PartitionEntry ==
    [fpar : SUBSET FparBox, fecr : SUBSET ReservoirBox, fire : SUBSET ReservoirBox]
ParsePaen(body) ==
    LET boxes == FdChildren(body)
    IN  [fpar |-> ReadLast(boxes, "fpar", ParseFpar),
         fecr |-> ReadLast(boxes, "fecr", ParseReservoir),
         fire |-> ReadLast(boxes, "fire", ParseReservoir)]

(* The octets of an optional part.                                         *)
Optional(built) == IF built = {} THEN <<>> ELSE CHOOSE octets \in built : TRUE
BuildPaen(e) ==
    WrapBox("paen", Optional({BuildFpar(b) : b \in e.fpar})
      \o Optional({BuildReservoir("fecr", b) : b \in e.fecr})
      \o Optional({BuildReservoir("fire", b) : b \in e.fire}))

(***************************************************************************)
(* segr and gitn                                                           *)
(***************************************************************************)
SessionGroup == [group_ids : Seq(Nat), hint_track_ids : Seq(Nat)]
SegrBox == [session_groups : Seq(SessionGroup)]
Ids(body, at, count) == [i \in 1..count |-> U(body, at + 4 * (i - 1), 4)]
WriteIds(ids) == Concat([i \in DOMAIN ids |-> Num(4, ids[i])])

ParseSegr(body) ==
    LET group(at) ==
            LET groups == U(body, at, 1)
                second == at + 1 + 4 * groups
                channels == U(body, second, 2)
                next == second + 2 + 4 * channels
            IN  When(at < Len(body) /\ second + 2 <= Len(body) /\ next <= Len(body),
                     [row |-> [group_ids |-> Ids(body, at + 1, groups),
                               hint_track_ids |-> Ids(body, second + 2, channels)],
                      next |-> next])
    IN  IF Len(body) < 2 THEN {}
        ELSE {[session_groups |-> l.rows] :
                l \in ReadList(group, 2, U(body, 0, 2), Len(body))}
BuildSegr(b) ==
    LET group(g) == Num(1, Len(g.group_ids)) \o WriteIds(g.group_ids)
                      \o Num(2, Len(g.hint_track_ids)) \o WriteIds(g.hint_track_ids)
    IN  WrapBox("segr", Num(2, Len(b.session_groups))
          \o Concat([i \in DOMAIN b.session_groups |-> group(b.session_groups[i])]))

GroupName == [group_id : Nat, group_name : Seq(0..255)]
GitnBox == [entries : Seq(GroupName)]
ParseGitn(body) ==
    LET name(at) ==
            {[row |-> [group_id |-> U(body, at, 4), group_name |-> Lossy(text.row)],
              next |-> text.next] :
                text \in IF at + 4 > Len(body) THEN {} ELSE CString(body, at + 4)}
    IN  IF Len(body) < 6 THEN {}
        ELSE {[entries |-> l.rows] : l \in ReadList(name, 6, U(body, 4, 2), Len(body))}
BuildGitn(b) ==
    LET name(e) == Num(4, e.group_id) \o e.group_name \o <<0>>
    IN  WrapBox("gitn", FullBox(0, 0) \o Num(2, Len(b.entries))
          \o Concat([i \in DOMAIN b.entries |-> name(b.entries[i])]))

(***************************************************************************)
(* fiin: the count it starts with is not looked at.                        *)
(***************************************************************************)
FiinBox ==
    [partition_entries : Seq(PartitionEntry), session_info : SUBSET SegrBox,
     group_id_to_name : SUBSET GitnBox]
ParseFiin(body) ==
    LET boxes == FdChildren(Rest(body, 6))
        paen(box) == IF box.type = FourCC["paen"] THEN <<ParsePaen(box.body)>> ELSE <<>>
    IN  When(Len(body) >= 6,
             [partition_entries |-> Concat([i \in DOMAIN boxes |-> paen(boxes[i])]),
              session_info |-> ReadLast(boxes, "segr", ParseSegr),
              group_id_to_name |-> ReadLast(boxes, "gitn", ParseGitn)])
BuildFiin(b) ==
    LET parts == b.partition_entries
    IN  {WrapBox("fiin", FullBox(0, 0) \o Num(2, Len(parts))
           \o Concat([i \in DOMAIN parts |-> BuildPaen(parts[i])])
           \o Optional({BuildSegr(s) : s \in b.session_info})
           \o Optional({BuildGitn(g) : g \in b.group_id_to_name}))}

FeciBox ==
    <<<<"fec_encoding_id", "u8">>, <<"fec_instance_id", "u16">>,
      <<"source_block_number", "u16">>, <<"encoding_symbol_id", "u16">>>>
ParseFeci(body) == When(FitFields(body, 0, FeciBox), ReadFields(body, 0, FeciBox))
BuildFeci(b) == {WrapBox("feci", WriteFields(b, FeciBox))}

(***************************************************************************)
(* Hint tracks (src/hint.rs): sample entries of RTP and MPEG-2 transport   *)
(* hints, the SRTP process of the former, and the statistics a hint track  *)
(* keeps in its user data.                                                 *)
(***************************************************************************)

(* each_child: sizes of four octets only; the first box that does not fit  *)
(* ends the walk, and a size of zero takes the rest.                       *)
HintChildren(octets) ==
    LET end == Len(octets)
        walk[at \in 0..end] ==
          LET size == U(octets, at, 4)
              total == IF size = 0 THEN end - at ELSE size
          IN  IF at + 8 > end \/ total < 8 \/ total > end - at THEN <<>>
              ELSE <<[type |-> U(octets, at + 4, 4), body |-> Slice(octets, at + 8, total - 8)]>>
                     \o walk[at + total]
    IN  walk[0]
(* A number in the last box of a type, if the box has room for it.         *)
LastNumber(boxes, code, width) ==
    UNION {When(Len(body) >= width, U(body, 0, width)) : body \in LastOf(boxes, code)}
LastSigned(boxes, code) ==
    UNION {When(Len(body) >= 4, I(body, 0, 4)) : body \in LastOf(boxes, code)}
(* The boxes with room for a number: a shorter one is passed over.         *)
Roomy(boxes) == LET roomy(box) == Len(box.body) >= 4 IN SelectSeq(boxes, roomy)
WrapNumber(code, width, option) ==
    IF option = {} THEN <<>> ELSE WrapBox(code, Num(width, CHOOSE v \in option : TRUE))

(***************************************************************************)
(* srpp                                                                    *)
(***************************************************************************)
SrppLayout ==
    <<<<"version", "u8">>, <<"reserved", "u24">>, <<"encryption_algorithm_rtp", "u32">>,
      <<"encryption_algorithm_rtcp", "u32">>, <<"integrity_algorithm_rtp", "u32">>,
      <<"integrity_algorithm_rtcp", "u32">>>>
SrppBox == [algorithms : RecordOf(SrppLayout), scheme_bytes : Seq(0..255)]
ParseSrpp(body) ==
    When(Len(body) >= 20, [algorithms |-> ReadFields(body, 0, SrppLayout), scheme_bytes |-> Rest(body, 20)])
BuildSrpp(b) == WrapBox("srpp", WriteFields(b.algorithms, SrppLayout) \o b.scheme_bytes)

(***************************************************************************)
(* Sample entries                                                          *)
(***************************************************************************)
HintLayout ==
    <<<<"data_reference_index", "u16">>, <<"hint_track_version", "u16">>,
      <<"highest_compatible_version", "u16">>>>
RtpLayout == HintLayout \o <<<<"max_packet_size", "u32">>>>
RtpHintSampleEntry ==
    [format : Nat, fixed : RecordOf(RtpLayout), timescale : SUBSET Nat, time_offset : SUBSET Int,
     sequence_offset : SUBSET Int, srpp : SUBSET SrppBox]
ParseRtpHintSampleEntry(format, entry) ==
    LET boxes == HintChildren(Rest(entry, 16))
    IN  When(Len(entry) >= 16,
             [format |-> format, fixed |-> ReadFields(entry, 6, RtpLayout),
              timescale |-> LastNumber(Roomy(boxes), "tims", 4),
              time_offset |-> LastSigned(Roomy(boxes), "tsro"),
              sequence_offset |-> LastSigned(Roomy(boxes), "snro"),
              srpp |-> UNION {ParseSrpp(body) : body \in LastOf(boxes, "srpp")}])
BuildRtpHintSampleEntry(e) ==
    WrapTyped(e.format, Zeros(6) \o WriteFields(e.fixed, RtpLayout)
      \o WrapNumber("tims", 4, e.timescale) \o WrapNumber("tsro", 4, e.time_offset)
      \o WrapNumber("snro", 4, e.sequence_offset)
      \o (IF e.srpp = {} THEN <<>> ELSE BuildSrpp(CHOOSE b \in e.srpp : TRUE)))

TransportLayout ==
    HintLayout \o <<<<"preceding_bytes_len", "u8">>, <<"trailing_bytes_len", "u8">>>>
Mpeg2TsHintSampleEntry ==
    [format : Nat, fixed : RecordOf(TransportLayout), precomputed_only : BOOLEAN,
     additional_data : Seq(0..255)]
ParseMpeg2TsHintSampleEntry(format, entry) ==
    When(Len(entry) >= 15,
         [format |-> format, fixed |-> ReadFields(entry, 6, TransportLayout),
          precomputed_only |-> U(entry, 14, 1) >= 128, additional_data |-> Rest(entry, 15)])
BuildMpeg2TsHintSampleEntry(e) ==
    WrapTyped(e.format, Zeros(6) \o WriteFields(e.fixed, TransportLayout)
      \o <<BitsWhen(e.precomputed_only, 128)>> \o e.additional_data)

(***************************************************************************)
(* hinf: numbers, each in a box of its own, between them the rates and the *)
(* payload names.  The length of a name has one octet.                     *)
(***************************************************************************)
CounterBoxes ==
    <<<<"trpy", "bytes_sent_with_rtp_64", 8>>, <<"nump", "packets_sent_64", 8>>,
      <<"tpyl", "bytes_sent_no_rtp_64", 8>>, <<"totl", "bytes_sent_with_rtp_32", 4>>,
      <<"npck", "packets_sent_32", 4>>, <<"tpay", "bytes_sent_no_rtp_32", 4>>,
      <<"dmed", "media_bytes_sent", 8>>, <<"dimm", "immediate_bytes_sent", 8>>,
      <<"drep", "repeated_bytes_sent", 8>>, <<"tmin", "min_relative_time", 4>>,
      <<"tmax", "max_relative_time", 4>>, <<"pmax", "largest_packet", 4>>,
      <<"dmax", "longest_packet", 4>>>>
RelativeTimes == {"min_relative_time", "max_relative_time"}
Counters == {CounterBoxes[i][2] : i \in DOMAIN CounterBoxes}
MaxRate == <<<<"period", "u32">>, <<"bytes", "u32">>>>
PayloadId == [payload_id : Nat, rtpmap : Seq(0..255)]
HintStatistics ==
    [counters : [Counters -> SUBSET Int], max_rates : Seq(RecordOf(MaxRate)), payload_ids : Seq(PayloadId)]

ParseMaxr(body) == When(FitFields(body, 0, MaxRate), ReadFields(body, 0, MaxRate))
ParsePayt(body) ==
    LET room == Len(body) - 5
        count == U(body, 4, 1)
    IN  When(room >= 0, [payload_id |-> U(body, 0, 4),
                         rtpmap |-> Lossy(Slice(body, 5, IF count < room THEN count ELSE room))])
ParseHinf(body) ==
    LET boxes == HintChildren(body)
        counter(name) ==
          LET i == CHOOSE i \in DOMAIN CounterBoxes : CounterBoxes[i][2] = name
          IN  IF name \in RelativeTimes THEN LastSigned(boxes, CounterBoxes[i][1])
              ELSE LastNumber(boxes, CounterBoxes[i][1], CounterBoxes[i][3])
    IN  [counters |-> [name \in Counters |-> counter(name)],
         max_rates |-> RecordsOf(boxes, "maxr", ParseMaxr),
         payload_ids |-> RecordsOf(boxes, "payt", ParsePayt)]
NoHintStatistics(s) ==
    s.max_rates = <<>> /\ s.payload_ids = <<>> /\ \A name \in Counters : s.counters[name] = {}
BuildHinf(s) ==
    LET box(i) == WrapNumber(CounterBoxes[i][1], CounterBoxes[i][3], s.counters[CounterBoxes[i][2]])
        boxes(first, last) == Concat([i \in 1..(last - first + 1) |-> box(first + i - 1)])
        payt(p) == WrapBox("payt", Num(4, p.payload_id) \o Num(1, Len(p.rtpmap)) \o p.rtpmap)
    IN  WrapBox("hinf", boxes(1, 6)
          \o Concat([i \in DOMAIN s.max_rates |-> WrapBox("maxr", WriteFields(s.max_rates[i], MaxRate))])
          \o boxes(7, 13) \o Concat([i \in DOMAIN s.payload_ids |-> payt(s.payload_ids[i])]))
=============================================================================
