------------------------------ MODULE IndexBoxes -----------------------------
(***************************************************************************)
(* The boxes around segments: indexes (sidx, ssix, mfra), events and times *)
(* (emsg, prft), download and preview hints (pdin, pnot), levels and       *)
(* startup tables (leva, trep, assp), segment brands (styp).  Readers are  *)
(* those of src/demux.rs and src/emsg.rs, writers those of the two and of  *)
(* src/frag.rs and src/styp.rs.  A reader takes the body of a box, a       *)
(* writer makes the whole box.                                             *)
(***************************************************************************)
EXTENDS BoxReader

(***************************************************************************)
(* sidx                                                                    *)
(***************************************************************************)
SidxReference ==
    [is_sidx : BOOLEAN, referenced_size : Nat, subsegment_duration : Nat,
     starts_with_sap : BOOLEAN, sap_type : 0..7]
SidxRecord ==
    [reference_id : Nat, timescale : Nat, earliest_presentation_time : Nat,
     first_byte_offset : Nat, references : Seq(SidxReference)]

ParseSidx(body, sidx_end_offset) ==
    LET wide == IF Version(body) = 0 THEN 4 ELSE 8
        table == 12 + 2 * wide + 4
        reference_count == U(body, table - 2, 2)
        reference(i) ==
            LET at == table + 12 * (i - 1)
                sap == U(body, at + 8, 1)
            IN  [is_sidx |-> U(body, at, 1) >= 128,
                 referenced_size |-> Low31(body, at),
                 subsegment_duration |-> U(body, at + 4, 4),
                 starts_with_sap |-> sap >= 128,
                 sap_type |-> BitsOf(sap, 4, 3)]
    IN  IF Len(body) < 12 \/ Len(body) < table \/ table + 12 * reference_count > Len(body)
        THEN {}
        ELSE {[reference_id |-> U(body, 4, 4), timescale |-> U(body, 8, 4),
               earliest_presentation_time |-> U(body, 12, wide),
               first_byte_offset |-> sidx_end_offset + U(body, 12 + wide, wide),
               references |-> [i \in 1..reference_count |-> reference(i)]]}

(* One reference, to media: the size saturates at 31 bits.                 *)
BuildSidx(reference_id, timescale, earliest, referenced_size, duration, starts_with_sap) ==
    LET size == IF referenced_size = Wide THEN <<127, 255, 255, 255>>
                ELSE Num(4, referenced_size)
        sap == IF starts_with_sap THEN 128 + 16 ELSE 0
    IN  WrapBox("sidx", FullBox(1, 0) \o Num(4, reference_id) \o Num(4, timescale)
          \o Num(8, earliest) \o Num(8, 0) \o Num(2, 0) \o Num(2, 1)
          \o size \o Num(4, duration) \o <<sap, 0, 0, 0>>)

(***************************************************************************)
(* ssix                                                                    *)
(***************************************************************************)
SsixRange == [level : 0..255, range_size : Nat]
SsixSubsegment == [ranges : Seq(SsixRange)]
SsixRecord == [subsegments : Seq(SsixSubsegment)]

ParseSsix(body) ==
    LET range(at) == [level |-> U(body, at, 1), range_size |-> U(body, at + 1, 3)]
        subsegment(at) ==
            LET range_count == U(body, at, 4)
            IN  IF at + 4 > Len(body) \/ (Len(body) - at - 4) \div 4 < range_count THEN {}
                ELSE {[row |-> [ranges |-> [i \in 1..range_count |-> range(at + 4 * i)]],
                       next |-> at + 4 + 4 * range_count]}
    IN  IF Len(body) < 8 \/ Version(body) # 0 THEN {}
        ELSE {[subsegments |-> l.rows] :
                l \in ReadList(subsegment, 8, U(body, 4, 4), Len(body))}

BuildSsix(record) ==
    LET range(r) == <<r.level>> \o Num(3, r.range_size)
        subsegment(s) ==
            Num(4, Len(s.ranges)) \o Concat([i \in DOMAIN s.ranges |-> range(s.ranges[i])])
        all == record.subsegments
    IN  When(\A i \in DOMAIN all : \A j \in DOMAIN all[i].ranges :
                Fits(3, all[i].ranges[j].range_size),
             WrapBox("ssix", FullBox(0, 0) \o Num(4, Len(all))
               \o Concat([i \in DOMAIN all |-> subsegment(all[i])])))

(***************************************************************************)
(* mfra: the random access tables and the size that ends them.             *)
(***************************************************************************)
TfraEntry ==
    [time : Nat, moof_offset : Nat, traf_number : Nat, trun_number : Nat,
     sample_number : Nat]
TfraRecord == [track_id : Nat, entries : Seq(TfraEntry)]

ParseTfra(body) ==
    LET lengths == U(body, 11, 1)
        trafLen == BitsOf(lengths, 4, 2) + 1
        trunLen == BitsOf(lengths, 2, 2) + 1
        sampleLen == BitsOf(lengths, 0, 2) + 1
        wide == IF Version(body) = 1 THEN 8 ELSE 4
        entrySize == 2 * wide + trafLen + trunLen + sampleLen
        count == U(body, 12, 4)
        entry(at) ==
            [time |-> U(body, at, wide), moof_offset |-> U(body, at + wide, wide),
             traf_number |-> U(body, at + 2 * wide, trafLen),
             trun_number |-> U(body, at + 2 * wide + trafLen, trunLen),
             sample_number |-> U(body, at + 2 * wide + trafLen + trunLen, sampleLen)]
    IN  IF Len(body) < 16 \/ count > (Len(body) - 16) \div entrySize THEN {}
        ELSE {[track_id |-> U(body, 4, 4),
               entries |-> [i \in 1..count |-> entry(16 + entrySize * (i - 1))]]}

BuildTfra(track_id, entries) ==
    LET octet(n) == IF n > 255 THEN <<255>> ELSE <<n>>
        entry(e) == Num(8, e.time) \o Num(8, e.moof_offset) \o octet(e.traf_number)
                      \o octet(e.trun_number) \o octet(e.sample_number)
    IN  WrapBox("tfra", FullBox(1, 0) \o Num(4, track_id) \o Num(4, 0)
          \o Num(4, Len(entries)) \o Concat([i \in DOMAIN entries |-> entry(entries[i])]))
BuildMfro(mfra_total_size) == WrapBox("mfro", FullBox(0, 0) \o Num(4, mfra_total_size))

(* The tables in order, and the size of the first mfro.                    *)
MfraRecord == [tables : Seq(TfraRecord), mfro_size : SUBSET Nat]
ParseMfra(body) ==
    LET tables(boxes) ==
            LET parsed[i \in 0..Len(boxes)] ==
                  IF i = 0 THEN {<<>>}
                  ELSE IF boxes[i].type # FourCC["tfra"] THEN parsed[i - 1]
                  ELSE {Append(done, t) : <<done, t>> \in parsed[i - 1] \X ParseTfra(boxes[i].body)}
            IN  parsed[Len(boxes)]
        sizes(boxes) ==
            {i \in DOMAIN boxes : boxes[i].type = FourCC["mfro"] /\ Len(boxes[i].body) >= 8}
        first(boxes) ==
            {U(boxes[i].body, 4, 4) : i \in {j \in sizes(boxes) : \A k \in sizes(boxes) : j <= k}}
    IN  UNION {{[tables |-> t, mfro_size |-> first(boxes)] : t \in tables(boxes)} :
                boxes \in StrictBoxes(body, {FourCC["tfra"], FourCC["mfro"]})}

(***************************************************************************)
(* prft                                                                    *)
(***************************************************************************)
PrftRecord ==
    [reference_track_id : Nat, ntp_timestamp : Nat, media_time : Nat,
     version : 0..255, flags : Nat]

ParsePrft(body) ==
    LET wide == IF Version(body) = 0 THEN 4 ELSE 8
    IN  IF Len(body) < 16 \/ Len(body) < 16 + wide THEN {}
        ELSE {[reference_track_id |-> U(body, 4, 4), ntp_timestamp |-> U(body, 8, 8),
               media_time |-> U(body, 16, wide), version |-> Version(body),
               flags |-> Flags(body)]}

(* Flags over 24 bits lose their top octet.                                *)
BuildPrft(record) ==
    LET wide == IF record.version = 0 THEN 4 ELSE 8
    IN  When(record.version <= 1 /\ Fits(wide, record.media_time),
             WrapBox("prft", FullBox(record.version, record.flags)
               \o Num(4, record.reference_track_id) \o Num(8, record.ntp_timestamp)
               \o Num(wide, record.media_time)))

(***************************************************************************)
(* emsg: presentation is <<"delta" or "absolute", time>>.                  *)
(***************************************************************************)
EmsgBox ==
    [scheme_id_uri : Seq(0..255), value : Seq(0..255), timescale : Nat,
     presentation : {"delta", "absolute"} \X Nat, event_duration : Nat, id : Nat,
     message_data : Seq(0..255)]

ParseEmsg(body) ==
    LET texts(at) ==
            UNION {{<<s, v>> : v \in CString(body, s.next)} : s \in CString(body, at)}
        event(fields, wide, s, v, presentation, data) ==
            [scheme_id_uri |-> s.row, value |-> v.row, timescale |-> U(body, fields, 4),
             presentation |-> <<presentation, U(body, fields + 4, wide)>>,
             event_duration |-> U(body, fields + 4 + wide, 4),
             id |-> U(body, fields + 8 + wide, 4), message_data |-> Rest(body, data)]
        readable == {t \in texts(IF Version(body) = 0 THEN 4 ELSE 24) :
                        Utf8(t[1].row) /\ Utf8(t[2].row)}
    IN  IF Len(body) < 4 THEN {}
        ELSE IF Version(body) = 0
        THEN {event(t[2].next, 4, t[1], t[2], "delta", t[2].next + 16) :
                t \in {u \in readable : u[2].next + 16 <= Len(body)}}
        ELSE IF Version(body) = 1 /\ Len(body) >= 24
        THEN {event(4, 8, t[1], t[2], "absolute", t[2].next) : t \in readable}
        ELSE {}

BuildEmsg(e) ==
    LET text(t) == t \o <<0>>
        numbers(wide) == Num(4, e.timescale) \o Num(wide, e.presentation[2])
                           \o Num(4, e.event_duration) \o Num(4, e.id)
        texts == text(e.scheme_id_uri) \o text(e.value)
    IN  When(~HasNul(e.scheme_id_uri) /\ ~HasNul(e.value),
             WrapBox("emsg",
               IF e.presentation[1] = "delta"
               THEN FullBox(0, 0) \o texts \o numbers(4) \o e.message_data
               ELSE FullBox(1, 0) \o numbers(8) \o texts \o e.message_data))

(***************************************************************************)
(* pdin, pnot                                                              *)
(***************************************************************************)
PdinEntry == [rate : Nat, initial_delay : Nat]
PdinRecord == [entries : Seq(PdinEntry)]

ParsePdin(body) ==
    LET entry(at) == [rate |-> U(body, at, 4), initial_delay |-> U(body, at + 4, 4)]
    IN  IF Len(body) < 4 \/ (Len(body) - 4) % 8 # 0 THEN {}
        ELSE {[entries |-> [i \in 1..((Len(body) - 4) \div 8) |-> entry(8 * i - 4)]]}
BuildPdin(record) ==
    {WrapBox("pdin", FullBox(0, 0) \o
        Concat([i \in DOMAIN record.entries |->
                  Num(4, record.entries[i].rate) \o Num(4, record.entries[i].initial_delay)]))}

PnotRecord == [modification_date : Nat, version : Nat, atom_type : Nat, atom_index : Nat]
ParsePnot(body) ==
    When(Len(body) >= 12,
         [modification_date |-> U(body, 0, 4), version |-> U(body, 4, 2),
          atom_type |-> U(body, 6, 4), atom_index |-> U(body, 10, 2)])
BuildPnot(r) ==
    {WrapBox("pnot", Num(4, r.modification_date) \o Num(2, r.version)
       \o Num(4, r.atom_type) \o Num(2, r.atom_index))}

(***************************************************************************)
(* leva: what follows the type of an assignment depends on the type.       *)
(***************************************************************************)
LevaEntry ==
    [track_id : Nat, padding_flag : BOOLEAN, assignment_type : 0..255,
     grouping_type : Nat, grouping_type_parameter : Nat, sub_track_id : Nat]
LevaRecord == [entries : Seq(LevaEntry)]

ParseLeva(body) ==
    LET entry(at) ==
            LET packed == U(body, at + 4, 1)
                type == packed % 128
                tail == IF type = 1 THEN 8 ELSE IF type \in {0, 4} THEN 4 ELSE 0
                field(present, p) == IF present THEN U(body, p, 4) ELSE 0
            IN  When(at + 5 <= Len(body) /\ at + 5 + tail <= Len(body),
                     [row |-> [track_id |-> U(body, at, 4),
                               padding_flag |-> packed >= 128,
                               assignment_type |-> type,
                               grouping_type |-> field(type \in {0, 1}, at + 5),
                               grouping_type_parameter |-> field(type = 1, at + 9),
                               sub_track_id |-> field(type = 4, at + 5)],
                      next |-> at + 5 + tail])
    IN  IF Len(body) < 5 THEN {}
        ELSE {[entries |-> l.rows] : l \in ReadList(entry, 5, U(body, 4, 1), Len(body))}

BuildLeva(record) ==
    LET tail(e) == IF e.assignment_type = 0 THEN Num(4, e.grouping_type)
                   ELSE IF e.assignment_type = 1
                   THEN Num(4, e.grouping_type) \o Num(4, e.grouping_type_parameter)
                   ELSE IF e.assignment_type = 4 THEN Num(4, e.sub_track_id)
                   ELSE <<>>
        entry(e) == Num(4, e.track_id)
                      \o <<BitsWhen(e.padding_flag, 128) + e.assignment_type>> \o tail(e)
        all == record.entries
    IN  When(Len(all) <= 255 /\ \A i \in DOMAIN all : all[i].assignment_type <= 127,
             WrapBox("leva", FullBox(0, 0) \o <<Len(all)>>
               \o Concat([i \in DOMAIN all |-> entry(all[i])])))

(***************************************************************************)
(* assp, and trep which may hold one.                                      *)
(***************************************************************************)
AsspEntry == [grouping_type_parameter : SUBSET Nat, min_initial_alt_startup_offset : Int]
AsspRecord == [version : 0..255, entries : Seq(AsspEntry)]

ParseAssp(body) ==
    LET count == U(body, 4, 4)
        entry(parameter, at) ==
            [grouping_type_parameter |-> parameter,
             min_initial_alt_startup_offset |-> I(body, at, 4)]
    IN  IF Len(body) < 8 THEN {}
        ELSE IF Version(body) = 0 THEN {[version |-> 0, entries |-> <<entry({}, 4)>>]}
        ELSE IF Version(body) # 1 \/ count > (Len(body) - 8) \div 8 THEN {}
        ELSE {[version |-> 1,
               entries |-> [i \in 1..count |-> entry({U(body, 8 * i, 4)}, 8 * i + 4)]]}

(* An entry of version 1 without a parameter gets parameter 0.             *)
BuildAssp(record) ==
    LET parameter(e) == IF e.grouping_type_parameter = {} THEN 0
                        ELSE CHOOSE p \in e.grouping_type_parameter : TRUE
        offset(e) == Num(4, e.min_initial_alt_startup_offset)
        all == record.entries
    IN  IF record.version = 0
        THEN When(Len(all) = 1 /\ all[1].grouping_type_parameter = {},
                  WrapBox("assp", FullBox(0, 0) \o offset(all[1])))
        ELSE When(record.version = 1,
                  WrapBox("assp", FullBox(1, 0) \o Num(4, Len(all))
                    \o Concat([i \in DOMAIN all |->
                                 Num(4, parameter(all[i])) \o offset(all[i])])))

TrepChild == [fourcc : Nat, payload_len : Nat, assp : SUBSET AsspRecord]
TrepRecord == [track_id : Nat, children : Seq(TrepChild)]

(* The walk of trep: a child that overruns is clipped and is the last one, *)
(* one of size 0 reaches to the end.                                       *)
ParseTrep(body) ==
    LET end == Len(body)
        walk[at \in 0..end] ==
          LET size == U(body, at, 4)
              header == IF size = 1 THEN 16 ELSE 8
              declared == IF size = 0 THEN end - at
                          ELSE IF size = 1 THEN U(body, at + 8, 8) ELSE size
              effective == IF declared > end - at THEN end - at ELSE declared
              type == U(body, at + 4, 4)
              payload == Slice(body, at + header, effective - header)
              child == [fourcc |-> type, payload_len |-> effective - header,
                        assp |-> IF type = FourCC["assp"] THEN ParseAssp(payload) ELSE {}]
          IN  IF at + 8 > end \/ (size = 1 /\ at + 16 > end) \/ declared < header THEN <<>>
              ELSE <<child>> \o IF effective < declared THEN <<>> ELSE walk[at + effective]
    IN  IF end < 8 THEN {}
        ELSE {[track_id |-> U(body, 4, 4), children |-> walk[8]]}

BuildTrep(record) ==
    LET child(c) ==
            IF c.assp = {}
            THEN When(c.payload_len = 0, WrapTyped(c.fourcc, <<>>))
            ELSE IF c.fourcc = FourCC["assp"] THEN UNION {BuildAssp(a) : a \in c.assp} ELSE {}
        built[i \in 0..Len(record.children)] ==
            IF i = 0 THEN {<<>>}
            ELSE {done \o c : <<done, c>> \in built[i - 1] \X child(record.children[i])}
    IN  {WrapBox("trep", FullBox(0, 0) \o Num(4, record.track_id) \o children) :
            children \in built[Len(record.children)]}
=============================================================================
