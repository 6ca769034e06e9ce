----------------------------- MODULE TrackBoxes ------------------------------
(***************************************************************************)
(* What a track says of itself (src/demux.rs): copyright, kind, selection  *)
(* and sub-tracks in its udta, references (tref), groups (trgr) and edits  *)
(* (edts, elst).                                                           *)
(***************************************************************************)
EXTENDS BoxReader

(* A text in UTF-8 up to its NUL, or in UTF-16 behind its byte order mark, *)
(* blanks around it removed.  The UTF-16 of the model is that of ASCII.    *)
Blanks == {9, 10, 11, 12, 13, 32}
DecodeUtf8OrUtf16(octets) ==
    LET units == [i \in 1..((Len(octets) - 2) \div 2) |-> octets[2 * i + 2]]
        nul == {i \in DOMAIN octets : octets[i] = 0}
        end == IF nul = {} THEN Len(octets) ELSE (CHOOSE i \in nul : \A j \in nul : i <= j) - 1
    IN  IF Len(octets) >= 2 /\ octets[1] = 254 /\ octets[2] = 255
        THEN Trimmed(Trimmed(<<1>> \o units, {0}), {1} \cup Blanks)
        ELSE Trimmed(Lossy(SubSeq(octets, 1, end)), Blanks)

(***************************************************************************)
(* cprt: the language is three letters of five bits.                       *)
(***************************************************************************)
CopyrightRecord == [language : Seq(96..127), notice : Seq(0..255)]
ParseCprt(body) ==
    LET packed == U(body, 4, 2)
    IN  When(Len(body) >= 6 /\ Version(body) = 0,
             [language |-> [i \in 1..3 |-> 96 + BitsOf(packed, 15 - 5 * i, 5)],
              notice |-> DecodeUtf8OrUtf16(Rest(body, 6))])
BuildCprt(r) ==
    LET letter(i) == r.language[i] - 96
    IN  When((\A i \in 1..3 : r.language[i] \in 97..122) /\ ~HasNul(r.notice),
             WrapBox("cprt", FullBox(0, 0)
               \o Num(2, 1024 * letter(1) + 32 * letter(2) + letter(3)) \o r.notice \o <<0>>))

(***************************************************************************)
(* kind: a scheme, never empty, and a value; both must be UTF-8.           *)
(***************************************************************************)
KindRecord == [scheme_uri : Seq(0..255), value : Seq(0..255)]
ParseKind(body) ==
    LET text(at) == IF CString(body, at) = {} THEN [row |-> Rest(body, at), next |-> Len(body)]
                    ELSE CHOOSE t \in CString(body, at) : TRUE
        uri == text(4)
        value == text(uri.next)
    IN  When(Len(body) >= 4 /\ uri.row # <<>> /\ Utf8(uri.row) /\ Utf8(value.row),
             [scheme_uri |-> uri.row, value |-> value.row])
BuildKind(r) ==
    When(r.scheme_uri # <<>> /\ ~HasNul(r.scheme_uri) /\ ~HasNul(r.value),
         WrapBox("kind", FullBox(0, 0) \o r.scheme_uri \o <<0>> \o r.value \o <<0>>))

(***************************************************************************)
(* tsel, and the sub-tracks strk with their stri and strd of stsg.  Lists  *)
(* of attributes take what is left, in whole words.                        *)
(***************************************************************************)
Attributes(body, at) == Words(body, at, (Len(body) - at) \div 4, "u32")

TselBox == [switch_group : (-Wide)..Wide, attribute_list : Seq(Nat)]
ParseTsel(body) ==
    When(Len(body) >= 8 /\ Version(body) = 0,
         [switch_group |-> I(body, 4, 4), attribute_list |-> Attributes(body, 8)])
BuildTsel(r) ==
    {WrapBox("tsel", FullBox(0, 0) \o Num(4, r.switch_group) \o WriteWords(r.attribute_list, "u32"))}

SubTrackSampleGroup == [grouping_type : Nat, group_description_indices : Seq(Nat)]
ParseStsg(body) ==
    LET item_count == U(body, 8, 2)
    IN  When(Len(body) >= 10 /\ Version(body) = 0 /\ Len(body) >= 10 + 4 * item_count,
             [grouping_type |-> U(body, 4, 4),
              group_description_indices |-> Words(body, 10, item_count, "u32")])
BuildStsg(r) ==
    When(Fits(2, Len(r.group_description_indices)),
         WrapBox("stsg", FullBox(0, 0) \o Num(4, r.grouping_type)
           \o Num(2, Len(r.group_description_indices))
           \o WriteWords(r.group_description_indices, "u32")))

StriLayout == <<<<"switch_group", "i16">>, <<"alternate_group", "i16">>, <<"sub_track_id", "u32">>>>
SubTrack ==
    [info : RecordOf(StriLayout), attribute_list : Seq(Nat),
     sample_groups : Seq(SubTrackSampleGroup)]
ParseStri(body) ==
    When(Len(body) >= 12 /\ Version(body) = 0,
         [info |-> ReadFields(body, 4, StriLayout), attribute_list |-> Attributes(body, 12),
          sample_groups |-> <<>>])
BuildStri(r) ==
    WrapBox("stri", FullBox(0, 0) \o WriteFields(r.info, StriLayout)
      \o WriteWords(r.attribute_list, "u32"))
ParseStrd(body) == RecordsOf(LenientBoxes(body), "stsg", ParseStsg)

(* The last stri and the last strd; without the first there is nothing.    *)
ParseStrk(body) ==
    LET boxes == LenientBoxes(body)
        groups == {ParseStrd(b) : b \in LastOf(boxes, "strd")}
    IN  {[track EXCEPT !.sample_groups = IF groups = {} THEN <<>> ELSE CHOOSE g \in groups : TRUE] :
            track \in UNION {ParseStri(b) : b \in LastOf(boxes, "stri")}}
BuildStrk(r) ==
    {WrapBox("strk", BuildStri(r) \o (IF r.sample_groups = <<>> THEN <<>> ELSE WrapBox("strd", groups))) :
        groups \in BuildAll(BuildStsg, r.sample_groups)}

(***************************************************************************)
(* tref and trgr: every child must be good.  Of two references of a type   *)
(* the first counts, and an id of 0 is no reference.                       *)
(***************************************************************************)
TrackReference == [reference_type : Nat, ids : Seq(Nat)]
ParseTref(known, body) ==
    LET isId(id) == id # 0
        reference(box) == [reference_type |-> box.type,
            ids |-> SelectSeq(Words(box.body, 0, Len(box.body) \div 4, "u32"), isId)]
        first(boxes, i) ==
          /\ \A j \in 1..(i - 1) : boxes[j].type # boxes[i].type
          /\ \A k \in DOMAIN known : known[k].reference_type # boxes[i].type
    IN  {known \o Concat([i \in DOMAIN boxes |->
                   IF first(boxes, i) THEN <<reference(boxes[i])>> ELSE <<>>]) :
            boxes \in {l \in StrictBoxes(body, AnyType) :
                         \A i \in DOMAIN l : Len(l[i].body) % 4 = 0}}
BuildTref(refs) ==
    LET child(r) == WrapTyped(r.reference_type, WriteWords(r.ids, "u32"))
    IN  When(\A i \in DOMAIN refs : \A k \in DOMAIN refs[i].ids : refs[i].ids[k] # 0,
             WrapBox("tref", Concat([i \in DOMAIN refs |-> child(refs[i])])))

TrackGroup == [group_type : Nat, track_group_id : Nat]
ParseTrgr(body) ==
    LET group(box) == IF Version(box.body) # 0 THEN <<>>
                      ELSE <<[group_type |-> box.type, track_group_id |-> U(box.body, 4, 4)]>>
    IN  {Concat([i \in DOMAIN boxes |-> group(boxes[i])]) :
            boxes \in {l \in StrictBoxes(body, AnyType) :
                         \A i \in DOMAIN l : Len(l[i].body) >= 8}}
BuildTrgr(groups) ==
    LET child(g) == WrapTyped(g.group_type, FullBox(0, 0) \o Num(4, g.track_group_id))
    IN  {WrapBox("trgr", Concat([i \in DOMAIN groups |-> child(groups[i])]))}

(***************************************************************************)
(* elst                                                                    *)
(***************************************************************************)
ElstLayout(version) ==
    <<<<"segment_duration", IF version = 1 THEN "u64" ELSE "u32">>,
      <<"media_time", IF version = 1 THEN "i64" ELSE "i32">>,
      <<"media_rate_integer", "i16">>, <<"media_rate_fraction", "i16">>>>
EditListEntry == RecordOf(ElstLayout(0))
ParseElst(body) ==
    LET layout == ElstLayout(Version(body))
    IN  When(Len(body) >= 8 /\ FitRows(body, 8, U(body, 4, 4), layout),
             ReadRows(body, 8, U(body, 4, 4), layout))
(* No list without edits, none that ends empty; rates 0 and 1 only.        *)
BuildElst(entries) ==
    LET wide == \E i \in DOMAIN entries : Wide \in {entries[i].segment_duration, entries[i].media_time}
        version == IF wide THEN 1 ELSE 0
    IN  When(/\ entries # <<>>
             /\ entries[Len(entries)].media_time # -1
             /\ \A i \in DOMAIN entries :
                   entries[i].media_rate_integer \in {0, 1} /\ entries[i].media_time >= -1,
             WrapBox("elst", FullBox(version, 0) \o Num(4, Len(entries))
               \o WriteRows(entries, ElstLayout(version))))
(* The last elst of an edts; any that cannot be read fails it.             *)
ParseEdts(known, body) ==
    UNION {IF boxes = <<>> THEN {known}
           ELSE IF \E i \in DOMAIN boxes : ParseElst(boxes[i].body) = {} THEN {}
           ELSE ParseElst(boxes[Len(boxes)].body) :
             boxes \in StrictBoxes(body, {FourCC["elst"]})}
=============================================================================
