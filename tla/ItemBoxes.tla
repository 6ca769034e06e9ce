------------------------------ MODULE ItemBoxes ------------------------------
(***************************************************************************)
(* Untimed items (src/demux.rs): where their data is (iloc, idat), what    *)
(* they are (iinf, infe, pitm), how they relate (iref), their properties   *)
(* (iprp, ipco, ipma) and their groups (grpl), all in a meta box, of which *)
(* a meco box may hold more.                                               *)
(***************************************************************************)
EXTENDS MediaBoxes, FdBoxes, FiniteSets

(***************************************************************************)
(* iloc: the widths of its numbers are its own.                            *)
(***************************************************************************)
IlocExtent == [extent_index : Nat, extent_offset : Nat, extent_length : Nat]
IlocItem ==
    [item_id : Nat, construction_method : 0..15, data_reference_index : Nat,
     base_offset : Nat, extents : Seq(IlocExtent)]
FieldWidths == {0, 4, 8}
IlocBox ==
    [version : 0..2, offset_size : FieldWidths, length_size : FieldWidths,
     base_offset_size : FieldWidths, index_size : FieldWidths, items : Seq(IlocItem)]

(* A number of a width that may be none, which reads as zero.              *)
SizedBe(body, at, width) == IF width = 0 THEN 0 ELSE U(body, at, width)
WriteSizedBe(value, width) == IF width = 0 THEN <<>> ELSE Num(width, value)

ParseIloc(body) ==
    LET version == Version(body)
        numbered == version \in {1, 2}
        idWidth == IF version < 2 THEN 2 ELSE 4
        offset_size == U(body, 4, 1) \div 16
        length_size == U(body, 4, 1) % 16
        base_offset_size == U(body, 5, 1) \div 16
        index_size == IF numbered THEN U(body, 5, 1) % 16 ELSE 0
        extentWidth == index_size + offset_size + length_size
        extent(at) ==
            [extent_index |-> SizedBe(body, at, index_size),
             extent_offset |-> SizedBe(body, at + index_size, offset_size),
             extent_length |-> SizedBe(body, at + index_size + offset_size, length_size)]
        item(at) ==
            LET method == at + idWidth
                reference == IF numbered THEN method + 2 ELSE method
                base == reference + 2
                count == base + base_offset_size
                extent_count == U(body, count, 2)
                next == count + 2 + extentWidth * extent_count
            IN  When(count + 2 <= Len(body) /\ next <= Len(body),
                     [row |-> [item_id |-> U(body, at, idWidth),
                               construction_method |->
                                   IF numbered THEN U(body, method + 1, 1) % 16 ELSE 0,
                               data_reference_index |-> U(body, reference, 2),
                               base_offset |-> SizedBe(body, base, base_offset_size),
                               extents |-> [i \in 1..extent_count |->
                                              extent(count + 2 + extentWidth * (i - 1))]],
                      next |-> next])
    IN  IF \/ Len(body) < 6 \/ version > 2
           \/ ~({offset_size, length_size, base_offset_size, index_size} \subseteq FieldWidths)
           \/ 6 + idWidth > Len(body)
        THEN {}
        ELSE {[version |-> version, offset_size |-> offset_size, length_size |-> length_size,
               base_offset_size |-> base_offset_size, index_size |-> index_size,
               items |-> l.rows] :
                l \in ReadList(item, 6 + idWidth, U(body, 6, idWidth), Len(body))}

(* Numbers wider than their fields lose their top octets, and a field of   *)
(* no width loses its number.                                              *)
BuildIloc(b) ==
    LET numbered == b.version \in {1, 2}
        idWidth == IF b.version < 2 THEN 2 ELSE 4
        extent(e) == (IF numbered THEN WriteSizedBe(e.extent_index, b.index_size) ELSE <<>>)
                       \o WriteSizedBe(e.extent_offset, b.offset_size)
                       \o WriteSizedBe(e.extent_length, b.length_size)
        item(it) == Num(idWidth, it.item_id)
                      \o (IF numbered THEN Num(2, it.construction_method) ELSE <<>>)
                      \o Num(2, it.data_reference_index)
                      \o WriteSizedBe(it.base_offset, b.base_offset_size)
                      \o Num(2, Len(it.extents))
                      \o Concat([i \in DOMAIN it.extents |-> extent(it.extents[i])])
        sizes == {b.offset_size, b.length_size, b.base_offset_size, b.index_size}
        methods == {b.items[i].construction_method : i \in DOMAIN b.items}
    IN  When(/\ sizes \subseteq FieldWidths
             /\ b.version <= 2
             /\ b.version = 0 => b.index_size = 0
             /\ methods \subseteq (IF numbered THEN 0..15 ELSE {0}),
             WrapBox("iloc", FullBox(b.version, 0)
               \o <<16 * b.offset_size + b.length_size,
                    16 * b.base_offset_size + BitsWhen(numbered, b.index_size)>>
               \o Num(idWidth, Len(b.items))
               \o Concat([i \in DOMAIN b.items |-> item(b.items[i])])))

(***************************************************************************)
(* pitm, infe and iinf                                                     *)
(***************************************************************************)
ParsePitm(body) ==
    LET wide == IF Version(body) = 0 THEN 2 ELSE 4
    IN  When(Len(body) >= 4 /\ 4 + wide <= Len(body), U(body, 4, wide))
BuildPitm(item_id) ==
    {WrapBox("pitm", IF Fits(2, item_id) THEN FullBox(0, 0) \o Num(2, item_id)
                     ELSE FullBox(1, 0) \o Num(4, item_id))}

ItemInfoEntry ==
    [item_id : Nat, protection_index : Nat, item_type : Nat, item_name : Seq(0..255),
     content_type : Seq(0..255), content_encoding : Seq(0..255), version : 0..255]
IinfBox == [entries : Seq(ItemInfoEntry)]

(* A text up to its NUL or, without one, to the end.                       *)
CStringAt(body, at) ==
    LET found == CString(body, at)
    IN  IF found = {} THEN [row |-> Lossy(Rest(body, at)), next |-> Len(body)]
        ELSE CHOOSE c \in {[f EXCEPT !.row = Lossy(f.row)] : f \in found} : TRUE

ParseInfe(body) ==
    LET version == Version(body)
        old == version \in {0, 1}
        idWidth == IF version > 2 THEN 4 ELSE 2
        typeAt == 4 + idWidth + 2
        item_type == IF old THEN 0 ELSE U(body, typeAt, 4)
        name == CStringAt(body, IF old THEN 8 ELSE typeAt + 4)
        mime == old \/ item_type = FourCC["mime"]
        content == CStringAt(body, name.next)
        encoding == IF mime THEN CStringAt(body, content.next) ELSE CStringAt(body, name.next)
        encoded == (mime /\ content.next < Len(body)) \/ (~mime /\ item_type = FourCC["uri "])
    IN  When(Len(body) >= (IF old THEN 8 ELSE typeAt + 4),
             [item_id |-> U(body, 4, idWidth), protection_index |-> U(body, 4 + idWidth, 2),
              item_type |-> item_type, item_name |-> name.row,
              content_type |-> IF mime THEN content.row ELSE <<>>,
              content_encoding |-> IF encoded THEN encoding.row ELSE <<>>,
              version |-> version])

BuildInfe(e) ==
    LET text(t) == t \o <<0>>
        old == e.version \in {0, 1}
        mime == text(e.content_type)
                  \o (IF e.content_encoding = <<>> THEN <<>> ELSE text(e.content_encoding))
        tail == IF old \/ e.item_type = FourCC["mime"] THEN mime
                ELSE IF e.item_type = FourCC["uri "] THEN text(e.content_encoding)
                ELSE <<>>
    IN  When(/\ e.version <= 3
             /\ ~HasNul(e.item_name) /\ ~HasNul(e.content_type) /\ ~HasNul(e.content_encoding),
             WrapBox("infe", FullBox(e.version, 0)
               \o Num(IF e.version = 3 THEN 4 ELSE 2, e.item_id) \o Num(2, e.protection_index)
               \o (IF old THEN <<>> ELSE Num(4, e.item_type)) \o text(e.item_name) \o tail))

(* As many boxes as the count says are looked at; those that are no infe,  *)
(* or no good one, count but are left out.                                 *)
ParseIinf(body) ==
    LET wide == IF Version(body) = 0 THEN 2 ELSE 4
        boxes == LenientBoxes(Rest(body, 4 + wide))
        count == U(body, 4, wide)
        looked == IF count < Len(boxes) THEN count ELSE Len(boxes)
    IN  When(Len(body) >= 4 /\ 4 + wide <= Len(body),
             [entries |-> RecordsOf(SubSeq(boxes, 1, looked), "infe", ParseInfe)])

BuildIinf(b) ==
    {WrapBox("iinf", FullBox(0, 0) \o Num(2, Len(b.entries)) \o entries) :
        entries \in BuildAll(BuildInfe, b.entries)}

(***************************************************************************)
(* iref.  A reference too short for its ends is left out; one with fewer   *)
(* ends than it says keeps those it has.                                   *)
(***************************************************************************)
ItemReference == [reference_type : Nat, from_item_id : Nat, to_item_ids : Seq(Nat)]
IrefBox == [version : 0..1, references : Seq(ItemReference)]

ParseIref(body) ==
    LET wide == IF Version(body) = 0 THEN 2 ELSE 4
        reference(box) ==
            LET said == U(box.body, wide, 2)
                held == (Len(box.body) - wide - 2) \div wide
                count == IF said < held THEN said ELSE held
            IN  IF Len(box.body) < wide + 2 THEN <<>>
                ELSE <<[reference_type |-> box.type, from_item_id |-> U(box.body, 0, wide),
                        to_item_ids |->
                            [i \in 1..count |-> U(box.body, 2 + wide * i, wide)]]>>
        boxes == LenientBoxes(Rest(body, 4))
    IN  When(Len(body) >= 4 /\ Version(body) <= 1,
             [version |-> Version(body),
              references |-> Concat([i \in DOMAIN boxes |-> reference(boxes[i])])])

BuildIref(b) ==
    LET wide == IF b.version = 0 THEN 2 ELSE 4
        ids(list) == Concat([i \in DOMAIN list |-> Num(wide, list[i])])
        reference(r) == WrapTyped(r.reference_type,
            Num(wide, r.from_item_id) \o Num(2, Len(r.to_item_ids)) \o ids(r.to_item_ids))
    IN  When(b.version <= 1 /\ \A i \in DOMAIN b.references :
                                 Fits(2, Len(b.references[i].to_item_ids)),
             WrapBox("iref", FullBox(b.version, 0)
               \o Concat([i \in DOMAIN b.references |-> reference(b.references[i])])))

(***************************************************************************)
(* Properties, each a box of its own.  Those of fixed layout behind a full *)
(* box header, and those of one masked octet, are read alike; a body too   *)
(* short for its type makes a property of the form "other".                *)
(***************************************************************************)
FullProperty ==
    [ispe |-> <<<<"image_width", "u32">>, <<"image_height", "u32">>>>,
     rloc |-> <<<<"horizontal_offset", "u32">>, <<"vertical_offset", "u32">>>>,
     iscl |-> <<<<"target_width_numerator", "u16">>, <<"target_width_denominator", "u16">>,
                <<"target_height_numerator", "u16">>, <<"target_height_denominator", "u16">>>>,
     crtt |-> <<<<"creation_time", "u64">>>>,
     mdft |-> <<<<"modification_time", "u64">>>>]
MaskedProperty == [irot |-> 4, imir |-> 2]
ItemProperty ==
    [form : {"ispe"}, fields : RecordOf(FullProperty.ispe)]
    \cup [form : {"rloc"}, fields : RecordOf(FullProperty.rloc)]
    \cup [form : {"iscl"}, fields : RecordOf(FullProperty.iscl)]
    \cup [form : {"crtt"}, fields : RecordOf(FullProperty.crtt)]
    \cup [form : {"mdft"}, fields : RecordOf(FullProperty.mdft)]
    \cup [form : DOMAIN MaskedProperty, value : 0..3]
    \cup [form : {"lsel"}, value : Nat]
    \cup [form : {"pixi", "rref"}, list : Seq(Nat)]
    \cup [form : {"auxC"}, texts : Seq(Seq(0..255)), aux_subtype : Seq(0..255)]
    \cup [form : {"udes", "altt"}, texts : Seq(Seq(0..255))]
    \cup [form : {"pasp"}, fields : PaspRecord] \cup [form : {"clap"}, fields : ClapRecord]
    \cup [form : {"colr"}, fields : ColrRecord]
    \cup [form : {"other"}, box_type : Nat, body : Seq(0..255)]
TextProperty == [udes |-> 4, altt |-> 2]

(* `count` texts, one after the other; those behind the end are empty.     *)
TextsAt(body, at, count) ==
    LET text[i \in 1..count] == CStringAt(body, IF i = 1 THEN at ELSE text[i - 1].next)
    IN  [i \in 1..count |-> text[i].row]

ParseItemProperty(box) ==
    LET body == box.body
        listOf(width) == [i \in 1..U(body, 4, 1) |-> U(body, 5 + width * (i - 1), width)]
        list(code, width) ==
            {[form |-> code, list |-> listOf(width)] :
                c \in {x \in {code} : /\ box.type = FourCC[x] /\ Len(body) >= 5
                                      /\ 5 + width * U(body, 4, 1) <= Len(body)}}
        fields(code, Parse(_)) ==
            {[form |-> code, fields |-> r] :
                r \in UNION {Parse(body) : x \in {x \in {code} : box.type = FourCC[x]}}}
        known ==
            {[form |-> f, fields |-> ReadFields(body, 4, FullProperty[f])] :
                f \in {f \in DOMAIN FullProperty :
                          box.type = FourCC[f] /\ FitFields(body, 4, FullProperty[f])}}
            \cup {[form |-> f, value |-> body[1] % MaskedProperty[f]] :
                f \in {f \in DOMAIN MaskedProperty : box.type = FourCC[f] /\ body # <<>>}}
            \cup {[form |-> f, texts |-> TextsAt(body, 4, TextProperty[f])] :
                f \in {f \in DOMAIN TextProperty : box.type = FourCC[f] /\ Len(body) >= 4}}
            \cup When(box.type = FourCC["lsel"] /\ Len(body) >= 2,
                      [form |-> "lsel", value |-> U(body, 0, 2)])
            \cup When(box.type = FourCC["auxC"] /\ Len(body) >= 4,
                      [form |-> "auxC", texts |-> TextsAt(body, 4, 1),
                       aux_subtype |-> Rest(body, CStringAt(body, 4).next)])
            \cup list("pixi", 1) \cup list("rref", 4)
            \cup fields("pasp", ParsePasp) \cup fields("clap", ParseClap)
            \cup fields("colr", ParseColr)
    IN  IF known = {} THEN [form |-> "other", box_type |-> box.type, body |-> body]
        ELSE CHOOSE p \in known : TRUE

(* A list longer than 255 loses the top of its count.                      *)
BuildItemProperty(p) ==
    LET text(t) == t \o <<0>>
        texts == Concat([i \in DOMAIN p.texts |-> text(p.texts[i])])
        list(width) == Concat([i \in DOMAIN p.list |-> Num(width, p.list[i])])
        full(body) == {WrapBox(p.form, FullBox(0, 0) \o body)}
    IN  CASE p.form \in DOMAIN FullProperty -> full(WriteFields(p.fields, FullProperty[p.form]))
          [] p.form \in DOMAIN MaskedProperty ->
                {WrapBox(p.form, <<p.value % MaskedProperty[p.form]>>)}
          [] p.form = "lsel" -> {WrapBox("lsel", Num(2, p.value))}
          [] p.form = "pixi" -> full(Num(1, Len(p.list)) \o list(1))
          [] p.form = "rref" -> full(Num(1, Len(p.list)) \o list(4))
          [] p.form = "auxC" -> full(texts \o p.aux_subtype)
          [] p.form \in DOMAIN TextProperty -> full(texts)
          [] p.form = "pasp" -> BuildPasp(p.fields)
          [] p.form = "clap" -> BuildClap(p.fields)
          [] p.form = "colr" -> BuildColr(p.fields)
          [] p.form = "other" -> {WrapTyped(p.box_type, p.body)}

(***************************************************************************)
(* ipco, ipma and iprp                                                     *)
(***************************************************************************)
ParseIpco(body) ==
    LET boxes == SizedBoxes(body)
    IN  [i \in DOMAIN boxes |-> ParseItemProperty(boxes[i])]
BuildIpco(properties) ==
    {WrapBox("ipco", octets) : octets \in BuildAll(BuildItemProperty, properties)}

PropertyAssociation == [essential : BOOLEAN, property_index : Nat]
ItemPropertyAssociationEntry == [item_id : Nat, associations : Seq(PropertyAssociation)]
ItemProperties ==
    [properties : Seq(ItemProperty), associations : Seq(ItemPropertyAssociationEntry)]

(* Entries up to the end of the box; one cut short keeps what it has and   *)
(* is the last.                                                            *)
ParseIpma(body) ==
    LET wideId == IF Version(body) = 0 THEN 2 ELSE 4
        wideIndex == IF Bit(Flags(body), 0) THEN 2 ELSE 1
        association(at) ==
            [essential |-> U(body, at, 1) >= 128,
             property_index |-> U(body, at, wideIndex) % (128 * 256^(wideIndex - 1))]
        entries[at \in 8..(Len(body) + 1), left \in 0..Len(body)] ==
            LET first == at + wideId + 1
                said == U(body, at + wideId, 1)
                held == (Len(body) - first) \div wideIndex
                count == IF said < held THEN said ELSE held
            IN  IF left = 0 \/ first > Len(body) THEN <<>>
                ELSE <<[item_id |-> U(body, at, wideId),
                        associations |->
                            [i \in 1..count |-> association(first + wideIndex * (i - 1))]]>>
                       \o (IF said > held THEN <<>>
                           ELSE entries[first + wideIndex * count, left - 1])
        said == U(body, 4, 4)
    IN  IF Len(body) < 8 THEN <<>>
        ELSE entries[8, IF said > Len(body) THEN Len(body) ELSE said]

(* Sorted by item, entries of one item in their order; the width of the    *)
(* ids and indices is the least that takes them all.                       *)
BuildIpma(entries) ==
    LET before(i, j) == \/ entries[i].item_id < entries[j].item_id
                        \/ entries[i].item_id = entries[j].item_id /\ i <= j
        rank(i) == Cardinality({j \in DOMAIN entries : before(j, i)})
        sorted == [n \in DOMAIN entries |->
                     entries[CHOOSE i \in DOMAIN entries : rank(i) = n]]
        indices == UNION {{entries[i].associations[a].property_index :
                             a \in DOMAIN entries[i].associations} : i \in DOMAIN entries}
        wideId == \E i \in DOMAIN entries : entries[i].item_id > 65535
        wideIndex == \E x \in indices : x > 127
        association(a) ==
            IF wideIndex THEN Num(2, BitsWhen(a.essential, 32768) + a.property_index)
            ELSE Num(1, BitsWhen(a.essential, 128) + a.property_index)
        entry(e) == Num(IF wideId THEN 4 ELSE 2, e.item_id) \o Num(1, Len(e.associations))
            \o Concat([i \in DOMAIN e.associations |-> association(e.associations[i])])
    IN  When(\A x \in indices : x <= 32767,
             WrapBox("ipma",
               FullBox(IF wideId THEN 1 ELSE 0, BitsWhen(wideIndex, 1))
               \o Num(4, Len(entries)) \o Concat([n \in DOMAIN sorted |-> entry(sorted[n])])))

(* The last ipco counts, and every ipma.                                   *)
ParseIprp(body) ==
    LET boxes == SizedBoxes(body)
        ipma(box) == IF box.type = FourCC["ipma"] THEN ParseIpma(box.body) ELSE <<>>
        ipco == LastOf(boxes, "ipco")
    IN  [properties |-> IF ipco = {} THEN <<>> ELSE ParseIpco(CHOOSE b \in ipco : TRUE),
         associations |-> Concat([i \in DOMAIN boxes |-> ipma(boxes[i])])]
BuildIprp(p) ==
    {WrapBox("iprp", ipco \o ipma) :
        ipco \in BuildIpco(p.properties),
        ipma \in IF p.associations = <<>> THEN {<<>>} ELSE BuildIpma(p.associations)}

(* property, properties_for: index 0 and those past the end say nothing.   *)
Property(p, index) == {p.properties[i] : i \in {index} \cap DOMAIN p.properties}
PropertiesFor(p, item_id) ==
    LET of(e) == IF e.item_id # item_id THEN <<>>
            ELSE Concat([a \in DOMAIN e.associations |->
                   IF Property(p, e.associations[a].property_index) = {} THEN <<>>
                   ELSE <<<<e.associations[a].essential,
                            CHOOSE x \in Property(p, e.associations[a].property_index) : TRUE>>>>])
    IN  Concat([i \in DOMAIN p.associations |-> of(p.associations[i])])

(***************************************************************************)
(* grpl                                                                    *)
(***************************************************************************)
EntityToGroup == [grouping_type : Nat, group_id : Nat, entity_ids : Seq(Nat)]
EntityGroups == [groups : Seq(EntityToGroup)]

ParseEntityToGroup(box) ==
    LET count == U(box.body, 8, 4)
    IN  When(Len(box.body) >= 12 /\ count <= (Len(box.body) - 12) \div 4,
             [grouping_type |-> box.type, group_id |-> U(box.body, 4, 4),
              entity_ids |-> [i \in 1..count |-> U(box.body, 8 + 4 * i, 4)]])
BuildEntityToGroup(g) ==
    WrapTyped(g.grouping_type, FullBox(0, 0) \o Num(4, g.group_id) \o Num(4, Len(g.entity_ids))
      \o Concat([i \in DOMAIN g.entity_ids |-> Num(4, g.entity_ids[i])]))
ParseGrpl(body) ==
    LET boxes == SizedBoxes(body)
        group(box) == LET g == ParseEntityToGroup(box)
                      IN  IF g = {} THEN <<>> ELSE <<CHOOSE x \in g : TRUE>>
    IN  [groups |-> Concat([i \in DOMAIN boxes |-> group(boxes[i])])]
BuildGrpl(g) ==
    {WrapBox("grpl", Concat([i \in DOMAIN g.groups |-> BuildEntityToGroup(g.groups[i])]))}

(***************************************************************************)
(* The items of a meta box: the last box of each type counts, one that     *)
(* cannot be read or says nothing leaves what there is, but for iloc, iinf,*)
(* iref and fiin.                                                          *)
(***************************************************************************)
MetaItems ==
    [primary_item_id : SUBSET Nat, handler_type : Nat, iloc : SUBSET IlocBox,
     iinf : SUBSET IinfBox, iref : SUBSET IrefBox, idat : Seq(0..255),
     fiin : SUBSET FiinBox, iprp : SUBSET ItemProperties, grpl : SUBSET EntityGroups]

(* What the last of those that say something says.                         *)
LastSaid(boxes, code, Parse(_)) ==
    LET said == {i \in DOMAIN boxes : boxes[i].type = FourCC[code] /\ Parse(boxes[i].body) # {}}
    IN  UNION {Parse(boxes[i].body) : i \in {i \in said : \A j \in said : j <= i}}

ParseMetaItems(body) ==
    LET boxes == LenientBoxes(Rest(body, 4))
        handler(b) == When(Len(b) >= 12, U(b, 8, 4))
        iprp(b) == {p \in {ParseIprp(b)} : p.properties # <<>> \/ p.associations # <<>>}
        grpl(b) == {g \in {ParseGrpl(b)} : g.groups # <<>>}
        one(found, default) == IF found = {} THEN default ELSE CHOOSE x \in found : TRUE
    IN  [primary_item_id |-> LastSaid(boxes, "pitm", ParsePitm),
         handler_type |-> one(LastSaid(boxes, "hdlr", handler), 0),
         iloc |-> ReadLast(boxes, "iloc", ParseIloc),
         iinf |-> ReadLast(boxes, "iinf", ParseIinf),
         iref |-> ReadLast(boxes, "iref", ParseIref),
         idat |-> one(LastOf(boxes, "idat"), <<>>),
         fiin |-> ReadLast(boxes, "fiin", ParseFiin),
         iprp |-> LastSaid(boxes, "iprp", iprp),
         grpl |-> LastSaid(boxes, "grpl", grpl)]

(* iloc_item and item_info: the first with the id.                         *)
FirstWithId(list, item_id) ==
    LET those == {i \in DOMAIN list : list[i].item_id = item_id}
    IN  {list[i] : i \in {i \in those : \A j \in those : i <= j}}
IlocItemOf(meta, item_id) == UNION {FirstWithId(b.items, item_id) : b \in meta.iloc}
ItemInfo(meta, item_id) == UNION {FirstWithId(b.entries, item_id) : b \in meta.iinf}

(* Sums end at Wide, as all numbers of the model do.                       *)
Saturated(n) == IF n > Wide THEN Wide ELSE n
ItemByteRanges(meta, item_id) ==
    {[i \in DOMAIN it.extents |->
        [offset |-> Saturated(it.base_offset + it.extents[i].extent_offset),
         length |-> it.extents[i].extent_length]] : it \in IlocItemOf(meta, item_id)}

(* An only extent of no length is all of idat behind its start; one that   *)
(* does not fit fails the item.                                            *)
ItemDataFromIdat(meta, item_id) ==
    LET size == Len(meta.idat)
        start(it, i) == Saturated(it.base_offset + it.extents[i].extent_offset)
        implied(it) == Len(it.extents) = 1 /\ it.extents[1].extent_length = 0
        length(it, i) == IF implied(it) THEN size - start(it, i) ELSE it.extents[i].extent_length
        fits(it) == \A i \in DOMAIN it.extents :
            start(it, i) <= size /\ length(it, i) <= size - start(it, i)
    IN  {Concat([i \in DOMAIN it.extents |-> Slice(meta.idat, start(it, i), length(it, i))]) :
            it \in {it \in IlocItemOf(meta, item_id) : it.construction_method = 1 /\ fits(it)}}

(***************************************************************************)
(* meco: more meta boxes, and how two of them relate.                      *)
(***************************************************************************)
MereRelation ==
    <<<<"first_metabox_handler_type", "u32">>, <<"second_metabox_handler_type", "u32">>,
      <<"metabox_relation", "u8">>>>
ParseMere(body) == When(FitFields(body, 4, MereRelation), ReadFields(body, 4, MereRelation))
BuildMere(r) == {WrapBox("mere", FullBox(0, 0) \o WriteFields(r, MereRelation))}

MecoBox == [metas : Seq(MetaItems), relations : Seq(RecordOf(MereRelation))]
ParseMeco(body) ==
    LET boxes == LenientBoxes(body)
    IN  [metas |-> RecordsOf(boxes, "meta", LAMBDA b : {ParseMetaItems(b)}),
         relations |-> RecordsOf(boxes, "mere", ParseMere)]
=============================================================================
