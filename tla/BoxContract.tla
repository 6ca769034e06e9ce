----------------------------- MODULE BoxContract ------------------------------
(***************************************************************************)
(* What the box codecs promise: reading never leaves the box, says what    *)
(* was written, and notices a box that was cut.                            *)
(***************************************************************************)
EXTENDS BoxBench

Demux == INSTANCE FragDemux

RecordType ==
    [roll |-> RecordOf(RollLayout), rash |-> RateShareEntry, alst |-> AlternativeStartupEntry,
     tele |-> [level_independently_decodable : BOOLEAN], gmhd |-> GminBox,
     ssix |-> SsixRecord, prft |-> PrftRecord, emsg |-> EmsgBox, pdin |-> PdinRecord, pnot |-> PnotRecord,
     leva |-> LevaRecord, assp |-> AsspRecord, trep |-> TrepRecord, tfra |-> TfraRecord, mfra |-> MfraRecord,
     sidx |-> SidxRecord, cprt |-> CopyrightRecord, kind |-> KindRecord, tsel |-> TselBox, strk |-> SubTrack,
     tref |-> Seq(TrackReference), trgr |-> Seq(TrackGroup), elst |-> Seq(EditListEntry), gmin |-> GminBox,
     tcmi |-> TcmiBox, tmcd |-> TmcdSampleEntry, text |-> TextSampleEntry, load |-> LoadSettingsBox,
     srpp |-> SrppBox, hinf |-> HintStatistics, rtp |-> RtpHintSampleEntry, sm2t |-> Mpeg2TsHintSampleEntry,
     stvi |-> StviRecord, colr |-> ColrRecord, subs |-> SubsBox, saiz |-> SaizBox, saio |-> SaioBox,
     sbgp |-> SbgpBox, sgpd |-> SgpdBox, csgp |-> CsgpBox, tenc |-> CencParams, seig |-> CencParams,
     pssh |-> PsshBox, senc |-> SencBox]
  @@ ("rap " :> [num_leading_samples_known : BOOLEAN, num_leading_samples : 0..127])
  @@ ("sap " :> [dependent_flag : BOOLEAN, sap_type : 0..15])
ItemType ==
    [iloc |-> Items!IlocBox, pitm |-> Nat, iinf |-> Items!IinfBox, iref |-> Items!IrefBox,
     iprp |-> Items!ItemProperties, grpl |-> Items!EntityGroups, fiin |-> Items!FiinBox,
     feci |-> RecordOf(Items!FeciBox), mere |-> RecordOf(Items!MereRelation),
     meta |-> [primary_item_id : SUBSET Nat, handler_type : Nat, iloc : SUBSET Items!IlocBox,
               iinf : SUBSET Items!IinfBox, idat : Seq(0..255), item : SUBSET Items!ItemInfoEntry,
               ranges : SUBSET Seq([offset : Nat, length : Nat]), data : SUBSET Seq(0..255)]]
TrafType ==
    [tfhd : [track : Nat, base : SUBSET Nat, sdi : SUBSET Nat, duration : SUBSET Nat, size : SUBSET Nat,
             flags : SUBSET BOOLEAN, empty : BOOLEAN],
     truns : Seq([dataOffset : SUBSET ((-Wide)..Wide), first : SUBSET BOOLEAN,
                  rows : Seq([duration : SUBSET Nat, size : SUBSET Nat, flags : SUBSET BOOLEAN,
                              cts : SUBSET ((-Wide)..Wide)])]),
     bmdt : SUBSET Nat, senc : SUBSET SencBox, piff : SUBSET PiffSencBox, saiz : Seq(SaizBox),
     saio : Seq(SaioBox), sgpd : Seq(SgpdBox), sbgp : Seq(SbgpBox), csgp : Seq(CsgpBox)]
MoofType ==
    [sequence : Nat, trafs : Seq(TrafType), psshes : Seq(PsshBox), piff_psshes : Seq(PsshBox)]
FoundType ==
    [stz2 |-> Seq(0..65535), sdtp |-> Seq(SdtpEntry), stdp |-> Seq(0..65535), padb |-> Seq(0..7),
     stsh |-> Seq(RecordOf(StshLayout)), hmhd |-> HmhdBox, elng |-> Seq(0..255), mehd |-> Nat,
     dref |-> Seq(DataEntry), meco |-> Items!MecoBox, traf |-> TrafType,
     adts |-> [sample : Seq(0..255), config : SUBSET Seq(0..255)], pcm |-> [codec : STRING, data : SUBSET Seq(0..255)],
     udta |-> Seq([key : [item : STRING, of : Seq(Seq(0..255))], value : Seq(0..255)])]
StreamType ==
    [codec : STRING, media_type : STRING, channels : SUBSET (0..65535), sample_rate : SUBSET Nat,
     bits : SUBSET Nat, width : SUBSET (0..65535), height : SUBSET (0..65535), extradata : Seq(0..255)]
TrackTypeOK(t) ==
    /\ t.stream \in StreamType /\ t.timescale \in Nat /\ t.duration \in Nat
    /\ t.stts \in Seq(RecordOf(SttsLayout)) /\ t.ctts \in Seq(RecordOf(CttsLayout))
    /\ t.stsc \in Seq(RecordOf(StscLayout)) /\ t.stsz \in Seq(Nat) /\ t.elst \in Seq(EditListEntry)
    /\ t.sbgp \in Seq(SbgpBox) /\ t.sgpd \in Seq(SgpdBox) /\ t.csgp \in Seq(CsgpBox)
    /\ t.tenc \subseteq CencParams

(* Whatever the octets, and wherever a box was cut, a reader stays inside  *)
(* the box - a number read from behind its end is none of the type's - and *)
(* makes a record whose fields are in range.                               *)
BoxTypeOK ==
    \A r \in read :
        CASE kind \in DOMAIN RecordType -> r \in RecordType[kind]
          [] kind \in DOMAIN ItemType -> r \in ItemType[kind]
          [] kind \in ReadOnly -> r \in FoundType[kind]
          [] kind = "piff tenc" -> r \in PiffTencBox
          [] kind = "piff senc" -> r \in PiffSencBox
          [] kind = "piff pssh" -> r \in PsshBox
          [] kind = "stream" -> r \in StreamType
          [] kind = "moof" -> r \in MoofType
          [] kind = "moov" -> \A i \in DOMAIN r.tracks : TrackTypeOK(r.tracks[i])

Intact == damage \in {"none", "rewritten"}

(* The writer of group descriptions has no room for the lengths of their   *)
(* entries beside a default index: such a box comes back as one blob, or   *)
(* without the index.                                                      *)
Carried == kind = "sgpd" => record.default_sample_description_index = {}

(***************************************************************************)
(* What counts of a record that was read (Normal), and what that has to be *)
(* for the record that was written (Expected).                             *)
(***************************************************************************)
(* The width of an index is the writer's choice: the least that holds all. *)
(* The index of a sample is that of its pattern, which comes round and     *)
(* round; a pattern without indices takes no sample.                       *)
SampleCount == 5
IndicesOf(p) == {p.indices[k] : k \in DOMAIN p.indices}
GroupsOfSamples(box) ==
    LET used == SelectSeq(box.patterns, LAMBDA p : p.indices # <<>>)
        counted(p) == p.sample_count
        before(i) == Run!SumOf(SubSeq(used, 1, i - 1), counted)
        those(n) == {i \in DOMAIN used : before(i) < n /\ n - before(i) <= used[i].sample_count}
        raw(n, i) == used[i].indices[((n - before(i) - 1) % Len(used[i].indices)) + 1]
        greatest == Max({0} \cup UNION {IndicesOf(used[i]) : i \in DOMAIN used})
        local == IF greatest < 16 THEN 8 ELSE IF greatest < 256 THEN 128 ELSE IF greatest < 65536 THEN 32768 ELSE Wide
        resolved(v) == IF box.msb_fragment_local /\ v >= local /\ local # Wide
                       THEN [fragment_local |-> TRUE, value |-> v - local] ELSE [fragment_local |-> FALSE, value |-> v]
    IN  [n \in 1..SampleCount |->
            IF those(n) = {} THEN [fragment_local |-> FALSE, value |-> 0]
            ELSE resolved(raw(n, CHOOSE i \in those(n) : TRUE))]
PatternsWith(r, samples) == [[r EXCEPT !.index_field_bits = 4] EXCEPT !.patterns = <<@, samples>>]

(* The samples of a fragment as the demuxer lists them, with no default of *)
(* the movie to lean on; what the auxiliary information points at; and the *)
(* key each sample is said to have.                                        *)
SampleFields == {"offset", "dts", "duration", "size", "key", "cts"}
Shown(listed) == [k \in DOMAIN listed |-> [f \in SampleFields |-> listed[k][f]]]
ListedSamples(tracks, m, t) ==
    LET file == [tracks |-> [i \in DOMAIN tracks |->
                   [id |-> tracks[i].track_id, scale |-> 1, elst |-> <<>>, ivSize |-> {},
                    trex |-> [sdi |-> 1, duration |-> 0, size |-> 0, key |-> FALSE]]]]
        none == [samples |-> <<>>, sencs |-> <<>>, sais |-> <<>>, nextDts |-> [i \in DOMAIN tracks |-> 0]]
    IN  Shown(Demux!ParseTraf(file, [at |-> 0, sequence |-> m.sequence], t, none).samples)
AuxCells(t) ==
    LET size(k) == IF t.saiz[1].default_sample_info_size # 0 THEN t.saiz[1].default_sample_info_size
                   ELSE t.saiz[1].per_sample[k]
        at(k) == t.saio[1].offsets[1] - 8 + Run!SumOf([j \in 1..(k - 1) |-> j], size)
    IN  IF t.saio = <<>> THEN <<>> ELSE [k \in 1..t.saiz[1].sample_count |-> Slice(body, at(k), size(k))]
KeyOfSample(t, k) ==
    LET runs(b) == [n \in DOMAIN b.entries |-> <<b.entries[n].sample_count, b.entries[n].group_description_index>>]
        groups == IF t.sgpd = <<>> THEN {} ELSE {[sgpd |-> t.sgpd[1].entries, sbgp |-> runs(t.sbgp[1])]}
    IN  UNION {ParseSeig(blob) : blob \in Run!ReadGroup(groups, k)}
TrafRead(t, samples) ==
    [track_id |-> t.tfhd.track, samples |-> samples, senc |-> {b.samples : b \in t.senc},
     aux |-> AuxCells(t), keys |-> [k \in DOMAIN samples |-> KeyOfSample(t, k)]]
FragmentRead(tracks, m) ==
    [sequence |-> m.sequence, pssh |-> m.psshes,
     trafs |-> [i \in DOMAIN m.trafs |-> TrafRead(m.trafs[i], ListedSamples(tracks, m, m.trafs[i]))]]
SyncFlags == 33554432
FragmentWritten(r) ==
    LET written == SelectSeq(r.trafs, LAMBDA t : t.pending # <<>>)
        bytes(t) == Run!Bytes(t.pending)
        mdat(i) == Len(body) + 16 + Run!SumOf(SubSeq(written, 1, i - 1), bytes)
        sample(i, t, k) ==
          [offset |-> mdat(i) + Run!Bytes(SubSeq(t.pending, 1, k - 1)), key |-> t.pending[k].key = SyncFlags,
           dts |-> t.next_bmdt + Run!Ticks(SubSeq(t.pending, 1, k - 1)),
           duration |-> t.pending[k].duration, size |-> t.pending[k].size, cts |-> t.pending[k].cts]
        mapped(t) == \E k \in DOMAIN t.senc : t.senc[k].subsamples # <<>>
        stored(t) == t.senc # <<>> /\ (mapped(t) \/ t.senc[1].initialization_vector # <<>>)
        pair(p) == Num(2, p.clear) \o Num(4, p.protected)
        cell(t, s) == s.initialization_vector
                        \o (IF mapped(t) THEN Num(2, Len(s.subsamples)) \o Boxes(pair, s.subsamples) ELSE <<>>)
        seen(i, t) ==
          [track_id |-> t.track_id, samples |-> [k \in DOMAIN t.pending |-> sample(i, t, k)],
           senc |-> When(stored(t), t.senc),
           aux |-> IF stored(t) THEN [k \in DOMAIN t.senc |-> cell(t, t.senc[k])] ELSE <<>>,
           keys |-> IF t.seig = <<>> THEN [k \in DOMAIN t.pending |-> {}] ELSE t.seig]
    IN  [sequence |-> r.sequence, pssh |-> r.pssh, trafs |-> [i \in DOMAIN written |-> seen(i, written[i])]]

(* The order of the items whose properties are associated is the writer's. *)
ByItem(r) ==
    [r EXCEPT !.associations =
       [id \in {r.associations[i].item_id : i \in DOMAIN r.associations} |-> Items!PropertiesFor(r, id)]]
Normal(r) ==
    CASE kind = "csgp" -> PatternsWith(r, ResolveSamples(r, SampleCount))
      [] kind = "moof" -> FragmentRead(record.tracks, r)
      [] kind = "iprp" -> ByItem(r)
      [] OTHER -> r
Expected(r) ==
    CASE kind = "csgp" -> PatternsWith(r, GroupsOfSamples(r))
      [] kind = "moof" -> FragmentWritten(r)
      [] kind = "iprp" -> ByItem(r)
      [] kind \in ReadOnly -> r.says
      [] OTHER -> r

(* A box that was not damaged is read as the record it was written from,   *)
(* which is one that was read before when the box was written again.       *)
ReadsAsBuilt ==
    Intact /\ done /\ Carried /\ kind \notin {"stream", "moov"} =>
        {Normal(r) : r \in read} = {Expected(record)}

(* A box that was cut is never taken for the whole one, except where its   *)
(* last text may end without a NUL.                                        *)
EndsInText == {"cprt", "kind", "tmcd", "elng", "dref", "udta"}
CutNoticed ==
    damage = "cut" /\ done /\ kind \notin {"stream", "moov"} \cup EndsInText =>
        Expected(record) \notin {Normal(r) : r \in read}

(* What a stream comes back as: its parameters, the extradata as the entry *)
(* holds them and the sample format only where the entry tells it.  A      *)
(* protected subtitle track is not unwrapped: its codec is not known.      *)
Unnamed(r) == r.params.media_type = "subtitle" /\ r.protection # {}
StreamOfRecord(r) ==
    LET p == r.params
        headed == IF SubSeq(p.extradata, 1, 8) = OpusHead THEN p.extradata ELSE OpusHead \o p.extradata
    IN  IF Unnamed(r) THEN [p EXCEPT !.codec = "mp4", !.extradata = <<>>]
        ELSE IF p.codec = "opus" THEN [p EXCEPT !.extradata = headed] ELSE p
StreamReadsBack ==
    Intact /\ done /\ kind = "stream" => read = {StreamOfRecord(record)}

(* A movie comes back with the streams, the times, the edits and the       *)
(* protection of its tracks and with their tables and groups - the size 1  *)
(* of every frame of PCM is what the frame takes - or, when                *)
(* fragments are to follow, with none of those, the defaults of each track *)
(* and the duration filled in at the end.                                  *)
TrackOfRecord(track_id, t, fragmented) ==
    LET of == IF fragmented THEN EmptyTrack(t) ELSE t
        frame == (CHOOSE n \in t.params.channels : TRUE) * ((CHOOSE n \in t.params.bits : TRUE) \div 8)
        legacy == t.params.codec \in DOMAIN PcmCodecs /\ \A k \in DOMAIN of.stsz : of.stsz[k] = 1
        reordered == \E k \in DOMAIN of.ctts : of.ctts[k].value # 0
    IN  [track_id |-> track_id, stream |-> StreamOfRecord(t), timescale |-> t.media_time_scale,
         duration |-> of.cumulative_duration, stts |-> of.stts, ctts |-> IF reordered THEN of.ctts ELSE <<>>,
         stss |-> of.stss, stsc |-> of.stsc,
         stsz |-> IF legacy THEN [k \in DOMAIN of.stsz |-> frame] ELSE of.stsz,
         chunk_offsets |-> of.chunkOffsets,
         elst |-> IF t.edits = {} THEN <<>> ELSE CHOOSE l \in t.edits : TRUE,
         sbgp |-> of.sbgp, sgpd |-> of.sgpd, csgp |-> of.csgp,
         scheme |-> IF Unnamed(t) THEN {} ELSE {p.scheme_type : p \in t.protection},
         tenc |-> IF Unnamed(t) THEN {} ELSE {p.tenc : p \in t.protection},
         tkhd_times |-> t.tkhd_timestamps, mdhd_times |-> t.mdhd_timestamps,
         trex |-> IF fragmented THEN t.trex ELSE NewTrack.trex]
MovieOfRecord(r) ==
    [psshes |-> r.pssh, times |-> r.times, fragmented |-> r.fragmented, mehd |-> r.mehd,
     leva |-> IF r.levels = <<>> THEN {} ELSE {[entries |-> r.levels]}, treps |-> r.treps,
     duration |-> IF r.fragmented THEN 0
                  ELSE Max({(1000 * t.cumulative_duration) \div t.media_time_scale :
                              t \in {r.tracks[i] : i \in DOMAIN r.tracks}})]
MovieReadsBack ==
    Intact /\ done /\ kind = "moov" =>
        \E m \in read :
            /\ \A f \in DOMAIN MovieOfRecord(record) : m[f] = MovieOfRecord(record)[f]
            /\ Len(m.tracks) = Len(record.tracks)
            /\ \A i \in DOMAIN record.tracks :
                  LET expected == TrackOfRecord(i, record.tracks[i], record.fragmented)
                  IN  \A f \in DOMAIN expected : m.tracks[i][f] = expected[f]
=============================================================================
