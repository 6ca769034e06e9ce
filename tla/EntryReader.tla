------------------------------ MODULE EntryReader ------------------------------
(***************************************************************************)
(* What the demuxer makes of a sample description (src/demux.rs,           *)
(* src/codec_id.rs): the fields of a track that come from its entries, and *)
(* the parameters of the stream.  The resolver of codec tags knows none.   *)
(***************************************************************************)
EXTENDS SampleEntries, FiniteSetsExt

(* The fields of a track that its sample description sets.                 *)
EntryFields ==
    [stsd_version |-> 0, codec_id_fourcc |-> 0, stsd_entries |-> <<>>, protection_scheme |-> {},
     tenc |-> {}, piff_tenc |-> {}, stvi |-> {}, channels |-> {}, sample_size_bits |-> {},
     sample_rate |-> {}, width |-> {}, height |-> {}, extradata |-> <<>>, esds_oti |-> {}, pcm |-> {},
     amve |-> {}, btrt |-> {}, pasp |-> {}, clap |-> {}, colr |-> {}, text_entry |-> {}, tmcd |-> {},
     rtp_hint |-> {}, mpeg2ts_hint |-> {}]

(* The boxes in a sample entry: what is too short for a header is left,    *)
(* and in an audio entry a type of zero ends the walk.                     *)
VideoChildren(octets) == StrictWalk(octets, AnyType, 8, {})
AudioChildren[octets \in Seq(0..255)] ==
    LET flat(boxes) ==
          LET done[i \in 0..Len(boxes)] ==
                IF i = 0 THEN {<<>>}
                ELSE {d \o more : <<d, more>> \in done[i - 1] \X
                        (IF boxes[i].type = FourCC["wave"] THEN AudioChildren[boxes[i].body]
                         ELSE {<<boxes[i]>>})}
          IN  done[Len(boxes)]
    IN  UNION {flat(boxes) : boxes \in StrictWalk(octets, AnyType, 8, {0})}

(* What the last box says that says something, or the value before; and    *)
(* the record of the first box of a type that can be read, unless there is *)
(* one.                                                                    *)
Said(boxes, Says(_), before) ==
    LET those == {i \in DOMAIN boxes : Says(boxes[i]) # {}}
    IN  IF those = {} THEN before ELSE CHOOSE value \in Says(boxes[Max(those)]) : TRUE
First(known, boxes, code, Parse(_)) ==
    IF known # {} THEN known ELSE FirstRecord(RecordsOf(boxes, code, Parse))

(***************************************************************************)
(* esds: descriptors in descriptors.  A length takes four octets at most.  *)
(***************************************************************************)
ReadDescr(buf, at) ==
    LET stops == {k \in 1..4 : at + k < Len(buf) /\ U(buf, at + k, 1) < 128}
        last == Min(stops)
        length[k \in 0..last] ==
          IF k = 0 THEN 0 ELSE 128 * length[k - 1] + (U(buf, at + k, 1) % 128)
    IN  When(stops # {}, [tag |-> U(buf, at, 1), body |-> at + last + 1, next |-> at + last + 1 + length[last]])
(* The decoder configuration: the first descriptor of the specific info,   *)
(* if all before it fit.                                                   *)
DecoderInfo(buf, from, end) ==
    LET info[at \in Nat] ==
          IF at >= end THEN {{}}
          ELSE UNION {IF d.next > end THEN {}
                      ELSE IF d.tag = 5 THEN {{Slice(buf, d.body, d.next - d.body)}} ELSE info[d.next] :
                        d \in ReadDescr(buf, at)}
    IN  info[from]
ParseEsds(buf) ==
    LET flags(es) == U(buf, es.body + 2, 1)
        url(es) == es.body + 3 + BitsWhen(Bit(flags(es), 7), 2)
        start(es) ==
          url(es) + (IF Bit(flags(es), 6) THEN 1 + U(buf, url(es), 1) ELSE 0) + BitsWhen(Bit(flags(es), 5), 2)
        parts(end) ==
          LET part[at \in Nat] ==
                IF at >= end THEN {<<>>}
                ELSE UNION {IF d.next > end THEN {}
                            ELSE IF d.tag # 4 THEN part[d.next]
                            ELSE IF d.next - d.body < 13 THEN {}
                            ELSE {<<[oti |-> U(buf, d.body, 1), dsi |-> dsi]>> \o rest :
                                    <<dsi, rest>> \in DecoderInfo(buf, d.body + 13, d.next) \X part[d.next]} :
                              d \in ReadDescr(buf, at)}
          IN  part
        summary(list) ==
          LET told == {i \in DOMAIN list : list[i].dsi # {}}
          IN  [oti |-> IF list = <<>> THEN {} ELSE {list[Len(list)].oti},
               dsi |-> IF told = {} THEN <<>> ELSE CHOOSE dsi \in list[Max(told)].dsi : TRUE]
    IN  UNION {IF \/ es.tag # 3 \/ es.next > Len(buf) \/ es.body + 3 > es.next
                  \/ Bit(flags(es), 6) /\ url(es) >= es.next
               THEN {} ELSE {summary(list) : list \in parts(es.next)[start(es)]} : es \in ReadDescr(buf, 0)}
EsdsOf(box) ==
    IF box.type = FourCC["esds"] /\ Len(box.body) >= 4 THEN ParseEsds(Rest(box.body, 4)) ELSE {}
EsdsConfig(box) == {esds.dsi : esds \in {e \in EsdsOf(box) : e.dsi # <<>>}}
EsdsObject(box) == {esds.oti : esds \in EsdsOf(box)}

(***************************************************************************)
(* PCM: the layout of the samples, told by the name of the entry and the   *)
(* boxes in it.                                                            *)
(***************************************************************************)
Layout(bits, float, signed, big_endian) ==
    [bits |-> bits, float |-> float, signed |-> signed, big_endian |-> big_endian]
PcmCodecs ==
    [pcm_f32le |-> <<TRUE, 32>>, pcm_f64le |-> <<TRUE, 64>>, pcm_s8 |-> <<FALSE, 8>>,
     pcm_u8 |-> <<FALSE, 8>>, pcm_s16le |-> <<FALSE, 16>>, pcm_s24le |-> <<FALSE, 24>>,
     pcm_s32le |-> <<FALSE, 32>>]
PcmCodecId(l) ==
    {codec \in DOMAIN PcmCodecs : /\ PcmCodecs[codec] = <<l.float, l.bits>>
                                  /\ l.float \/ l.signed = (codec # "pcm_u8")}
FixedLayouts == [in24 |-> <<24, FALSE>>, in32 |-> <<32, FALSE>>, fl32 |-> <<32, TRUE>>, fl64 |-> <<64, TRUE>>]
PcmLayout(fourcc, size, hints) ==
    LET big == hints.little_endian # {TRUE}
        named(code) == fourcc = FourCC[code]
        layouts ==
          UNION {IF named("ipcm") \/ named("fpcm")
                 THEN {Layout(c[2], named("fpcm"), TRUE, ~Bit(c[1], 0)) : c \in hints.pcmc} ELSE {},
                 When(named("sowt") \/ named("twos"), Layout(size, FALSE, TRUE, named("twos"))),
                 When(named("raw ") /\ size = 8, Layout(8, FALSE, FALSE, FALSE)),
                 {Layout(FixedLayouts[code][1], FixedLayouts[code][2], TRUE, big) :
                    code \in {code \in DOMAIN FixedLayouts : named(code)}},
                 IF named("lpcm")
                 THEN {Layout(size, Bit(f, 0), Bit(f, 0) \/ Bit(f, 2), Bit(f, 1)) : f \in hints.lpcm_flags}
                 ELSE {}}
    IN  {l \in layouts : PcmCodecId(l) # {}}
(* Samples are swapped in groups of this many octets (SwapSampleBytes).    *)
SwapWidth(l) == IF l.big_endian /\ l.bits > 8 THEN l.bits \div 8 ELSE 0
(* The old habit of giving every frame the size 1.                         *)
FixLegacyPcmSampleSizes(sizes, pcm, channels) ==
    LET channel == IF channels \in {{}, {0}} THEN 1 ELSE CHOOSE c \in channels : TRUE
        frame(l) == channel * ((l.bits + 7) \div 8)
        legacy == \A i \in DOMAIN sizes : sizes[i] = 1
    IN  IF pcm = {} \/ ~legacy THEN sizes
        ELSE [i \in DOMAIN sizes |-> frame(CHOOSE l \in pcm : TRUE)]

(***************************************************************************)
(* Audio entries: the fields of version 0, then those of the QuickTime     *)
(* versions, then the boxes.                                               *)
(***************************************************************************)
(* The rate of a version 2 entry is a double: the integer next to it.  Of  *)
(* its 52 bits of fraction the first Exponent count in full.               *)
RoundedDouble(entry, at) ==
    LET exponent == 16 * (U(entry, at, 1) % 128) + U(entry, at + 1, 1) \div 16 - 1023
        bit(k) == BitAt(entry, 8 * at + 12 + k - 1)
        whole[k \in 0..exponent] == IF k = 0 THEN 1 ELSE 2 * whole[k - 1] + bit(k)
    IN  IF U(entry, at, 1) >= 128 \/ exponent \notin 0..31 THEN {}
        ELSE IF exponent >= 29 THEN {Wide} ELSE {whole[exponent] + bit(exponent + 1)}

AudioConfigOf(box) ==
    LET named(code) == box.type = FourCC[code]
    IN  IF (named("dfLa") \/ named("alac")) /\ Len(box.body) > 4 THEN {Rest(box.body, 4)}
        ELSE IF named("dOps") /\ Len(box.body) >= 11 THEN {OpusHead \o box.body}
        ELSE IF named("dac3") \/ named("dec3") THEN {box.body}
        ELSE EsdsConfig(box)
SampleRateBox(box) ==
    IF box.type = FourCC["srat"] /\ Len(box.body) >= 8 THEN {{U(box.body, 4, 4)}} \ {{0}} ELSE {}
PcmConfig(box) ==
    When(box.type = FourCC["pcmC"] /\ Len(box.body) >= 6, {<<U(box.body, 4, 1), U(box.body, 5, 1)>>})
Endianness(box) ==
    When(box.type = FourCC["enda"] /\ Len(box.body) >= 2, {U(box.body, 0, 2) # 0})

ParseAudioSampleEntry(t, entry) ==
    LET version == U(entry, 8, 2)
        v2 == version = 2 /\ Len(entry) >= 64
        children_at == IF version = 1 /\ t.stsd_version = 0 /\ Len(entry) >= 44 THEN 44
                       ELSE IF v2 THEN 64 ELSE 28
        \* a field of version 2 that says something, or that of version 0
        field(said, at) == IF v2 /\ said # {} THEN said ELSE {U(entry, at, 2)}
        rate == field(IF v2 THEN RoundedDouble(entry, 32) ELSE {}, 24)
        channels == field({U(entry, 40, 4)} \cap (0..65535), 16)
        size == field({U(entry, 48, 4)} \cap (1..65535), 18)
    IN  IF Len(entry) < 28 THEN {t}
        ELSE {[t EXCEPT !.channels = channels, !.sample_size_bits = size,
                      !.sample_rate = Said(boxes, SampleRateBox, rate),
                      !.extradata = Said(boxes, AudioConfigOf, @),
                      !.esds_oti = Said(boxes, EsdsObject, @),
                      !.btrt = First(@, boxes, "btrt", ParseBtrt),
                      !.pcm = PcmLayout(t.codec_id_fourcc, CHOOSE s \in size : TRUE,
                                [pcmc |-> Said(boxes, PcmConfig, {}),
                                 little_endian |-> Said(boxes, Endianness, {}),
                                 lpcm_flags |-> When(v2, U(entry, 52, 4))])] :
                boxes \in AudioChildren[Rest(entry, children_at)]}

(***************************************************************************)
(* Video and subtitle entries, and those of other tracks.                  *)
(***************************************************************************)
VideoConfigOf(box) ==
    IF box.type \in {FourCC[code] : code \in {"avcC", "hvcC", "av1C", "vpcC", "d263"}} THEN {box.body}
    ELSE EsdsConfig(box)
(* A sinf among the boxes may tell of stereo views.                        *)
StviOf(box) ==
    IF box.type # FourCC["sinf"] THEN {}
    ELSE {unwrap.stvi : unwrap \in {u \in ParseSinf(box.body) : u.stvi # {}}}
FirstSaid(known, boxes, Says(_)) ==
    LET those == {i \in DOMAIN boxes : Says(boxes[i]) # {}}
    IN  IF known # {} \/ those = {} THEN known ELSE CHOOSE value \in Says(boxes[Min(those)]) : TRUE
ParseVideoSampleEntry(t, entry) ==
    LET sized == [t EXCEPT !.width = {U(entry, 24, 2)}, !.height = {U(entry, 26, 2)}]
    IN  IF Len(entry) < 28 THEN {t} ELSE IF Len(entry) <= 78 THEN {sized}
        ELSE {[sized EXCEPT !.extradata = Said(boxes, VideoConfigOf, @),
                            !.esds_oti = Said(boxes, EsdsObject, @),
                            !.amve = First(@, boxes, "amve", ParseAmve),
                            !.btrt = First(@, boxes, "btrt", ParseBtrt),
                            !.pasp = First(@, boxes, "pasp", ParsePasp),
                            !.clap = First(@, boxes, "clap", ParseClap),
                            !.colr = First(@, boxes, "colr", ParseColr),
                            !.stvi = FirstSaid(@, boxes, StviOf)] : boxes \in VideoChildren(Rest(entry, 78))}

SubtitleNames == {"stpp", "sbtt", "stxt", "wvtt", "text", "tx3g", "c608"}
ParseSubtitleSampleEntry(t, entry) ==
    IF \A name \in SubtitleNames : t.codec_id_fourcc # FourCC[name] THEN t
    ELSE [t EXCEPT !.extradata = Rest(entry, 8),
                   !.text_entry = IF t.codec_id_fourcc = FourCC["text"] THEN ParseTextSampleEntry(entry)
                                  ELSE @]

ParseSampleEntry(t, entry) ==
    LET named(codes) == t.codec_id_fourcc \in {FourCC[code] : code \in codes}
    IN  CASE Len(entry) < 8 -> {t}
          [] Len(entry) >= 8 /\ named({"rtp ", "srtp", "rrtp", "rtcp"}) ->
               {[t EXCEPT !.rtp_hint = ParseRtpHintSampleEntry(t.codec_id_fourcc, entry)]}
          [] Len(entry) >= 8 /\ named({"sm2t", "rm2t"}) ->
               {[t EXCEPT !.mpeg2ts_hint = ParseMpeg2TsHintSampleEntry(t.codec_id_fourcc, entry)]}
          [] Len(entry) >= 8 /\ named({"tmcd"}) -> {[t EXCEPT !.tmcd = ParseTmcdSampleEntry(entry)]}
          [] OTHER -> IF t.media_type = "audio" THEN ParseAudioSampleEntry(t, entry)
                      ELSE IF t.media_type = "video" THEN ParseVideoSampleEntry(t, entry)
                      ELSE IF t.media_type = "subtitle" THEN {ParseSubtitleSampleEntry(t, entry)}
                      ELSE {t}

(***************************************************************************)
(* stsd: all its entries are kept; the first makes the stream.  Entries    *)
(* that are missing behind the first are not missed.                       *)
(***************************************************************************)
StsdEntries(octets, count) ==
    LET end == Len(octets)
        entry(h) == [format |-> h.type, payload |-> Slice(octets, h.next, PayloadSize(h))]
        list[n \in Nat] ==
          [at \in 0..end |->
             IF n = 0 \/ at = end THEN {<<>>}
             ELSE UNION {IF h.next + PayloadSize(h) > end THEN {}
                         ELSE {<<entry(h)>> \o rest : rest \in list[n - 1][h.next + PayloadSize(h)]} :
                           h \in Header(octets, at)}]
    IN  {entries \in list[count][0] : entries # <<>>}
DataReferenceIndex(entry) == IF Len(entry.payload) >= 8 THEN U(entry.payload, 6, 2) ELSE 0
Unprotected(t, entry) ==
    LET unwrapped(u) ==
          [t EXCEPT !.codec_id_fourcc = IF u.original_format = {} THEN @
                                        ELSE CHOOSE f \in u.original_format : TRUE,
                    !.protection_scheme = u.scheme_type, !.tenc = u.tenc, !.piff_tenc = u.piff_tenc,
                    !.stvi = IF @ = {} THEN u.stvi ELSE @]
    IN  IF \A name \in {"encv", "enca", "enct", "encs"} : t.codec_id_fourcc # FourCC[name] THEN {t}
        ELSE {unwrapped(u) : u \in UnwrapEntry(entry, t.media_type)}
ParseStsd(t, body) ==
    LET count == U(body, 4, 4)
        versioned == [t EXCEPT !.stsd_version = Version(body)]
        listed(entries) ==
          [versioned EXCEPT !.codec_id_fourcc = entries[1].format,
             !.stsd_entries = @ \o [i \in DOMAIN entries |->
               [format |-> entries[i].format, data_reference_index |-> DataReferenceIndex(entries[i]),
                payload |-> entries[i].payload]]]
    IN  IF Len(body) < 8 THEN {}
        ELSE IF count = 0 THEN {versioned}
        ELSE UNION {UNION {ParseSampleEntry(u, entries[1].payload) :
                             u \in Unprotected(listed(entries), entries[1].payload)} :
                      entries \in StsdEntries(Rest(body, 8), IF count > Len(body) THEN Len(body) ELSE count)}

(***************************************************************************)
(* The parameters of the stream                                            *)
(***************************************************************************)
CodecNames ==
    <<<<"mp4a", "aac">>, <<"alac", "alac">>, <<"fLaC", "flac">>, <<"Opus", "opus">>, <<"ac-3", "ac3">>,
      <<"ec-3", "eac3">>, <<"ulaw", "pcm_mulaw">>, <<"alaw", "pcm_alaw">>, <<"avc1", "h264">>,
      <<"hvc1", "h265">>, <<"vp08", "vp8">>, <<"vp09", "vp9">>, <<"av01", "av1">>, <<"jpeg", "mjpeg">>,
      <<"mp4v", "mpeg4video">>, <<"s263", "h263">>, <<"lpcm", "pcm_s16le">>, <<"sowt", "pcm_s16le">>,
      <<"twos", "pcm_s16le">>, <<"tx3g", "mov_text">>, <<"text", "text">>, <<"wvtt", "webvtt">>,
      <<"stpp", "ttml">>, <<"sbtt", "sbtt">>, <<"stxt", "stxt">>, <<"c608", "eia_608">>>>
(* A name the table does not have is a codec of its own.                   *)
FromSampleEntry(fourcc) ==
    LET rows == {i \in DOMAIN CodecNames : FourCC[CodecNames[i][1]] = fourcc}
    IN  IF rows = {} THEN "mp4" ELSE CodecNames[CHOOSE i \in rows : TRUE][2]
AudioObjects(oti) ==
    IF oti \in {105, 107} THEN "mp3" ELSE IF oti = 165 THEN "ac3"
    ELSE IF oti = 166 THEN "eac3" ELSE IF oti = 169 THEN "dts" ELSE "aac"
VideoObjects(oti) ==
    IF oti = 106 THEN "mpeg1video" ELSE IF oti \in 96..101 THEN "mpeg2video"
    ELSE IF oti = 33 THEN "h264" ELSE IF oti = 35 THEN "h265"
    ELSE IF oti = 108 THEN "mjpeg" ELSE "mpeg4video"
FromSampleEntryWithOti(fourcc, oti) ==
    IF fourcc = FourCC["mp4a"] THEN AudioObjects(oti)
    ELSE IF fourcc = FourCC["mp4v"] THEN VideoObjects(oti) ELSE FromSampleEntry(fourcc)

(* The rate and the channels of AAC are those of its config; those of ALAC *)
(* are those of its cookie.                                                *)
Known(value, before) == IF value = {} THEN before ELSE value
AacStream(p) ==
    [p EXCEPT !.channels = Known(AscChannelCount(p.extradata), @),
              !.sample_rate = Known(UNION {r.sbr_rate : r \in {r \in AscRates(p.extradata) : p.sample_rate = {r.core_rate}}},
                                    @)]
AlacStream(p) ==
    IF Len(p.extradata) < 24 THEN p
    ELSE [p EXCEPT !.channels = {U(p.extradata, 9, 1)}, !.sample_rate = {U(p.extradata, 20, 4)},
                   !.bits = IF U(p.extradata, 5, 1) \in {16, 24, 32} THEN {U(p.extradata, 5, 1)} ELSE @]
StreamOf(t) ==
    LET pcm == UNION {PcmCodecId(l) : l \in t.pcm}
        codec == IF pcm # {} THEN CHOOSE c \in pcm : TRUE
                 ELSE IF t.esds_oti # {}
                 THEN FromSampleEntryWithOti(t.codec_id_fourcc, CHOOSE o \in t.esds_oti : TRUE)
                 ELSE FromSampleEntry(t.codec_id_fourcc)
        bits == IF codec = "flac" THEN t.sample_size_bits \cap {8, 16, 24, 32}
                ELSE IF codec = "pcm_s16le" THEN {16} ELSE {l.bits : l \in t.pcm}
        p == [codec |-> codec, media_type |-> t.media_type, channels |-> t.channels,
              sample_rate |-> t.sample_rate, bits |-> bits, width |-> t.width, height |-> t.height,
              extradata |-> t.extradata]
    IN  IF codec = "aac" THEN AacStream(p) ELSE IF codec = "alac" THEN AlacStream(p) ELSE p
=============================================================================
