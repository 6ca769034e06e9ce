----------------------------- MODULE SampleEntries -----------------------------
(***************************************************************************)
(* Sample entries: the muxer makes one of a stream's parameters            *)
(* (src/sample_entries.rs), the demuxer gets the parameters back of the    *)
(* entry (src/demux.rs, src/codec_id.rs).                                  *)
(*                                                                         *)
(* Parameters are [codec, media_type, channels, sample_rate, bits, width,  *)
(* height, extradata], all but the names and the extradata options; bits   *)
(* are those of the sample format.                                         *)
(***************************************************************************)
EXTENDS CencBoxes, FdBoxes

(***************************************************************************)
(* What the muxer and the demuxer ask of AAC streams (src/aac.rs): ADTS    *)
(* headers are taken off the packets, and the AudioSpecificConfig, or one  *)
(* made of the stream's parameters, gives channels and rates.              *)
(***************************************************************************)

SampleRates ==
    <<96000, 88200, 64000, 48000, 44100, 32000, 24000, 22050, 16000, 12000, 11025, 8000, 7350>>

(***************************************************************************)
(* ADTS: a packet that is one frame with its header.                       *)
(***************************************************************************)
ParseAdts(data) ==
    LET info == [profile |-> data[3] \div 64, sampling_frequency_index |-> BitsOf(data[3], 2, 4),
                 channel_configuration |-> 4 * (data[3] % 2) + data[4] \div 64,
                 header_len |-> IF Bit(data[2], 0) THEN 7 ELSE 9,
                 frame_len |-> 2048 * (data[4] % 4) + 8 * data[5] + data[6] \div 32,
                 raw_blocks |-> (data[7] % 4) + 1]
    IN  IF Len(data) < 7 \/ data[1] # 255 \/ data[2] \notin {240, 241, 248, 249} THEN {}
        ELSE {i \in {info} : /\ i.sampling_frequency_index <= 12
                             /\ i.frame_len = Len(data) /\ i.frame_len >= i.header_len}
(* What becomes the sample: the packet as it is when it has no header; a   *)
(* frame of several blocks is refused.                                     *)
StripAdts(data) ==
    IF ParseAdts(data) = {} THEN {data}
    ELSE {Rest(data, i.header_len) : i \in {i \in ParseAdts(data) : i.raw_blocks = 1}}

(***************************************************************************)
(* AudioSpecificConfig                                                     *)
(***************************************************************************)
AscBytes(aot, sfi, cfg) == Num(2, 2048 * (aot % 32) + 128 * (sfi % 16) + 8 * (cfg % 16))
AscFromAdts(i) == AscBytes(i.profile + 1, i.sampling_frequency_index, i.channel_configuration)
(* The config of a low-complexity stream of these parameters, options.     *)
LcAscFromParams(channels, sample_rate) ==
    LET configuration == {IF c = 8 THEN 7 ELSE c : c \in channels \cap ((1..6) \cup {8})}
        index == {i \in DOMAIN SampleRates : SampleRates[i] \in sample_rate}
    IN  {AscBytes(2, i - 1, cfg) : i \in index, cfg \in configuration}

Then(read, Next(_)) == UNION {Next(r) : r \in read}
Aot(asc, p) ==
    LET extended(r) ==
          IF r.row # 31 THEN {r}
          ELSE {[row |-> 32 + x.row, next |-> x.next] : x \in ReadBits(asc, r.next, 6)}
    IN  Then(ReadBits(asc, p, 5), extended)
Rate(asc, p) ==
    LET known(r) ==
          IF r.row = 15 THEN ReadBits(asc, r.next, 24)
          ELSE When(r.row <= 12, [row |-> SampleRates[r.row + 1], next |-> r.next])
    IN  Then(ReadBits(asc, p, 4), known)
(* Object type, rate and channel configuration.                            *)
AscHead(asc) ==
    {[aot |-> a.row, rate |-> r.row, config |-> c.row, next |-> c.next] :
       <<a, r, c>> \in UNION {UNION {{<<a, r, c>> : c \in ReadBits(asc, r.next, 4)} :
                                r \in Rate(asc, a.next)} : a \in Aot(asc, 0)}}
(* A field that is there when the bit before it is set.                    *)
OptionalBits(asc, p, width) ==
    LET field(b) == IF b.row = 1 THEN ReadBits(asc, b.next, width) ELSE {b}
    IN  Then(ReadBits(asc, p, 1), field)
Expect(asc, p, width, value) == {r \in ReadBits(asc, p, width) : r.row = value}
(* The rate of a backward compatible SBR extension behind the config of    *)
(* the core.                                                               *)
SbrTail(asc, p) ==
    LET depends(r) == OptionalBits(asc, r.next, 14)
        extension(r) == OptionalBits(asc, r.next, 1)
        sync(r) == IF 8 * Len(asc) - r.next < 16 THEN {} ELSE Expect(asc, r.next, 11, 695)
        object(r) == {a \in Aot(asc, r.next) : a.row = 5}
        present(r) == Expect(asc, r.next, 1, 1)
        rate(r) == Rate(asc, r.next)
    IN  Then(Then(Then(Then(Then(Then(ReadBits(asc, p, 1), depends), extension), sync),
                            object), present), rate)
(* Behind that, parametric stereo: two channels of one.                    *)
PsTail(asc, p) ==
    LET sync(r) == IF 8 * Len(asc) - r.next < 12 THEN {} ELSE Expect(asc, r.next, 11, 1352)
        present(r) == Expect(asc, r.next, 1, 1)
    IN  Then(Then(SbrTail(asc, p), sync), present) # {}

ChannelsOf ==
    [cfg \in (1..7) \cup (11..14) |->
        IF cfg <= 6 THEN cfg ELSE IF cfg = 11 THEN 7 ELSE IF cfg = 13 THEN 24 ELSE 8]
AscChannelCount(asc) ==
    LET stereo(h) == h.aot = 29 \/ (h.aot \in 1..4 /\ PsTail(asc, h.next))
    IN  {IF h.config = 1 /\ stereo(h) THEN 2 ELSE ChannelsOf[h.config] :
            h \in {h \in AscHead(asc) : h.config \in DOMAIN ChannelsOf}}
RatesWith(h, coded) ==
    When(h.aot \in {5, 29} => coded # {}, [core_rate |-> h.rate, sbr_rate |-> {r.row : r \in coded}])
AscRates(asc) ==
    UNION {RatesWith(h, IF h.aot \in {5, 29} THEN Rate(asc, h.next)
                        ELSE IF h.aot \in 1..4 /\ h.config # 0 THEN SbrTail(asc, h.next) ELSE {}) :
             h \in AscHead(asc)}

OpusHead == <<79, 112, 117, 115, 72, 101, 97, 100>>

(***************************************************************************)
(* What the muxer writes                                                   *)
(***************************************************************************)
(* A rate of more than 16 bits is replaced by the greatest divisor of it   *)
(* that has no more.                                                       *)
SampleRateField(rate) ==
    LET divisor[k \in 2..rate] ==
          IF rate % k = 0 /\ rate \div k <= 65535 THEN rate \div k ELSE divisor[k + 1]
    IN  IF rate <= 65535 THEN rate ELSE divisor[2]
AudioPreamble(version, channels, sample_size, sample_rate) ==
    Zeros(6) \o Num(2, 1) \o Num(2, version) \o Zeros(6) \o Num(2, channels) \o Num(2, sample_size)
      \o Zeros(4) \o Num(2, SampleRateField(sample_rate)) \o Zeros(2)
(* The sides are cut to 16 bits.                                           *)
VisualPreamble(width, height) ==
    Zeros(6) \o Num(2, 1) \o Zeros(16) \o Num(2, width) \o Num(2, height) \o <<0, 72, 0, 0, 0, 72, 0, 0>>
      \o Zeros(4) \o Num(2, 1) \o Zeros(32) \o <<0, 24, 255, 255>>
SampleEntry(code, body) == [fourcc |-> FourCC[code], body |-> body]

(* Lengths of descriptors always take four octets.                         *)
BerLength(n) ==
    <<128 + BitsOf(n, 21, 7), 128 + BitsOf(n, 14, 7), 128 + BitsOf(n, 7, 7), n % 128>>
Descriptor(tag, body) == <<tag>> \o BerLength(Len(body)) \o body
EsdsBody(oti, dsi) ==
    Zeros(4) \o Descriptor(3, Zeros(3)
      \o Descriptor(4, <<oti, 21>> \o Zeros(11) \o (IF dsi = <<>> THEN <<>> ELSE Descriptor(5, dsi)))
      \o Descriptor(6, <<2>>))

PcmEntries ==
    [pcm_s8 |-> <<"ipcm", 8>>, pcm_s16le |-> <<"ipcm", 16>>, pcm_s24le |-> <<"ipcm", 24>>,
     pcm_s32le |-> <<"ipcm", 32>>, pcm_f32le |-> <<"fpcm", 32>>, pcm_f64le |-> <<"fpcm", 64>>]
PcmEntryWithoutRate(p, code, bits) ==
    {SampleEntry(code, AudioPreamble(0, c, bits, r) \o WrapBox("pcmC", Zeros(4) \o <<1, bits>>)) :
       c \in p.channels \ {0}, r \in p.sample_rate \ {0}}
(* A rate of more than 16 bits has a box of its own, in a version 1 entry; *)
(* one or two channels have a layout.                                      *)
PcmEntry(p, code, bits) ==
    LET entry(channels, rate) ==
          AudioPreamble(IF rate > 65535 THEN 1 ELSE 0, channels, bits, rate)
            \o (IF rate > 65535 THEN WrapBox("srat", Zeros(4) \o Num(4, rate)) ELSE <<>>)
            \o (IF channels <= 2 THEN WrapBox("chnl", Zeros(4) \o <<1, channels>> \o Zeros(8)) ELSE <<>>)
            \o WrapBox("pcmC", Zeros(4) \o <<1, bits>>)
    IN  {SampleEntry(code, entry(c, r)) : c \in p.channels \ {0}, r \in p.sample_rate \ {0}}

(* Audio entries of a preamble and one box: the sample size and the box,   *)
(* which is missing where the extradata that it holds are.                 *)
AudioEntries ==
    [flac |-> "fLaC", aac |-> "mp4a", opus |-> "Opus", alac |-> "alac", ac3 |-> "ac-3", eac3 |-> "ec-3",
     mp3 |-> "mp4a", pcm_mulaw |-> "ulaw", pcm_alaw |-> "alaw"]
AudioConfig(p) ==
    LET dops == IF SubSeq(p.extradata, 1, IF Len(p.extradata) < 8 THEN Len(p.extradata) ELSE 8) = OpusHead
                THEN Rest(p.extradata, 8) ELSE p.extradata
    IN  CASE p.codec \in {"pcm_mulaw", "pcm_alaw"} -> {<<>>}
          [] p.codec = "mp3" -> {WrapBox("esds", EsdsBody(107, <<>>))}
          [] p.codec \notin {"pcm_mulaw", "pcm_alaw", "mp3"} /\ p.extradata = <<>> -> {}
          [] p.codec = "aac" -> {WrapBox("esds", EsdsBody(64, p.extradata))}
          [] p.codec = "opus" -> When(Len(dops) >= 11, WrapBox("dOps", dops))
          [] p.codec = "flac" -> {WrapBox("dfLa", Zeros(4) \o p.extradata)}
          [] p.codec = "alac" -> {WrapBox("alac", Zeros(4) \o p.extradata)}
          [] p.codec = "ac3" -> {WrapBox("dac3", p.extradata)}
          [] p.codec = "eac3" -> {WrapBox("dec3", p.extradata)}
AudioSampleSize(p) ==
    IF p.codec \in {"pcm_mulaw", "pcm_alaw"} THEN 8
    ELSE IF p.codec \in {"flac", "alac"} /\ p.bits # {} THEN CHOOSE b \in p.bits : TRUE ELSE 16
AudioEntry(p) ==
    {SampleEntry(AudioEntries[p.codec], AudioPreamble(0, c, AudioSampleSize(p), r) \o config) :
        c \in p.channels, r \in p.sample_rate, config \in AudioConfig(p)}

(* Video entries of a preamble and a configuration; without one only where *)
(* the codec can do without.                                               *)
VideoEntries ==
    [h264 |-> <<"avc1", "avcC">>, h265 |-> <<"hvc1", "hvcC">>, av1 |-> <<"av01", "av1C">>,
     vp9 |-> <<"vp09", "vpcC">>, vp8 |-> <<"vp08", "vpcC">>, h263 |-> <<"s263", "d263">>,
     mjpeg |-> <<"jpeg", "">>]
VideoConfig(p) ==
    IF p.codec = "mjpeg" THEN {<<>>}
    ELSE IF p.extradata = <<>> THEN When(p.codec = "h263", <<>>)
    ELSE {WrapBox(VideoEntries[p.codec][2], p.extradata)}
VideoEntry(p) ==
    {SampleEntry(VideoEntries[p.codec][1], VisualPreamble(w, h) \o config) :
        w \in p.width, h \in p.height, config \in VideoConfig(p)}

SubtitleEntries ==
    [mov_text |-> "tx3g", webvtt |-> "wvtt", ttml |-> "stpp", sbtt |-> "sbtt", stxt |-> "stxt"]
SubtitleEntry(p) ==
    {SampleEntry(SubtitleEntries[p.codec], Zeros(6) \o Num(2, 1) \o p.extradata)}
SubtitleHandlerFor(codec) == IF codec = "mov_text" THEN "text" ELSE "subt"
SubtitleUsesSthd(codec) == codec # "mov_text"

SampleEntryFor(p) ==
    CASE p.media_type = "audio" /\ p.codec \in DOMAIN PcmEntries ->
           PcmEntry(p, PcmEntries[p.codec][1], PcmEntries[p.codec][2])
      [] p.media_type = "audio" /\ p.codec \in DOMAIN AudioEntries -> AudioEntry(p)
      [] p.media_type = "video" /\ p.codec \in DOMAIN VideoEntries -> VideoEntry(p)
      [] p.media_type = "subtitle" /\ p.codec \in DOMAIN SubtitleEntries -> SubtitleEntry(p)
      [] OTHER -> {}
(* A protected track: the entry under another name, its own in the sinf.   *)
ProtectedNames == [video |-> "encv", audio |-> "enca", subtitle |-> "enct"]
ApplyProtection(entry, media_type, protection) ==
    LET name == IF media_type \in DOMAIN ProtectedNames THEN ProtectedNames[media_type] ELSE "encs"
    IN  {SampleEntry(name, entry.body \o sinf) :
            sinf \in BuildSinf(entry.fourcc, protection.scheme_type, protection.scheme_version,
                               protection.tenc)}
BuildStsd(entry, media_type) ==
    LET audio_v1 == media_type = "audio" /\ Len(entry.body) >= 28 /\ Slice(entry.body, 8, 2) = <<0, 1>>
    IN  WrapBox("stsd", FullBox(IF audio_v1 THEN 1 ELSE 0, 0) \o Num(4, 1)
          \o WrapTyped(entry.fourcc, entry.body))
=============================================================================
