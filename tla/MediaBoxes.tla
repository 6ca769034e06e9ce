------------------------------ MODULE MediaBoxes -----------------------------
(***************************************************************************)
(* The headers of the movie, a track and its media (src/demux.rs, with the *)
(* builders of src/muxer.rs), the media information headers, the data      *)
(* references and the QuickTime sample entries of text and time code.      *)
(* Matrices are kept as their octets.                                      *)
(***************************************************************************)
EXTENDS BoxReader

Identity == <<0, 1, 0, 0>> \o Zeros(12) \o <<0, 1, 0, 0>> \o Zeros(12) \o <<64, 0, 0, 0>>
Time(version) == IF version = 0 THEN "u32" ELSE "u64"

(***************************************************************************)
(* mvhd, tkhd, mdhd: version 1 has eight octets for times and duration.  A *)
(* version other than 0 is read as 1.  The parsers update the record h of  *)
(* what was read before, and leave what the box has no room for.           *)
(***************************************************************************)
Unset == [creation_time |-> 0, modification_time |-> 0]
TimesLayout(version) == <<<<"creation_time", Time(version)>>, <<"modification_time", Time(version)>>>>
ReadHeaderTimestamps(body) ==
    LET layout == TimesLayout(Version(body))
    IN  IF FitFields(body, 4, layout) THEN ReadFields(body, 4, layout) ELSE Unset

(* The boxes are written in version 1 when a time or the duration asks it. *)
HeaderVersion(times, duration) ==
    IF Wide \in {times.creation_time, times.modification_time, duration} THEN 1 ELSE 0

MvhdLayout(version) == <<<<"timescale", "u32">>, <<"duration", Time(version)>>>>
ParseMvhd(h, body) ==
    LET layout == MvhdLayout(Version(body))
        at == 4 + SizeOf(TimesLayout(Version(body)))
        scale == ReadFields(body, at, layout)
        tail == at + SizeOf(layout)
        read == [h EXCEPT !.timescale = scale.timescale, !.duration = scale.duration,
                          !.times = ReadHeaderTimestamps(body)]
    IN  When(body # <<>> /\ FitFields(body, at, layout),
             IF tail + 52 > Len(body) THEN read
             ELSE [read EXCEPT !.rate = I(body, tail, 4), !.volume = I(body, tail + 4, 2),
                               !.matrix = Slice(body, tail + 16, 36)])
BuildMvhd(timescale, duration, next_track_id, times) ==
    LET version == HeaderVersion(times, duration)
    IN  WrapBox("mvhd", FullBox(version, 0) \o WriteFields(times, TimesLayout(version))
          \o WriteFields([timescale |-> timescale, duration |-> duration], MvhdLayout(version))
          \o Num(4, 65536) \o Num(2, 256) \o Zeros(10) \o Identity \o Zeros(24)
          \o Num(4, next_track_id))

TkhdSides == <<<<"layer", "i16">>, <<"alternate_group", "i16">>, <<"volume", "i16">>>>
ParseTkhd(h, body) ==
    LET off == 4 + SizeOf(TimesLayout(Version(body)))
        dims == IF Version(body) = 0 THEN 76 ELSE 88
        sides == ReadFields(body, dims - 44, TkhdSides)
        named == [h EXCEPT !.track_id = U(body, off, 4), !.times = ReadHeaderTimestamps(body),
                           !.flags = Flags(body)]
        sized == IF dims + 8 > Len(body) THEN named
                 ELSE [named EXCEPT !.width = U(body, dims, 4), !.height = U(body, dims + 4, 4)]
    IN  When(body # <<>> /\ off + 4 <= Len(body),
             IF dims > Len(body) THEN sized
             ELSE [sized EXCEPT !.layer = sides.layer, !.alternate_group = sides.alternate_group,
                                !.volume = sides.volume, !.matrix = Slice(body, dims - 36, 36)])
(* The muxer writes the track as enabled, in the movie and in its preview; *)
(* only a sound track has a volume and only a picture has a size.          *)
BuildTkhd(track_id, duration, media_type, width, height, times) ==
    LET version == HeaderVersion(times, duration)
        size(n) == IF media_type = "video" THEN Num(2, n) \o Zeros(2) ELSE Zeros(4)
    IN  WrapBox("tkhd", FullBox(version, 7) \o WriteFields(times, TimesLayout(version))
          \o Num(4, track_id) \o Zeros(4) \o Num(TypeOctets[Time(version)], duration) \o Zeros(12)
          \o Num(2, IF media_type = "audio" THEN 256 ELSE 0) \o Zeros(2) \o Identity
          \o size(width) \o size(height))

ParseMdhd(h, body) ==
    LET layout == MvhdLayout(Version(body))
        at == 4 + SizeOf(TimesLayout(Version(body)))
        scale == ReadFields(body, at, layout)
        language == at + SizeOf(layout)
        read == [h EXCEPT !.media_timescale = scale.timescale, !.media_duration = scale.duration,
                          !.times = ReadHeaderTimestamps(body)]
    IN  When(Len(body) >= 24 /\ FitFields(body, at, layout),
             IF language + 2 > Len(body) THEN read
             ELSE [read EXCEPT !.language = U(body, language, 2)])
(* Three letters of five bits, each counted from the one before "a".       *)
PackLanguage(code) ==
    LET letter(i) == (IF code[i] < 96 THEN 0 ELSE code[i] - 96) % 32
    IN  1024 * letter(1) + 32 * letter(2) + letter(3)
BuildMdhd(timescale, duration, times) ==
    LET version == HeaderVersion(times, duration)
    IN  WrapBox("mdhd", FullBox(version, 0) \o WriteFields(times, TimesLayout(version))
          \o WriteFields([timescale |-> timescale, duration |-> duration], MvhdLayout(version))
          \o Num(2, PackLanguage(<<117, 110, 100>>)) \o Zeros(2))

(***************************************************************************)
(* hdlr, elng, mehd, trex                                                  *)
(***************************************************************************)
MediaTypeOf(handler) ==
    IF handler = FourCC["soun"] THEN "audio"
    ELSE IF handler = FourCC["vide"] THEN "video"
    ELSE IF handler \in {FourCC["subt"], FourCC["sbtl"], FourCC["text"]} THEN "subtitle" ELSE "data"
ParseHdlr(body) ==
    When(Len(body) >= 12, [handler_type |-> U(body, 8, 4), media_type |-> MediaTypeOf(U(body, 8, 4))])
(* Any name will do; a subtitle handler depends on the codec.              *)
BuildHdlr(media_type, subtitle_handler) ==
    LET handler == CASE media_type = "audio" -> "soun" [] media_type = "video" -> "vide"
                     [] media_type = "subtitle" -> subtitle_handler [] OTHER -> "data"
    IN  WrapBox("hdlr", Zeros(8) \o Num(4, FourCC[handler]) \o Zeros(12) \o <<72, 0>>)

(* A tag that is not UTF-8, or empty, leaves what was there.               *)
ParseElng(elng, body) ==
    LET tag == IF CString(body, 4) = {} THEN Rest(body, 4)
               ELSE (CHOOSE t \in CString(body, 4) : TRUE).row
    IN  IF Len(body) < 4 \/ tag = <<>> \/ ~Utf8(tag) THEN elng ELSE {tag}

MehdOfFourOctets(body) ==
    LET width == IF Version(body) = 0 THEN 4 ELSE 8
    IN  When(body # <<>> /\ Version(body) \in {0, 1} /\ Len(body) >= 8, U(body, 4, width))
ParseMehd(body) ==
    LET width == IF Version(body) = 0 THEN 4 ELSE 8
    IN  When(body # <<>> /\ Version(body) \in {0, 1} /\ Len(body) >= 4 + width, U(body, 4, width))

TrexLayout ==
    <<<<"default_sample_description_index", "u32">>, <<"default_sample_duration", "u32">>,
      <<"default_sample_size", "u32">>, <<"default_sample_flags", "u32">>>>
ParseTrex(body) ==
    When(Len(body) >= 24, [track_id |-> U(body, 4, 4), trex |-> ReadFields(body, 8, TrexLayout)])

(***************************************************************************)
(* The media information headers.                                          *)
(***************************************************************************)
Colour == <<<<"red", "u16">>, <<"green", "u16">>, <<"blue", "u16">>>>
VmhdLayout == <<<<"graphicsmode", "u16">>>> \o Colour
ParseVmhd(body) == When(Len(body) >= 12, ReadFields(body, 4, VmhdLayout))
BuildVmhd == WrapBox("vmhd", FullBox(0, 1) \o Zeros(8))
BuildSmhd == WrapBox("smhd", Zeros(8))
BuildNmhd == WrapBox("nmhd", Zeros(4))
BuildSthd == WrapBox("sthd", Zeros(4))

HmhdLayout ==
    <<<<"max_pdu_size", "u16">>, <<"avg_pdu_size", "u16">>, <<"max_bitrate", "u32">>,
      <<"avg_bitrate", "u32">>>>
HmhdBox == RecordOf(HmhdLayout)
HmhdWithoutItsEnd(body) == When(Len(body) >= 16, ReadFields(body, 4, HmhdLayout))
ParseHmhd(body) == When(Len(body) >= 20, ReadFields(body, 4, HmhdLayout))

GminLayout == VmhdLayout \o <<<<"balance", "i16">>>>
GminBox == RecordOf(GminLayout)
ParseGmin(body) == When(Len(body) >= 16, ReadFields(body, 4, GminLayout))
BuildGmin(r) == WrapBox("gmin", FullBox(0, 0) \o WriteFields(r, GminLayout) \o Zeros(2))
BuildGmhd(r) == WrapBox("gmhd", BuildGmin(r))

(* A name behind an octet with its length, cut to what is there; a name    *)
(* longer than the octet counts is cut when it is written.  A name whose   *)
(* cut would fall inside a character is cut before it: an octet from 128   *)
(* to 191 continues a character.                                           *)
CountedName(body, at) ==
    LET there == Len(body) - at - 1
        n == U(body, at, 1)
    IN  IF Len(body) <= at THEN <<>> ELSE Lossy(Slice(body, at + 1, IF n < there THEN n ELSE there))
WriteCountedName(name) ==
    LET boundary(n) == n = Len(name) \/ n = 0 \/ name[n + 1] \notin 128..191
        cuts == {n \in 0..Len(name) : n <= 255 /\ boundary(n)}
        n == CHOOSE n \in cuts : \A k \in cuts : k <= n
    IN  <<n>> \o SubSeq(name, 1, n)

TcmiLayout ==
    <<<<"text_font", "u16">>, <<"text_face", "u16">>, <<"text_size", "u16">>>> \o Colour
      \o <<<<"back_red", "u16">>, <<"back_green", "u16">>, <<"back_blue", "u16">>>>
TcmiBox == [style : RecordOf(TcmiLayout), font_name : Seq(0..255)]
ParseTcmi(body) ==
    When(Len(body) >= 22,
         [style |-> ReadFields(body, 4, TcmiLayout), font_name |-> CountedName(body, 22)])
BuildTcmi(r) ==
    WrapBox("tcmi", FullBox(0, 0) \o WriteFields(r.style, TcmiLayout) \o WriteCountedName(r.font_name))

(* The first good gmin and tcmi of a gmhd, over those already known.       *)
FirstOf(known, boxes, code, Parse(_)) ==
    LET found == RecordsOf(boxes, code, Parse)
    IN  IF known # {} \/ found = <<>> THEN known ELSE {found[1]}
ParseGmhd(known, body) ==
    LET boxes == LenientBoxes(body)
    IN  [gmin |-> FirstOf(known.gmin, boxes, "gmin", ParseGmin),
         tcmi |-> FirstOf(known.tcmi, boxes, "tcmi", ParseTcmi)]

(***************************************************************************)
(* The QuickTime sample entries of time code and of text, and load.        *)
(***************************************************************************)
TmcdLayout ==
    <<<<"flags", "u32">>, <<"timescale", "u32">>, <<"frame_duration", "u32">>,
      <<"number_of_frames", "u8">>>>
TmcdSampleEntry == RecordOf(TmcdLayout)
ParseTmcdSampleEntry(entry) == When(Len(entry) >= 25, ReadFields(entry, 12, TmcdLayout))
BuildTmcdSampleEntry(r, data_reference_index) ==
    WrapBox("tmcd", Zeros(6) \o Num(2, data_reference_index) \o Zeros(4)
      \o WriteFields(r, TmcdLayout) \o Zeros(1))

TextLayout ==
    <<<<"display_flags", "u32">>, <<"text_justification", "i32">>,
      <<"back_red", "u16">>, <<"back_green", "u16">>, <<"back_blue", "u16">>,
      <<"top", "i16">>, <<"left", "i16">>, <<"bottom", "i16">>, <<"right", "i16">>,
      <<"reserved", "u64">>, <<"font_number", "u16">>, <<"font_face", "u16">>,
      <<"reserved", "u24">>>> \o Colour
TextSampleEntry == [style : RecordOf(TextLayout), text_name : Seq(0..255)]
ParseTextSampleEntry(entry) ==
    When(Len(entry) >= 51,
         [style |-> ReadFields(entry, 8, TextLayout), text_name |-> CountedName(entry, 51)])
BuildTextSampleEntry(r, data_reference_index) ==
    WrapBox("text", Zeros(6) \o Num(2, data_reference_index)
      \o WriteFields(r.style, TextLayout) \o WriteCountedName(r.text_name))

LoadLayout ==
    <<<<"preload_start_time", "i32">>, <<"preload_duration", "i32">>,
      <<"preload_flags", "i32">>, <<"default_hints", "i32">>>>
LoadSettingsBox == RecordOf(LoadLayout)
ParseLoadSettings(body) == When(Len(body) >= 16, ReadFields(body, 0, LoadLayout))
BuildLoadSettings(r) == WrapBox("load", WriteFields(r, LoadLayout))

(***************************************************************************)
(* Data references: url or urn, in this file when the flag says so.        *)
(***************************************************************************)
DataEntry ==
    [kind : Nat, flags : Nat, name : SUBSET Seq(0..255),
     location : SUBSET Seq(0..255)]
(* The text up to its NUL or the end; an empty one is none.                *)
ReadCString(octets) ==
    LET text == IF CString(octets, 0) = {} THEN octets
                ELSE (CHOOSE t \in CString(octets, 0) : TRUE).row
    IN  When(text # <<>>, Lossy(text))
AfterCString(octets) ==
    UNION {{Rest(octets, t.next)} : t \in CString(octets, 0)}
DataEntryOf(type, flags, payload) ==
    LET rest == IF AfterCString(payload) = {} THEN <<>>
                ELSE CHOOSE r \in AfterCString(payload) : TRUE
        entry(name, location) ==
          <<[kind |-> type, flags |-> flags, name |-> name, location |-> location]>>
    IN  IF type = FourCC["url "]
        THEN entry({}, IF Bit(flags, 0) THEN {} ELSE ReadCString(payload))
        ELSE IF type = FourCC["urn "] THEN entry(ReadCString(payload), ReadCString(rest)) ELSE <<>>
(* As many entries as counted and there; a bad header fails the dref, an   *)
(* entry open to the end of the file or past the end ends it, and one      *)
(* without version and flags is passed over.                               *)
ParseDref(body) ==
    LET list == Rest(body, 8)
        walk[n \in 0..Len(list)] ==
          [at \in 0..Len(list) |->
             IF n = 0 \/ at = Len(list) THEN {<<>>}
             ELSE UNION {
                    LET after == h.next + PayloadSize(h)
                        child == Slice(list, h.next, PayloadSize(h))
                    IN  IF OpenEnded(h) \/ after > Len(list) THEN {<<>>}
                        ELSE {(IF Len(child) < 4 THEN <<>>
                               ELSE DataEntryOf(h.type, Flags(child), Rest(child, 4))) \o rest :
                                 rest \in walk[n - 1][after]}
                  : h \in Header(list, at)}]
        entry_count == U(body, 4, 4)
    IN  IF Len(body) < 8 THEN {}
        ELSE walk[IF entry_count < Len(list) THEN entry_count ELSE Len(list)][0]
BuildDinf ==
    WrapBox("dinf", WrapBox("dref", FullBox(0, 0) \o Num(4, 1) \o WrapBox("url ", FullBox(0, 1))))
(* The first dref of a dinf; anything bad before it, or in it, and the     *)
(* dinf says nothing.                                                      *)
ParseDinf(body) ==
    LET walk[at \in 0..Len(body)] ==
          UNION {LET after == h.next + PayloadSize(h)
                 IN  IF after > Len(body) THEN {}
                     ELSE IF h.type = FourCC["dref"]
                     THEN ParseDref(Slice(body, h.next, PayloadSize(h)))
                     ELSE walk[after] : h \in Header(body, at)}
    IN  walk[0]

(***************************************************************************)
(* The small boxes of a visual sample entry: aspect ratio, aperture,       *)
(* colour, viewing environment, bit rate and stereo layout (src/demux.rs). *)
(***************************************************************************)

AmveLayout ==
    <<<<"ambient_illuminance", "u32">>, <<"ambient_light_x", "u16">>,
      <<"ambient_light_y", "u16">>>>
ParseAmve(body) == When(FitFields(body, 0, AmveLayout), ReadFields(body, 0, AmveLayout))

BtrtLayout ==
    <<<<"buffer_size_db", "u32">>, <<"max_bitrate", "u32">>, <<"avg_bitrate", "u32">>>>
ParseBtrt(body) == When(FitFields(body, 0, BtrtLayout), ReadFields(body, 0, BtrtLayout))

PaspLayout == <<<<"h_spacing", "u32">>, <<"v_spacing", "u32">>>>
PaspRecord == RecordOf(PaspLayout)
ParsePasp(body) == When(FitFields(body, 0, PaspLayout), ReadFields(body, 0, PaspLayout))
BuildPasp(r) == {WrapBox("pasp", WriteFields(r, PaspLayout))}

ClapLayout ==
    <<<<"width_n", "u32">>, <<"width_d", "u32">>, <<"height_n", "u32">>,
      <<"height_d", "u32">>, <<"horiz_off_n", "u32">>, <<"horiz_off_d", "u32">>,
      <<"vert_off_n", "u32">>, <<"vert_off_d", "u32">>>>
ClapRecord == RecordOf(ClapLayout)
ParseClap(body) == When(FitFields(body, 0, ClapLayout), ReadFields(body, 0, ClapLayout))
BuildClap(r) == {WrapBox("clap", WriteFields(r, ClapLayout))}

(* The four forms of colour information, told apart by form.               *)
ColrRecord ==
    [form : {"nclx"}, colour_primaries : Nat, transfer_characteristics : Nat,
     matrix_coefficients : Nat, full_range : BOOLEAN]
    \cup [form : {"restricted", "unrestricted"}, data : Seq(0..255)]
    \cup [form : {"other"}, colour_type : Nat, data : Seq(0..255)]
ParseColr(body) ==
    LET colour_type == U(body, 0, 4)
        data == Rest(body, 4)
    IN  IF Len(body) < 4 THEN {}
        ELSE IF colour_type = FourCC["nclx"]
        THEN When(Len(data) >= 7,
                  [form |-> "nclx", colour_primaries |-> U(data, 0, 2),
                   transfer_characteristics |-> U(data, 2, 2),
                   matrix_coefficients |-> U(data, 4, 2),
                   full_range |-> U(data, 6, 1) >= 128])
        ELSE IF colour_type = FourCC["rICC"] THEN {[form |-> "restricted", data |-> data]}
        ELSE IF colour_type = FourCC["prof"] THEN {[form |-> "unrestricted", data |-> data]}
        ELSE {[form |-> "other", colour_type |-> colour_type, data |-> data]}
BuildColr(r) ==
    {WrapBox("colr",
       IF r.form = "nclx"
       THEN Num(4, FourCC["nclx"]) \o Num(2, r.colour_primaries)
              \o Num(2, r.transfer_characteristics) \o Num(2, r.matrix_coefficients)
              \o <<BitsWhen(r.full_range, 128)>>
       ELSE IF r.form = "restricted" THEN Num(4, FourCC["rICC"]) \o r.data
       ELSE IF r.form = "unrestricted" THEN Num(4, FourCC["prof"]) \o r.data
       ELSE Num(4, r.colour_type) \o r.data)}

StviRecord ==
    [single_view_allowed : 0..3, stereo_scheme : Nat, stereo_indication_type : Seq(0..255)]
ParseStvi(body) ==
    LET length == U(body, 12, 4)
    IN  When(Len(body) >= 16 /\ 16 + length <= Len(body),
             [single_view_allowed |-> U(body, 7, 1) % 4, stereo_scheme |-> U(body, 8, 4),
              stereo_indication_type |-> Slice(body, 16, length)])
BuildStvi(record) ==
    {WrapBox("stvi", FullBox(0, 0) \o Num(4, record.single_view_allowed % 4)
       \o Num(4, record.stereo_scheme) \o Num(4, Len(record.stereo_indication_type))
       \o record.stereo_indication_type)}
=============================================================================
