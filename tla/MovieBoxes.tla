------------------------------ MODULE MovieBoxes ------------------------------
(***************************************************************************)
(* The movie box: how the demuxer gathers the tracks and what goes with    *)
(* them out of a moov (src/demux.rs), and how the muxer puts one together  *)
(* (src/muxer.rs).  The boxes of a container are read one after the other, *)
(* each over what those before it have said.                               *)
(***************************************************************************)
EXTENDS EntryReader, StblBoxes, GroupBoxes, TrackBoxes, IndexBoxes

Named(box, code) == box.type = FourCC[code]
(* What the boxes make of a state, one at a time; any of them may fail.    *)
Through(state, boxes, Read(_, _)) ==
    LET after[i \in 0..Len(boxes)] ==
          IF i = 0 THEN {state} ELSE UNION {Read(s, boxes[i]) : s \in after[i - 1]}
    IN  after[Len(boxes)]
StrictThrough(state, octets, codes, Read(_, _)) ==
    UNION {Through(state, boxes, Read) : boxes \in StrictBoxes(octets, {FourCC[c] : c \in codes})}
LenientThrough(state, octets, Read(_, _)) ==
    CHOOSE s \in Through(state, LenientBoxes(octets), LAMBDA t, box : {Read(t, box)}) : TRUE
(* A value that is kept once it is there, and a list that grows by what    *)
(* can be read.                                                            *)
KeptOr(known, found) == IF known # {} THEN known ELSE found
Grown(list, found) == IF found = {} THEN list ELSE Append(list, CHOOSE r \in found : TRUE)

(***************************************************************************)
(* A track                                                                 *)
(***************************************************************************)
NewTrack ==
    EntryFields @@
    [media_type |-> "unknown", handler_type |-> 0,
     header |-> [track_id |-> 0, flags |-> 0, width |-> 0, height |-> 0, layer |-> 0,
                 alternate_group |-> 0, volume |-> 0, matrix |-> Zeros(36), times |-> Unset],
     media |-> [media_timescale |-> 0, media_duration |-> 0, language |-> 0, times |-> Unset],
     stts |-> <<>>, stsc |-> <<>>, stsz |-> <<>>, chunk_offsets |-> <<>>, stss |-> <<>>, ctts |-> <<>>,
     elst |-> <<>>, stsh |-> <<>>, sdtp |-> <<>>, stdp |-> <<>>, padb |-> <<>>, cslg |-> {},
     sbgp |-> <<>>, sgpd |-> <<>>, csgp |-> <<>>, subs |-> <<>>, saiz |-> <<>>, saio |-> <<>>,
     trex |-> [default_sample_description_index |-> 0, default_sample_duration |-> 0,
               default_sample_size |-> 0, default_sample_flags |-> 0],
     tref |-> <<>>, trgr |-> <<>>, elng |-> {}, kinds |-> <<>>, copyrights |-> <<>>, tsel |-> {},
     sub_tracks |-> <<>>, vmhd |-> {}, hmhd |-> {}, gmin |-> {}, tcmi |-> {}, load_settings |-> {},
     hint_stats |-> ParseHinf(<<>>), dref |-> {}]

(* Every box in the stbl must be whole; of a table the last counts, of the *)
(* groups and of the auxiliary information every box.                      *)
ReadStblBox(t, box, file_size) ==
    LET b == box.body
    IN  CASE Named(box, "stsd") -> ParseStsd(t, b)
          [] Named(box, "stts") -> {[t EXCEPT !.stts = r] : r \in ParseStts(b)}
          [] Named(box, "stsc") -> {[t EXCEPT !.stsc = r] : r \in ParseStsc(b)}
          [] Named(box, "stsz") -> {[t EXCEPT !.stsz = r] : r \in ParseStsz(b, file_size)}
          [] Named(box, "stz2") -> {[t EXCEPT !.stsz = r] : r \in ParseStz2(b)}
          [] Named(box, "stco") -> {[t EXCEPT !.chunk_offsets = r] : r \in ParseStco(b)}
          [] Named(box, "co64") -> {[t EXCEPT !.chunk_offsets = r] : r \in ParseCo64(b)}
          [] Named(box, "stss") -> {[t EXCEPT !.stss = r] : r \in ParseStss(b)}
          [] Named(box, "stsh") -> {[t EXCEPT !.stsh = r] : r \in ParseStsh(b)}
          [] Named(box, "sdtp") -> {[t EXCEPT !.sdtp = r] : r \in ParseSdtp(b)}
          [] Named(box, "stdp") -> {[t EXCEPT !.stdp = r] : r \in ParseStdp(b)}
          [] Named(box, "padb") -> {[t EXCEPT !.padb = r] : r \in ParsePadb(b)}
          [] Named(box, "ctts") -> {[t EXCEPT !.ctts = r] : r \in ParseCtts(b)}
          [] Named(box, "cslg") -> {[t EXCEPT !.cslg = {r}] : r \in ParseCslg(b)}
          [] Named(box, "sbgp") -> {[t EXCEPT !.sbgp = Append(@, r)] : r \in ParseSbgp(b)}
          [] Named(box, "sgpd") -> {[t EXCEPT !.sgpd = Append(@, r)] : r \in ParseSgpd(b)}
          [] Named(box, "csgp") -> {[t EXCEPT !.csgp = Append(@, r)] : r \in ParseCsgp(b)}
          [] Named(box, "subs") -> {[t EXCEPT !.subs = Append(@, r)] : r \in ParseSubs(b)}
          [] Named(box, "saiz") -> {[t EXCEPT !.saiz = Append(@, r)] : r \in ParseSaiz(b)}
          [] Named(box, "saio") -> {[t EXCEPT !.saio = Append(@, r)] : r \in ParseSaio(b)}
          [] OTHER -> {t}
ParseStbl(t, body, file_size) ==
    UNION {Through(t, boxes, LAMBDA u, box : ReadStblBox(u, box, file_size)) :
             boxes \in StrictBoxes(body, AnyType)}

ReadMinfBox(t, box, file_size) ==
    LET g == ParseGmhd([gmin |-> t.gmin, tcmi |-> t.tcmi], box.body)
    IN  CASE Named(box, "stbl") -> ParseStbl(t, box.body, file_size)
          [] Named(box, "vmhd") -> {[t EXCEPT !.vmhd = KeptOr(@, ParseVmhd(box.body))]}
          [] Named(box, "hmhd") -> {[t EXCEPT !.hmhd = KeptOr(@, ParseHmhd(box.body))]}
          [] Named(box, "gmhd") -> {[t EXCEPT !.gmin = g.gmin, !.tcmi = g.tcmi]}
          [] Named(box, "dinf") -> {[t EXCEPT !.dref = KeptOr(@, ParseDinf(box.body))]}
          [] OTHER -> {t}
ParseMinf(t, body, file_size) ==
    StrictThrough(t, body, {"stbl", "vmhd", "hmhd", "gmhd", "dinf"},
                  LAMBDA u, box : ReadMinfBox(u, box, file_size))

(* A sample entry is read by the handler known when it comes.              *)
ReadMdiaBox(t, box, file_size) ==
    CASE Named(box, "mdhd") -> {[t EXCEPT !.media = h] : h \in ParseMdhd(t.media, box.body)}
      [] Named(box, "elng") -> {[t EXCEPT !.elng = ParseElng(@, box.body)]}
      [] Named(box, "hdlr") -> {[t EXCEPT !.handler_type = h.handler_type, !.media_type = h.media_type] :
                                   h \in ParseHdlr(box.body)}
      [] Named(box, "minf") -> ParseMinf(t, box.body, file_size)
      [] OTHER -> {t}
ParseMdia(t, body, file_size) ==
    StrictThrough(t, body, {"mdhd", "elng", "hdlr", "minf"},
                  LAMBDA u, box : ReadMdiaBox(u, box, file_size))

ReadTrackUdtaBox(t, box) ==
    CASE Named(box, "kind") -> [t EXCEPT !.kinds = Grown(@, ParseKind(box.body))]
      [] Named(box, "tsel") -> [t EXCEPT !.tsel = KeptOr(ParseTsel(box.body), @)]
      [] Named(box, "strk") -> [t EXCEPT !.sub_tracks = Grown(@, ParseStrk(box.body))]
      [] Named(box, "cprt") -> [t EXCEPT !.copyrights = Grown(@, ParseCprt(box.body))]
      [] Named(box, "hinf") /\ NoHintStatistics(t.hint_stats) -> [t EXCEPT !.hint_stats = ParseHinf(box.body)]
      [] OTHER -> t
ParseTrackUdta(t, body) == LenientThrough(t, body, ReadTrackUdtaBox)

ReadTrakBox(t, box, file_size) ==
    CASE Named(box, "tkhd") -> {[t EXCEPT !.header = h] : h \in ParseTkhd(t.header, box.body)}
      [] Named(box, "mdia") -> ParseMdia(t, box.body, file_size)
      [] Named(box, "edts") -> {[t EXCEPT !.elst = e] : e \in ParseEdts(t.elst, box.body)}
      [] Named(box, "tref") -> {[t EXCEPT !.tref = r] : r \in ParseTref(t.tref, box.body)}
      [] Named(box, "trgr") -> {[t EXCEPT !.trgr = @ \o r] : r \in ParseTrgr(box.body)}
      [] Named(box, "load") -> {[t EXCEPT !.load_settings = KeptOr(@, ParseLoadSettings(box.body))]}
      [] Named(box, "udta") -> {ParseTrackUdta(t, box.body)}
      [] OTHER -> {t}
(* Without media there is no track, and that is no error.                  *)
ParseTrak(body, file_size) ==
    LET codes == {"tkhd", "mdia", "edts", "tref", "trgr", "load", "udta"}
        media == \E boxes \in StrictBoxes(body, {FourCC[c] : c \in codes}) :
                    \E i \in DOMAIN boxes : Named(boxes[i], "mdia")
    IN  {IF media THEN {t} ELSE {} :
           t \in StrictThrough(NewTrack, body, codes, LAMBDA t, box : ReadTrakBox(t, box, file_size))}

(***************************************************************************)
(* Metadata: a list of a key and a value.  "@" stands for the octet A9 in  *)
(* the names of the items.                                                 *)
(***************************************************************************)
UdtaKeys ==
    <<<<"titl", "title">>, <<"auth", "artist">>, <<"cprt", "copyright">>, <<"dscp", "description">>,
      <<"gnre", "genre">>, <<"albm", "album">>, <<"yrrc", "date">>>>
IlstKeys ==
    <<<<"@nam", "title">>, <<"@ART", "artist">>, <<"@alb", "album">>, <<"@cmt", "comment">>,
      <<"@gen", "genre">>, <<"@day", "date">>, <<"@wrt", "composer">>, <<"@too", "encoder">>,
      <<"@cpy", "copyright">>, <<"cprt", "copyright">>, <<"@lyr", "lyrics">>,
      <<"aART", "album_artist">>, <<"trkn", "track">>, <<"disk", "disc">>, <<"desc", "description">>>>
KeysFor(table, type) ==
    LET those == {i \in DOMAIN table : FourCC[table[i][1]] = type}
    IN  {[item |-> table[i][2], of |-> <<>>] : i \in those}
Entry(key, value) == [key |-> key, value |-> value]
Text(octets) == Trimmed(Lossy(octets), Blanks)

(* A name, what it means and a value, all three and nothing broken.        *)
ParseFreeformItem(item) ==
    LET last(boxes, code, room) ==
          LET those == {i \in DOMAIN boxes : Named(boxes[i], code) /\ Len(boxes[i].body) >= room}
          IN  {Rest(boxes[Max(those)].body, room) : i \in {i \in those : \A j \in those : j <= i}}
    IN  UNION {{Entry([item |-> "----", of |-> <<Lossy(mean), Lossy(name)>>], Text(data)) :
                  mean \in last(boxes, "mean", 4), name \in last(boxes, "name", 4),
                  data \in last(boxes, "data", 8)} : boxes \in StrictBoxes(item, AnyType)}
ParseIlst(metadata, body) ==
    LET value(box) == IF Named(box, "data") /\ Len(box.body) > 8 THEN Text(Rest(box.body, 8)) ELSE <<>>
        values(boxes) == SelectSeq([i \in DOMAIN boxes |-> value(boxes[i])], LAMBDA v : v # <<>>)
        keyed(key, found) == [i \in DOMAIN found |-> Entry(key, found[i])]
        read(list, item) ==
          IF Named(item, "----") THEN Grown(list, ParseFreeformItem(item.body))
          ELSE list \o (IF KeysFor(IlstKeys, item.type) = {} THEN <<>>
                        ELSE keyed(CHOOSE key \in KeysFor(IlstKeys, item.type) : TRUE,
                                   values(LenientBoxes(item.body))))
    IN  LenientThrough(metadata, body, read)
ParseMetaIlst(metadata, body) ==
    LET read(list, box) == IF Named(box, "ilst") THEN ParseIlst(list, box.body) ELSE list
    IN  LenientThrough(metadata, Rest(body, 4), read)
ParseUdta(metadata, body) ==
    LET read(list, box) ==
          LET entry == {Entry(key, DecodeUtf8OrUtf16(Rest(box.body, 6))) : key \in KeysFor(UdtaKeys, box.type)}
          IN  IF Named(box, "meta") THEN ParseMetaIlst(list, box.body)
              ELSE IF Len(box.body) < 6 THEN list
              ELSE Grown(list, {e \in entry : e.value # <<>>})
    IN  LenientThrough(metadata, body, read)

(***************************************************************************)
(* The movie: defaults reach the first track of their id, and only one     *)
(* that came before them.                                                  *)
(***************************************************************************)
NewMovie ==
    [tracks |-> <<>>, metadata |-> <<>>, fragmented |-> FALSE, mehd_fragment_duration |-> {},
     leva |-> {}, treps |-> <<>>, psshes |-> <<>>, piff_psshes |-> <<>>,
     header |-> [timescale |-> 0, duration |-> 0, rate |-> 0, volume |-> 0, matrix |-> Zeros(36),
                 times |-> Unset]]
WithDefaults(tracks, defaults) ==
    LET those == {i \in DOMAIN tracks : tracks[i].header.track_id = defaults.track_id}
    IN  [i \in DOMAIN tracks |->
           IF those # {} /\ i = Min(those) THEN [tracks[i] EXCEPT !.trex = defaults.trex] ELSE tracks[i]]
ReadMvexBox(m, box) ==
    CASE Named(box, "trex") -> {[m EXCEPT !.tracks = WithDefaults(@, d)] : d \in ParseTrex(box.body)}
      [] Named(box, "mehd") -> {[m EXCEPT !.mehd_fragment_duration = KeptOr(@, ParseMehd(box.body))]}
      [] Named(box, "leva") -> {[m EXCEPT !.leva = KeptOr(@, ParseLeva(box.body))]}
      [] Named(box, "trep") -> {[m EXCEPT !.treps = Grown(@, ParseTrep(box.body))]}
      [] OTHER -> {m}
ParseMvex(m, body) == StrictThrough(m, body, {"trex", "mehd", "leva", "trep"}, ReadMvexBox)
PiffPsshOf(body) ==
    IF Len(body) >= 16 /\ Slice(body, 0, 16) = UserType.pssh THEN ParsePiffPssh(Rest(body, 16)) ELSE {}
ReadMoovBox(m, box, file_size) ==
    CASE Named(box, "trak") -> {[m EXCEPT !.tracks = Grown(@, t)] : t \in ParseTrak(box.body, file_size)}
      [] Named(box, "mvhd") -> {[m EXCEPT !.header = h] : h \in ParseMvhd(m.header, box.body)}
      [] Named(box, "udta") -> {[m EXCEPT !.metadata = ParseUdta(@, box.body)]}
      [] Named(box, "meta") -> {[m EXCEPT !.metadata = ParseMetaIlst(@, box.body)]}
      [] Named(box, "mvex") -> ParseMvex([m EXCEPT !.fragmented = TRUE], box.body)
      [] Named(box, "pssh") -> {[m EXCEPT !.psshes = Grown(@, ParsePssh(box.body))]}
      [] Named(box, "uuid") -> {[m EXCEPT !.piff_psshes = Grown(@, PiffPsshOf(box.body))]}
      [] OTHER -> {m}
ParseMoov(body, file_size) ==
    StrictThrough(NewMovie, body, {"trak", "mvhd", "udta", "meta", "mvex", "pssh", "uuid"},
                  LAMBDA m, box : ReadMoovBox(m, box, file_size))

(***************************************************************************)
(* What the muxer writes.  A track t has its parameters and entry, its     *)
(* tables as in BuildStbl, the scale and the length of its media, an       *)
(* option of edits, its groups and its times.                              *)
(***************************************************************************)
RescaleMovie(value, from) == IF from = 0 THEN value ELSE (value * 1000) \div from
Boxes(Build(_), records) == Concat([i \in DOMAIN records |-> Build(records[i])])
GroupsOf(t) == Boxes(BuildSgpd, t.sgpd) \o Boxes(BuildSbgp, t.sbgp) \o Boxes(BuildCsgp, t.csgp)
BuildMinf(t) ==
    LET header == CASE t.params.media_type = "audio" -> BuildSmhd
                    [] t.params.media_type = "video" -> BuildVmhd
                    [] t.params.media_type = "subtitle" /\ SubtitleUsesSthd(t.params.codec) -> BuildSthd
                    [] OTHER -> BuildNmhd
    IN  WrapBox("minf", header \o BuildDinf
          \o BuildStbl(BuildStsd(t.sample_entry, t.params.media_type), t, GroupsOf(t)))
MediaBeforeHandler(t) ==
    WrapBox("mdia", BuildMdhd(t.media_time_scale, t.cumulative_duration, t.mdhd_timestamps)
      \o BuildMinf(t) \o BuildHdlr(t.params.media_type, SubtitleHandlerFor(t.params.codec)))
BuildMdia(t) ==
    WrapBox("mdia", BuildMdhd(t.media_time_scale, t.cumulative_duration, t.mdhd_timestamps)
      \o BuildHdlr(t.params.media_type, SubtitleHandlerFor(t.params.codec)) \o BuildMinf(t))
BuildTrak(track_id, t) ==
    LET side(sides) == IF sides = {} THEN 0 ELSE CHOOSE n \in sides : TRUE
        tkhd == BuildTkhd(track_id, RescaleMovie(t.cumulative_duration, t.media_time_scale),
                          t.params.media_type, side(t.params.width), side(t.params.height), t.tkhd_timestamps)
        edts == IF t.edits = {} THEN {<<>>} ELSE UNION {{WrapBox("edts", e) : e \in BuildElst(l)} : l \in t.edits}
    IN  {WrapBox("trak", tkhd \o e \o BuildMdia(t)) : e \in edts}
BuildMoov(tracks, pssh, movie_times) ==
    LET lengths == {RescaleMovie(tracks[i].cumulative_duration, tracks[i].media_time_scale) : i \in DOMAIN tracks}
        traks == BuildAll(LAMBDA i : BuildTrak(i, tracks[i]), [i \in DOMAIN tracks |-> i])
    IN  {WrapBox("moov", BuildMvhd(1000, Max(lengths \cup {0}), Len(tracks) + 1, movie_times) \o trak \o protection) :
           trak \in traks, protection \in BuildAll(BuildPssh, pssh)}

(***************************************************************************)
(* What the fragmented muxer writes before the first fragment: tracks that *)
(* are empty, the defaults of their fragments and, if there is to be one,  *)
(* a mehd, which write_trailer fills in at the position kept for it.       *)
(***************************************************************************)
BuildTrex(track_id, d) ==
    WrapBox("trex", Zeros(4) \o Num(4, track_id) \o Num(4, 1) \o Num(4, d.default_sample_duration)
      \o Num(4, d.default_sample_size) \o Num(4, d.default_sample_flags))
BuildMvex(trexes, levels, treps, write_mehd) ==
    LET mehd == IF write_mehd THEN WrapBox("mehd", FullBox(1, 0) \o Zeros(8)) ELSE <<>>
        leva == IF levels = <<>> THEN {<<>>} ELSE BuildLeva([entries |-> levels])
    IN  {[box |-> WrapBox("mvex", mehd \o Concat([i \in DOMAIN trexes |-> BuildTrex(i, trexes[i])]) \o l \o t),
          mehd |-> When(write_mehd, 8 + 8 + 4)] : l \in leva, t \in BuildAll(BuildTrep, treps)}
EmptyTrack(t) ==
    [t EXCEPT !.cumulative_duration = 0, !.stts = <<>>, !.ctts = <<>>, !.stss = <<>>, !.stsc = <<>>,
              !.stsz = <<>>, !.chunkOffsets = <<>>, !.sgpd = <<>>, !.sbgp = <<>>, !.csgp = <<>>]
BuildInitMoov(tracks, levels, treps, pssh, write_mehd, movie_times) ==
    LET mvhd == BuildMvhd(1000, 0, Len(tracks) + 1, movie_times)
        traks == BuildAll(LAMBDA i : BuildTrak(i, EmptyTrack(tracks[i])), [i \in DOMAIN tracks |-> i])
        mvex == BuildMvex([i \in DOMAIN tracks |-> tracks[i].trex], levels, treps, write_mehd)
    IN  {[box |-> WrapBox("moov", mvhd \o trak \o m.box \o protection),
          mehd |-> {8 + Len(mvhd) + Len(trak) + at : at \in m.mehd}] :
             trak \in traks, m \in mvex, protection \in BuildAll(BuildPssh, pssh)}
MehdPatched(init, fragment_duration) ==
    [i \in DOMAIN init.box |->
        IF \E at \in init.mehd : i \in at + 1 .. at + 8
        THEN Num(8, fragment_duration)[i - CHOOSE at \in init.mehd : TRUE] ELSE init.box[i]]

(***************************************************************************)
(* The movie fragment, written by src/frag.rs.  What goes into the boxes   *)
(* of a track fragment is decided as in TrackRun and TrackCenc; a track t  *)
(* has its samples [key, duration, size, cts] with key the sample_flags,   *)
(* its entries of senc and the group descriptions of its samples.          *)
(***************************************************************************)
Run == INSTANCE TrackCenc WITH MaxAuxSize <- 255, SeigEntryBytes <- 0

BuildMfhd(sequence_number) == WrapBox("mfhd", Zeros(4) \o Num(4, sequence_number))
BuildTfhd(track_id, pending) ==
    LET d == Run!FragmentDefaults(pending)
        flags == 131072 + BitsWhen(d.duration # {}, 8) + BitsWhen(d.size # {}, 16) + BitsWhen(d.flags # {}, 32)
    IN  WrapBox("tfhd", FullBox(0, flags) \o Num(4, track_id)
                          \o Words4(d.duration) \o Words4(d.size) \o Words4(d.flags))
BuildTfdt(bmdt) == WrapBox("tfdt", FullBox(1, 0) \o Num(8, bmdt))
BuildTrun(pending, data_offset) ==
    LET run == Run!BuildTrun(pending, data_offset)
        row(r) == Words4(r.duration) \o Words4(r.size) \o Words4(r.flags) \o Words4(r.cts)
        has(field, bits) == BitsWhen(\E k \in DOMAIN run.rows : run.rows[k][field] # {}, bits)
        flags == 1 + BitsWhen(run.first # {}, 4) + has("duration", 256)
                   + has("size", 512) + has("flags", 1024) + has("cts", 2048)
    IN  WrapBox("trun", FullBox(1, flags) \o Num(4, Len(pending)) \o Num(4, data_offset) \o Words4(run.first)
          \o Boxes(row, run.rows))

(* What a decryptor needs of the samples, its first box at a place in the  *)
(* moof, and which of them have a key of their own.                        *)
BuildTrafCenc(t, at) ==
    LET aux == [k \in DOMAIN t.senc |-> [of |-> k, iv |-> Len(t.senc[k].initialization_vector),
                                         subs |-> Len(t.senc[k].subsamples)]]
        untyped == [aux_info_type |-> {}, aux_info_type_parameter |-> {}]
        boxes(b) ==
          {senc \o saiz \o saio :
             senc \in BuildSenc([flags |-> BitsWhen(Run!AnySubsamples(aux), 2), samples |-> t.senc]),
             saiz \in BuildSaiz([aux |-> untyped, default_sample_info_size |-> b.saizDefault,
                                 sample_count |-> b.saizCount, per_sample |-> b.saizSizes]),
             saio \in BuildSaio([version |-> 0, aux |-> untyped, offsets |-> <<b.saioOffset>>])}
    IN  IF ~Run!AuxFits(aux, t.pending) THEN {}
        ELSE IF Run!CencBoxes(aux, at) = {} THEN {<<>>}
        ELSE UNION {boxes(b) : b \in Run!CencBoxes(aux, at)}
BuildTrafGroups(t) ==
    LET runs(g) == [n \in DOMAIN g.sbgp |-> [sample_count |-> g.sbgp[n][1], group_description_index |-> g.sbgp[n][2]]]
        seig == FourCC["seig"]
    IN  IF Run!SeigGroups(t.seig) = {} THEN {<<>>}
        ELSE IF Len(t.seig) # Len(t.pending) THEN {}
        ELSE UNION {{BuildSgpd([grouping_type |-> seig, default_sample_description_index |-> {}, entries |-> entries])
                       \o BuildSbgp([grouping_type |-> seig, grouping_type_parameter |-> {}, entries |-> runs(g)]) :
                         entries \in BuildAll(LAMBDA e : {<<blob>> : blob \in BuildSeigEntry(e)}, g.sgpd)} :
                       g \in Run!SeigGroups(t.seig)}
BuildTraf(t, at, data_offset) ==
    LET head == BuildTfhd(t.track_id, t.pending) \o BuildTfdt(t.next_bmdt)
    IN  {WrapBox("traf", head \o cenc \o groups \o BuildTrun(t.pending, data_offset)) :
           cenc \in BuildTrafCenc(t, at + 8 + Len(head)), groups \in BuildTrafGroups(t)}

(* The tracks that have samples, one after the other, their data in the    *)
(* mdat in the same order.  It is built twice: where the data starts is    *)
(* known when the size of the moof is.                                     *)
BuildMoofInner(m, data_start) ==
    LET body[k \in 0..Len(m.trafs)] ==
          LET t == m.trafs[k]
          IN  IF k = 0
              THEN {[octets |-> BuildMfhd(m.sequence) \o pssh, in_mdat |-> 0] : pssh \in BuildAll(BuildPssh, m.pssh)}
              ELSE IF t.pending = <<>> THEN body[k - 1]
              ELSE UNION {{[octets |-> b.octets \o traf, in_mdat |-> b.in_mdat + Run!Bytes(t.pending)] :
                             traf \in BuildTraf(t, 8 + Len(b.octets), data_start + b.in_mdat)} : b \in body[k - 1]}
    IN  {WrapBox("moof", b.octets) : b \in body[Len(m.trafs)]}
BuildMoof(m) == UNION {BuildMoofInner(m, Len(first) + 8) : first \in BuildMoofInner(m, 0)}

(***************************************************************************)
(* The movie fragment as the demuxer reads it, with the defaults of the    *)
(* tracks: [track_id, tenc, piff_tenc].  It comes out in the form in which *)
(* FragDemux lists the samples.  A field that a flag announces is read at  *)
(* the place that those before it leave it.                                *)
(***************************************************************************)
FieldsPresent(flags, fields) ==
    LET present == SelectSeq(fields, LAMBDA field : Bit(flags, field[1]))
    IN  [i \in DOMAIN present |-> <<present[i][2], present[i][3]>>]
FieldOf(fields, name) == When(name \in DOMAIN fields, fields[name])
IsSync(sample_flags) == ~Bit(sample_flags, 16)

TfhdFields ==
    <<<<0, "base", "u64">>, <<1, "sdi", "u32">>, <<3, "duration", "u32">>, <<4, "size", "u32">>, <<5, "flags", "u32">>>>
(* A time that an earlier tfdt has set is gone.                            *)
ParseTfhd(tracks, state, body) ==
    LET layout == FieldsPresent(Flags(body), TfhdFields)
        f == ReadFields(body, 8, layout)
        known == \E i \in DOMAIN tracks : tracks[i].track_id = U(body, 4, 4)
    IN  When(Len(body) >= 8 /\ known /\ FitFields(body, 8, layout),
             [state EXCEPT !.bmdt = {},
                !.tfhd = {[track |-> U(body, 4, 4), base |-> FieldOf(f, "base"), sdi |-> FieldOf(f, "sdi"),
                           duration |-> FieldOf(f, "duration"), size |-> FieldOf(f, "size"),
                           flags |-> {IsSync(v) : v \in FieldOf(f, "flags")}, empty |-> Bit(Flags(body), 16)]}])
ParseTfdt(body) ==
    IF Len(body) < 4 THEN {}
    ELSE IF Version(body) = 1 THEN When(Len(body) >= 12, U(body, 4, 8)) ELSE When(Len(body) >= 8, U(body, 4, 4))

TrunHead == <<<<0, "data_offset", "i32">>, <<2, "first_sample_flags", "u32">>>>
TrunRow == <<<<8, "duration", "u32">>, <<9, "size", "u32">>, <<10, "flags", "u32">>, <<11, "cts", "i32">>>>
(* Samples that take no octet are only counted, up to what is left of the  *)
(* budget of the file; the composition offsets of both versions are read   *)
(* as signed.                                                              *)
SampleBudget == 1000
ParseTrun(body) ==
    LET head == FieldsPresent(Flags(body), TrunHead)
        row == FieldsPresent(Flags(body), TrunRow)
        at == 8 + SizeOf(head)
        count == U(body, 4, 4)
        h == ReadFields(body, 8, head)
        Row(r) == [duration |-> FieldOf(r, "duration"), size |-> FieldOf(r, "size"),
                   flags |-> {IsSync(v) : v \in FieldOf(r, "flags")}, cts |-> FieldOf(r, "cts")]
    IN  When(/\ Len(body) >= 8 /\ count <= SampleBudget /\ FitFields(body, 8, head)
             /\ row # <<>> => FitRows(body, at, count, row),
             [dataOffset |-> FieldOf(h, "data_offset"),
              first |-> {IsSync(v) : v \in FieldOf(h, "first_sample_flags")},
              rows |-> [k \in 1..count |-> Row(ReadFields(body, at + SizeOf(row) * (k - 1), row))]])

(* The first pass over a traf leaves its runs alone; of the boxes a        *)
(* decryptor needs a broken saiz or saio fails the whole, a broken senc or *)
(* group is dropped.                                                       *)
NewTraf ==
    [tfhd |-> {}, bmdt |-> {}, senc |-> {}, piff |-> {}, saiz |-> <<>>, saio |-> <<>>,
     sgpd |-> <<>>, sbgp |-> <<>>, csgp |-> <<>>]
ReadTrafBox(tracks, t, box) ==
    LET b == box.body
        piff == Len(b) >= 16 /\ Slice(b, 0, 16) = UserType.senc
    IN  CASE Named(box, "tfhd") -> ParseTfhd(tracks, t, b)
          [] Named(box, "tfdt") -> {[t EXCEPT !.bmdt = {time}] : time \in ParseTfdt(b)}
          [] Named(box, "senc") -> {[t EXCEPT !.senc = {b}]}
          [] Named(box, "uuid") -> {IF piff THEN [t EXCEPT !.piff = {Rest(b, 16)}] ELSE t}
          [] Named(box, "saiz") -> {[t EXCEPT !.saiz = Append(@, r)] : r \in ParseSaiz(b)}
          [] Named(box, "saio") -> {[t EXCEPT !.saio = Append(@, r)] : r \in ParseSaio(b)}
          [] Named(box, "sgpd") -> {[t EXCEPT !.sgpd = Grown(@, ParseSgpd(b))]}
          [] Named(box, "sbgp") -> {[t EXCEPT !.sbgp = Grown(@, ParseSbgp(b))]}
          [] Named(box, "csgp") -> {[t EXCEPT !.csgp = Grown(@, ParseCsgp(b))]}
          [] OTHER -> {t}
(* How long the vectors of a PIFF box are, its track says in one of two    *)
(* ways; the box stands in for a senc that was not read.                   *)
SencsOf(track, t) ==
    LET iv_size == {p.iv_size : p \in track.piff_tenc}
        default == KeptOr(iv_size, {p.ivSize : p \in track.tenc})
        standard == UNION {ParseSenc(b, p.ivSize) : b \in t.senc, p \in track.tenc}
        piff == UNION {ParsePiffSenc(b, CHOOSE n \in KeptOr(default, {0}) : TRUE) : b \in t.piff}
    IN  [senc |-> KeptOr(standard, {ToSenc(p) : p \in piff}), piff |-> piff]
ParseTraf(tracks, body) ==
    LET codes == {"tfhd", "tfdt", "senc", "uuid", "saiz", "saio", "sgpd", "sbgp", "csgp"}
        runs(h) == IF h.empty THEN {<<>>}
                   ELSE StrictThrough(<<>>, body, {"trun"},
                                      LAMBDA list, box : {Append(list, r) : r \in ParseTrun(box.body)})
        first(id) == tracks[CHOOSE i \in DOMAIN tracks : /\ tracks[i].track_id = id
                                                         /\ \A j \in 1..(i - 1) : tracks[j].track_id # id]
    IN  UNION {UNION {{SencsOf(first(h.track), t) @@ [tfhd |-> h, truns |-> list] @@ t : list \in runs(h)} : h \in t.tfhd} :
                 t \in StrictThrough(NewTraf, body, codes, LAMBDA t, box : ReadTrafBox(tracks, t, box))}

(* The number of the fragment is that of its last mfhd, and goes for what  *)
(* stands before it as well.                                               *)
ReadMoofBox(tracks, m, box) ==
    CASE Named(box, "mfhd") -> {IF Len(box.body) >= 8 THEN [m EXCEPT !.sequence = U(box.body, 4, 4)] ELSE m}
      [] Named(box, "traf") -> {[m EXCEPT !.trafs = Append(@, t)] : t \in ParseTraf(tracks, box.body)}
      [] Named(box, "pssh") -> {[m EXCEPT !.psshes = Grown(@, ParsePssh(box.body))]}
      [] Named(box, "uuid") -> {[m EXCEPT !.piff_psshes = Grown(@, PiffPsshOf(box.body))]}
      [] OTHER -> {m}
ParseMoof(tracks, body) ==
    StrictThrough([sequence |-> 0, trafs |-> <<>>, psshes |-> <<>>, piff_psshes |-> <<>>], body,
                  {"mfhd", "traf", "pssh", "uuid"}, LAMBDA m, box : ReadMoofBox(tracks, m, box))
=============================================================================
