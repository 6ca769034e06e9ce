------------------------------- MODULE BoxBench -------------------------------
(***************************************************************************)
(* A bench for the box codecs: a record is written as a box, the box may   *)
(* be cut or an octet of it changed on its way, the reader makes of it     *)
(* what it can, and what was read may be written again.  A box is of one   *)
(* of many kinds, each with its own reader, writer and record.             *)
(***************************************************************************)
EXTENDS MovieBoxes

CONSTANTS Given,    \* the records of each kind that are written
          Changes,  \* the values an octet may change to
          Damaged   \* the kinds that are cut or changed on their way

Items == INSTANCE ItemBoxes

VARIABLES
    kind,     \* the kind of the box
    record,   \* what was written
    body,     \* the octets behind the header
    damage,   \* "none", "cut", "changed", or "rewritten" from what was read
    done,     \* the body was read
    read      \* what the reader made of it: an option
bench == <<kind, record, body, damage, done, read>>

Kinds == DOMAIN Given
(* The program reads these and never writes them: the record has the       *)
(* octets of the box and what they say.                                    *)
ReadOnly ==
    {"stz2", "sdtp", "stdp", "padb", "stsh", "hmhd", "elng", "mehd", "dref", "udta", "meco", "adts", "traf", "pcm"}
GroupEntries == {"roll", "rash", "alst", "rap ", "tele", "sap "}
(* What these are read as is not what they are written from; and these are *)
(* written only as the muxer uses them, and are not written again.         *)
Composed == {"stream", "moov", "moof", "meta"}
WrittenOnce == Composed \cup ReadOnly \cup {"sidx", "tfra", "mfra"}

(* The writers: an option of the whole box.                                *)
BuildIndexBox(k, r) ==
    CASE k = "ssix" -> BuildSsix(r) [] k = "prft" -> BuildPrft(r) [] k = "emsg" -> BuildEmsg(r)
      [] k = "pdin" -> BuildPdin(r) [] k = "pnot" -> BuildPnot(r) [] k = "leva" -> BuildLeva(r)
      [] k = "assp" -> BuildAssp(r) [] k = "trep" -> BuildTrep(r)
      [] k = "tfra" -> {BuildTfra(r.track_id, r.entries)}
      [] k = "mfra" -> {WrapBox("mfra", Boxes(LAMBDA t : BuildTfra(t.track_id, t.entries), r.tables)
                                  \o (IF r.mfro_size = {} THEN <<>> ELSE BuildMfro(CHOOSE n \in r.mfro_size : TRUE)))}
      [] k = "sidx" -> LET e == r.references[1]
                       IN  {BuildSidx(r.reference_id, r.timescale, r.earliest_presentation_time,
                                      e.referenced_size, e.subsegment_duration, e.starts_with_sap)}
BuildTrackBox(k, r) ==
    CASE k = "cprt" -> BuildCprt(r) [] k = "kind" -> BuildKind(r) [] k = "tsel" -> BuildTsel(r)
      [] k = "strk" -> BuildStrk(r) [] k = "tref" -> BuildTref(r) [] k = "trgr" -> BuildTrgr(r)
      [] k = "elst" -> BuildElst(r) [] k = "gmin" -> {BuildGmin(r)} [] k = "tcmi" -> {BuildTcmi(r)}
      [] k = "tmcd" -> {BuildTmcdSampleEntry(r, 1)} [] k = "text" -> {BuildTextSampleEntry(r, 1)}
      [] k = "load" -> {BuildLoadSettings(r)} [] k = "srpp" -> {BuildSrpp(r)} [] k = "hinf" -> {BuildHinf(r)}
      [] k = "rtp" -> {BuildRtpHintSampleEntry(r)} [] k = "sm2t" -> {BuildMpeg2TsHintSampleEntry(r)}
      [] k = "stvi" -> BuildStvi(r) [] k = "colr" -> BuildColr(r) [] k = "gmhd" -> {BuildGmhd(r)}
(* A group description is the body of no box of its own.                   *)
BuildGroupEntry(k, r) ==
    CASE k = "roll" -> BuildRoll(r) [] k = "rash" -> BuildRash(r) [] k = "alst" -> BuildAlst(r)
      [] k = "rap " -> BuildRap(r) [] k = "tele" -> BuildTele(r) [] k = "sap " -> BuildSap(r)
BuildTableBox(k, r) ==
    CASE k = "subs" -> BuildSubs(r) [] k = "saiz" -> BuildSaiz(r) [] k = "saio" -> BuildSaio(r)
      [] k = "sbgp" -> {BuildSbgp(r)} [] k = "sgpd" -> {BuildSgpd(r)} [] k = "csgp" -> {BuildCsgp(r)}
      [] k = "tenc" -> BuildTenc(r) [] k = "seig" -> {WrapBox("seig", e) : e \in BuildSeigEntry(r)}
      [] k = "pssh" -> BuildPssh(r) [] k = "senc" -> BuildSenc(r)
      [] k = "piff tenc" -> BuildPiffTenc(r) [] k = "piff senc" -> BuildPiffSenc(r)
      [] k = "piff pssh" -> BuildPiffPssh(r)
BuildItemBox(k, r) ==
    CASE k = "iloc" -> Items!BuildIloc(r) [] k = "pitm" -> Items!BuildPitm(r) [] k = "iinf" -> Items!BuildIinf(r)
      [] k = "iref" -> Items!BuildIref(r) [] k = "iprp" -> Items!BuildIprp(r) [] k = "grpl" -> Items!BuildGrpl(r)
      [] k = "fiin" -> Items!BuildFiin(r) [] k = "feci" -> Items!BuildFeci(r) [] k = "mere" -> Items!BuildMere(r)
(* The items of a file are boxes of their own inside a meta box.           *)
BuildMetaBox(r) ==
    {WrapBox("meta", Zeros(4) \o WrapBox("hdlr", Zeros(8) \o Num(4, r.handler_type))
       \o pitm \o iloc \o iinf \o WrapBox("idat", r.idat)) :
         pitm \in UNION {Items!BuildPitm(id) : id \in r.primary_item_id},
         iloc \in UNION {Items!BuildIloc(b) : b \in r.iloc}, iinf \in UNION {Items!BuildIinf(b) : b \in r.iinf}}

(* A stream: its sample entry, protected where the track is.               *)
EntryOf(r) ==
    UNION {IF r.protection = {} THEN {e}
           ELSE UNION {ApplyProtection(e, r.params.media_type, p) : p \in r.protection} :
             e \in SampleEntryFor(r.params)}
BuildStream(r) == {BuildStsd(e, r.params.media_type) : e \in EntryOf(r)}
(* A movie: its tracks carry their entries.  One to be followed by         *)
(* fragments has its duration filled in at the end.                        *)
BuildMovie(r) ==
    LET entered == BuildAll(LAMBDA t : {<<[sample_entry |-> e] @@ t>> : e \in EntryOf(t)}, r.tracks)
    IN  UNION {IF ~r.fragmented THEN BuildMoov(tracks, r.pssh, r.times)
               ELSE {MehdPatched(init, CHOOSE n \in r.mehd \cup {0} : r.mehd = {} \/ n \in r.mehd) :
                       init \in BuildInitMoov(tracks, r.levels, r.treps, r.pssh, r.mehd # {}, r.times)} :
                 tracks \in entered}

BuildBox(k, r) ==
    CASE k \in {"ssix", "prft", "emsg", "pdin", "pnot", "leva", "assp", "trep", "tfra", "mfra", "sidx"} ->
           BuildIndexBox(k, r)
      [] k \in {"cprt", "kind", "tsel", "strk", "tref", "trgr", "elst", "gmin", "tcmi", "tmcd", "text", "load",
                "srpp", "hinf", "rtp", "sm2t", "stvi", "colr", "gmhd"} -> BuildTrackBox(k, r)
      [] k \in {"iloc", "pitm", "iinf", "iref", "iprp", "grpl", "fiin", "feci", "mere"} -> BuildItemBox(k, r)
      [] k \in GroupEntries -> {WrapTyped(0, BuildGroupEntry(k, r))}
      [] k = "meta" -> BuildMetaBox(r)
      [] k = "stream" -> BuildStream(r)
      [] k = "moov" -> BuildMovie(r)
      [] k = "moof" -> BuildMoof(r)
      [] k \in ReadOnly -> {WrapTyped(0, r.octets)}
      [] OTHER -> BuildTableBox(k, r)

(* The readers.  What a stream or a movie is read as is what a player sees *)
(* of it; the media type of a stream is known before its entry is read.    *)
ReadStream(r, octets) ==
    {StreamOf(t) : t \in ParseStsd([NewTrack EXCEPT !.media_type = r.params.media_type], octets)}
Seen(t) ==
    [track_id |-> t.header.track_id, stream |-> StreamOf(t), timescale |-> t.media.media_timescale,
     duration |-> t.media.media_duration, stts |-> t.stts, ctts |-> t.ctts, stss |-> t.stss, stsc |-> t.stsc,
     stsz |-> FixLegacyPcmSampleSizes(t.stsz, t.pcm, t.channels),
     chunk_offsets |-> t.chunk_offsets, elst |-> t.elst, sbgp |-> t.sbgp, sgpd |-> t.sgpd,
     csgp |-> t.csgp, scheme |-> t.protection_scheme, tenc |-> t.tenc, tkhd_times |-> t.header.times,
     mdhd_times |-> t.media.times, dref |-> t.dref, trex |-> t.trex, handler_type |-> t.handler_type,
     tkhd |-> [width |-> t.header.width, height |-> t.header.height]]
ReadMovie(octets) ==
    {[tracks |-> [i \in DOMAIN m.tracks |-> Seen(m.tracks[i])], psshes |-> m.psshes, times |-> m.header.times,
      duration |-> m.header.duration, fragmented |-> m.fragmented, mehd |-> m.mehd_fragment_duration,
      leva |-> m.leva, treps |-> m.treps] : m \in ParseMoov(octets, Wide)}

ReadIndexBox(k, b) ==
    CASE k = "ssix" -> ParseSsix(b) [] k = "prft" -> ParsePrft(b) [] k = "emsg" -> ParseEmsg(b)
      [] k = "pdin" -> ParsePdin(b) [] k = "pnot" -> ParsePnot(b) [] k = "leva" -> ParseLeva(b)
      [] k = "assp" -> ParseAssp(b) [] k = "trep" -> ParseTrep(b) [] k = "tfra" -> ParseTfra(b)
      [] k = "mfra" -> ParseMfra(b) [] k = "sidx" -> ParseSidx(b, 0)
ReadTrackBox(k, b) ==
    CASE k = "cprt" -> ParseCprt(b) [] k = "kind" -> ParseKind(b) [] k = "tsel" -> ParseTsel(b)
      [] k = "strk" -> ParseStrk(b) [] k = "tref" -> ParseTref(<<>>, b) [] k = "trgr" -> ParseTrgr(b)
      [] k = "elst" -> ParseElst(b) [] k = "gmin" -> ParseGmin(b) [] k = "tcmi" -> ParseTcmi(b)
      [] k = "tmcd" -> ParseTmcdSampleEntry(b) [] k = "text" -> ParseTextSampleEntry(b)
      [] k = "load" -> ParseLoadSettings(b) [] k = "srpp" -> ParseSrpp(b) [] k = "hinf" -> {ParseHinf(b)}
      [] k = "rtp" -> ParseRtpHintSampleEntry(FourCC["rtp "], b)
      [] k = "sm2t" -> ParseMpeg2TsHintSampleEntry(FourCC["sm2t"], b)
      [] k = "stvi" -> ParseStvi(b) [] k = "colr" -> ParseColr(b)
      [] k = "gmhd" -> ParseGmhd([gmin |-> {}, tcmi |-> {}], b).gmin
ReadTableBox(k, b) ==
    CASE k = "subs" -> ParseSubs(b) [] k = "saiz" -> ParseSaiz(b) [] k = "saio" -> ParseSaio(b)
      [] k = "sbgp" -> ParseSbgp(b) [] k = "sgpd" -> ParseSgpd(b) [] k = "csgp" -> ParseCsgp(b)
      [] k = "tenc" -> ParseTenc(b) [] k = "seig" -> ParseSeig(b) [] k = "pssh" -> ParsePssh(b)
      [] k = "senc" -> ParseSenc(b, 8) [] k = "piff tenc" -> ParsePiffTenc(Rest(b, 16))
      [] k = "piff senc" -> ParsePiffSenc(Rest(b, 16), 8) [] k = "piff pssh" -> ParsePiffPssh(Rest(b, 16))
(* What is seen of a meta box, with the data of its primary item.          *)
SeenItems(m) ==
    [primary_item_id |-> m.primary_item_id, handler_type |-> m.handler_type, iloc |-> m.iloc, iinf |-> m.iinf,
     idat |-> m.idat, item |-> UNION {Items!ItemInfo(m, id) : id \in m.primary_item_id},
     ranges |-> UNION {Items!ItemByteRanges(m, id) : id \in m.primary_item_id},
     data |-> UNION {Items!ItemDataFromIdat(m, id) : id \in m.primary_item_id}]
ReadItemBox(k, b) ==
    CASE k = "iloc" -> Items!ParseIloc(b) [] k = "pitm" -> Items!ParsePitm(b) [] k = "iinf" -> Items!ParseIinf(b)
      [] k = "iref" -> Items!ParseIref(b) [] k = "iprp" -> {Items!ParseIprp(b)} [] k = "grpl" -> {Items!ParseGrpl(b)}
      [] k = "fiin" -> Items!ParseFiin(b) [] k = "feci" -> Items!ParseFeci(b)
      [] k = "mere" -> Items!ParseMere(b) [] k = "meta" -> {SeenItems(Items!ParseMetaItems(b))}
(* A packet of AAC as a sample and the config its header tells; and what   *)
(* samples of big-endian PCM come out as.                                  *)
ReadAdts(b) == {[sample |-> s, config |-> {AscFromAdts(i) : i \in ParseAdts(b)}] : s \in StripAdts(b)}
ReadPcm(b) ==
    {[codec |-> StreamOf(t).codec, data |-> {SwapSampleBytes(<<1, 2, 3, 4, 5>>, SwapWidth(l)) : l \in t.pcm}] :
       t \in ParseStsd([NewTrack EXCEPT !.media_type = "audio"], b)}
ReadFoundBox(k, r, b) ==
    CASE k = "stz2" -> ParseStz2(b) [] k = "sdtp" -> ParseSdtp(b) [] k = "stdp" -> ParseStdp(b)
      [] k = "padb" -> ParsePadb(b) [] k = "stsh" -> ParseStsh(b) [] k = "hmhd" -> ParseHmhd(b)
      [] k = "elng" -> ParseElng({}, b) [] k = "mehd" -> ParseMehd(b) [] k = "dref" -> ParseDref(b)
      [] k = "udta" -> {ParseUdta(<<>>, b)} [] k = "meco" -> {Items!ParseMeco(b)}
      [] k = "adts" -> ReadAdts(b) [] k = "traf" -> ParseTraf(r.tracks, b) [] k = "pcm" -> ReadPcm(b)
ReadBox(k, r, b) ==
    CASE k \in {"ssix", "prft", "emsg", "pdin", "pnot", "leva", "assp", "trep", "tfra", "mfra", "sidx"} ->
           ReadIndexBox(k, b)
      [] k \in {"cprt", "kind", "tsel", "strk", "tref", "trgr", "elst", "gmin", "tcmi", "tmcd", "text", "load",
                "srpp", "hinf", "rtp", "sm2t", "stvi", "colr", "gmhd"} -> ReadTrackBox(k, b)
      [] k \in {"iloc", "pitm", "iinf", "iref", "iprp", "grpl", "fiin", "feci", "mere", "meta"} -> ReadItemBox(k, b)
      [] k \in GroupEntries -> DecodeSampleGroupEntry(FourCC[k], b)
      [] k = "stream" -> ReadStream(r, b)
      [] k = "moov" -> ReadMovie(b)
      [] k = "moof" -> ParseMoof(r.tracks, b)
      [] k \in ReadOnly -> ReadFoundBox(k, r, b)
      [] OTHER -> ReadTableBox(k, b)

(***************************************************************************)
(* The bench                                                               *)
(***************************************************************************)
Init ==
    /\ kind \in Kinds
    /\ record \in Given[kind]
    /\ \E box \in BuildBox(kind, record) : body = Rest(box, 8)
    /\ damage = "none"
    /\ done = FALSE /\ read = {}

Cut ==
    /\ damage = "none" /\ ~done /\ kind \in Damaged
    /\ \E n \in 0..(Len(body) - 1) : body' = SubSeq(body, 1, n)
    /\ damage' = "cut"
    /\ UNCHANGED <<kind, record, done, read>>

Change ==
    /\ damage = "none" /\ ~done /\ kind \in Damaged
    /\ \E at \in DOMAIN body, octet \in Changes :
          /\ body[at] # octet
          /\ body' = [body EXCEPT ![at] = octet]
    /\ damage' = "changed"
    /\ UNCHANGED <<kind, record, done, read>>

Read ==
    /\ ~done
    /\ done' = TRUE
    /\ read' = ReadBox(kind, record, body)
    /\ UNCHANGED <<kind, record, body, damage>>

(* What was read of a changed box is written as any other record.          *)
Rewrite ==
    /\ damage = "changed" /\ done /\ kind \notin WrittenOnce
    /\ \E r \in read : \E box \in BuildBox(kind, r) :
          /\ record' = r
          /\ body' = Rest(box, 8)
    /\ damage' = "rewritten"
    /\ done' = FALSE /\ read' = {}
    /\ UNCHANGED kind

Next == Cut \/ Change \/ Read \/ Rewrite
Spec == Init /\ [][Next]_bench
=============================================================================
