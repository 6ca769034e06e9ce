----------------------------- MODULE FragReader -----------------------------
(***************************************************************************)
(* What the demuxer makes of a fragmented file (src/demux.rs): the box     *)
(* walk of open_typed, parse_moof and parse_traf, the sample list sorted   *)
(* by file offset, and seek_to over the tfra and sidx indexes.             *)
(*                                                                         *)
(* A file is the sequence of boxes FragMuxer writes.  The moov of such a   *)
(* file has empty sample tables and a trex of zeros.                       *)
(***************************************************************************)
EXTENDS TrackCenc, SequencesExt

Trex == [duration |-> 0, size |-> 0, key |-> TRUE]

OfKind(f, kind) ==
    Selected([k \in DOMAIN f |-> k], {k \in DOMAIN f : f[k].kind = kind})
Moofs(f) == OfKind(f, "moof")

(***************************************************************************)
(* parse_traf.  A traf of empty duration has no samples, whatever it       *)
(* carries.  Each sample remembers where its traf is, as a pair of the     *)
(* box number of the moof and the number of the traf, and its own number.  *)
(***************************************************************************)
TrafSamples(f, m, n) ==
    LET traf == f[m].trafs[n]
        run == ReadRun(traf.tfhd, ValueOf(traf.trun, {}), Trex,
                       Position(f, m), traf.bmdt)
    IN  IF traf.tfhd.empty THEN <<>>
        ELSE [k \in DOMAIN run |->
                [track |-> traf.tfhd.track, moof |-> m, traf |-> n, nth |-> k,
                 offset |-> run[k].offset, size |-> run[k].size,
                 dts |-> run[k].dts, duration |-> run[k].duration,
                 key |-> run[k].key, cts |-> run[k].cts]]

MoofSamples(f, m) ==
    FlattenSeq([n \in DOMAIN f[m].trafs |-> TrafSamples(f, m, n)])

(* All samples: as the moofs list them, and in the order next_packet       *)
(* delivers them.                                                          *)
Listed(f) ==
    FlattenSeq([m \in DOMAIN f |->
                   IF f[m].kind = "moof" THEN MoofSamples(f, m) ELSE <<>>])
ByOffset(all) == SortedBy(all, [k \in DOMAIN all |-> all[k].offset])
Samples(f) == ByOffset(Listed(f))

OfTrack(s, t) == Selected(s, {k \in DOMAIN s : s[k].track = t})
SamplesOf(f, t) == OfTrack(Samples(f), t)

(* The bytes at an offset: the sample stored there, if one starts there. *)
Stored(f) ==
    UNION {LET at(k) == Position(f, m) + 8 + Bytes(SubSeq(f[m].data, 1, k - 1))
           IN  {[offset |-> at(k), size |-> f[m].data[k].size,
                 track |-> f[m].data[k].track, id |-> f[m].data[k].id]
                  : k \in DOMAIN f[m].data}
             : m \in ToSet(OfKind(f, "mdat"))}

(* The presentation of a track ends where its last traf ends. *)
TrafEnd(traf) ==
    traf.bmdt +
      (IF traf.tfhd.empty THEN ValueOf(traf.tfhd.duration, 0)
       ELSE LET run == ReadRun(traf.tfhd, ValueOf(traf.trun, {}), Trex, 0, 0)
            IN  Ticks(run))
Mine(trafs, t) == Selected(trafs, {n \in DOMAIN trafs : trafs[n].tfhd.track = t})
TrafsOf(f, t) ==
    FlattenSeq([m \in DOMAIN f |->
                   IF f[m].kind = "moof" THEN Mine(f[m].trafs, t) ELSE <<>>])
TrackEnd(f, t) ==
    LET trafs == TrafsOf(f, t)
    IN  IF trafs = <<>> THEN 0 ELSE TrafEnd(trafs[Len(trafs)])

(***************************************************************************)
(* seek_to: by the tfra of the track, else by its sidx boxes, else by a    *)
(* scan.  Either index yields a byte offset; the first sync sample of the  *)
(* track from there on is the target.  S is the list made of the file when *)
(* it was opened.  The result is a sample, as an option: a track without   *)
(* sync samples cannot be seeked.                                          *)
(***************************************************************************)
Pts(s) == s.dts + s.cts

(* Faulty: an entry at the very time is passed over. *)
LastBefore(entries, time) ==
    LET due == {n \in DOMAIN entries : entries[n].time < time}
    IN  entries[IF due = {} THEN 1
                ELSE CHOOSE n \in due : \A j \in due : j <= n]

LastAtOrBefore(entries, time) ==
    LET due == {n \in DOMAIN entries : entries[n].time <= time}
    IN  entries[IF due = {} THEN 1
                ELSE CHOOSE n \in due : \A j \in due : j <= n]

(* The first tfra of the track counts. *)
TfraTarget(f, t, pts) ==
    LET mfras == OfKind(f, "mfra")
        tables == FlattenSeq([k \in DOMAIN mfras |-> OfTrack(f[mfras[k]].tfra, t)])
    IN  IF tables = <<>> THEN {}
        ELSE {LastAtOrBefore(tables[1].entries, pts).moofOffset}

(* The last sidx of the track that starts by then, else its first.         *)
SidxTarget(f, t, pts) ==
    LET time == Max({pts, 0})
        all == {k \in DOMAIN f : f[k].kind = "sidx" /\ f[k].track = t}
        due == {k \in all : f[k].ept <= time}
        chosen == IF due # {} THEN {Max(due)}
                  ELSE IF all # {} THEN {Min(all)} ELSE {}
    IN  {Position(f, k + 1) : k \in chosen}

SyncsOf(S, t) == {k \in DOMAIN S : S[k].track = t /\ S[k].key}

(* The scan stops at the first sync sample past the target. *)
Scan(S, t, pts) ==
    LET syncs == SyncsOf(S, t)
        reached == {k \in syncs : \A j \in syncs : j <= k => Pts(S[j]) <= pts}
        best == {k \in reached : \A j \in reached :
                    \/ Pts(S[j]) < Pts(S[k])
                    \/ Pts(S[j]) = Pts(S[k]) /\ j <= k}
    IN  IF reached # {} THEN best
        ELSE IF syncs = {} THEN {} ELSE {Min(syncs)}

Landing(S, t, offsets) ==
    LET there == {k \in SyncsOf(S, t) : \E o \in offsets : S[k].offset >= o}
    IN  IF there = {} THEN {} ELSE {Min(there)}

SeekTo(f, S, t, pts) ==
    LET byTfra == Landing(S, t, TfraTarget(f, t, pts))
        bySidx == Landing(S, t, SidxTarget(f, t, pts))
    IN  {S[k] : k \in IF byTfra # {} THEN byTfra
                      ELSE IF bySidx # {} THEN bySidx
                      ELSE Scan(S, t, pts)}
=============================================================================
