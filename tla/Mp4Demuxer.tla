----------------------------- MODULE Mp4Demuxer ------------------------------
(***************************************************************************)
(* An open demuxer (struct Mp4Demuxer, src/demux.rs): one caller that      *)
(* reads packets, seeks, and asks for the auxiliary information of         *)
(* protected fragments, over one input whose reads may fail.               *)
(***************************************************************************)
EXTENDS FragDemux, Octets

CONSTANTS
    Files,        \* the files that may be given, as in FragDemux
    Targets,      \* the times that may be seeked
    MaxAuxTotal,  \* octets of auxiliary information of one fragment, at most
    MaxFaults     \* failures of the input that may happen; a bound for TLC

ASSUME BoundsAssumption == MaxAuxTotal \in Nat /\ MaxFaults \in Nat

VARIABLES
    media,        \* what open_typed has read; no call changes it
    cursor,       \* the number of samples passed
    position,     \* where the input stands
    lastSdi,      \* description index of the last sample, an option
    sencRecords,  \* the sample encryption records, in order
    faults,       \* failures of the input so far
    returned      \* the last call and what it returned

vars == <<media, cursor, position, lastSdi, sencRecords, faults, returned>>

Opened(f) ==
    LET parsed == Parsed(f) IN
    [samples |-> ByOffset(parsed.samples), input |-> f.input,
     sais |-> parsed.sais, sencs |-> parsed.sencs,
     tfras |-> f.tfras, sidxes |-> f.sidxes,
     tracks |-> [t \in DOMAIN f.tracks |->
                   LET track == f.tracks[t]
                   IN  [id |-> track.id, scale |-> track.scale,
                        ivSize |-> track.ivSize, swap |-> track.swap]]]

(* What is opened is lists: of samples, records and auxiliary information. *)
IsListed(q) == q \in Seq(Range(q))
ASSUME ListAssumption ==
    \A f \in Files : Openable(f) =>
        LET m == Opened(f)
        IN  /\ IsListed(m.samples) /\ IsListed(m.sencs) /\ IsListed(m.sais)
            /\ \A sai \in Range(m.sais) : IsListed(sai.saiz)

(* They name tracks of the file and places in it. *)
ASSUME PlacesAssumption ==
    \A f \in Files : Openable(f) =>
        LET m == Opened(f)
            placed(sai, k) == Len(sai.saio[k].offsets) = 1 =>
                                 sai.base + sai.saio[k].offsets[1] \in Nat
        IN  /\ Len(m.input) \in Nat
            /\ \A s \in Range(m.samples) : s.offset \in Nat /\ s.size \in Nat /\ s.sdi \in Nat
            /\ \A r \in Range(m.sencs) : r.track \in DOMAIN m.tracks
            /\ \A sai \in Range(m.sais) :
                  /\ sai.track \in DOMAIN m.tracks
                  /\ \A k \in DOMAIN sai.saio : placed(sai, k)

Init ==
    /\ \E f \in {f \in Files : Openable(f)} : media = Opened(f)
    /\ cursor = 0
    /\ position = Len(media.input)
    /\ lastSdi = {}
    /\ sencRecords = media.sencs
    /\ faults = 0
    /\ returned = [call |-> "open_typed", result |-> "ok"]

InputFails == faults < MaxFaults /\ faults' = faults + 1

(***************************************************************************)
(* next_packet.  The cursor moves before the sample is read.               *)
(***************************************************************************)
Exhausted == cursor >= Len(media.samples)
NextSample == media.samples[cursor + 1]
Backed(s) == s.offset + s.size <= Len(media.input)

Returns(call, result) == returned' = [call |-> call, result |-> result]

NextAtEnd ==
    /\ Exhausted
    /\ Returns("next_packet", "eof")
    /\ UNCHANGED <<media, cursor, position, lastSdi, sencRecords, faults>>

Advance ==
    /\ ~Exhausted
    /\ cursor' = cursor + 1
    /\ lastSdi' = {NextSample.sdi}
    /\ UNCHANGED <<media, sencRecords>>

(* Faulty: the sample that is not there is asked for again.                *)
NextBeyondInputAgain ==
    /\ ~Exhausted
    /\ ~Backed(NextSample)
    /\ Returns("next_packet", "error")
    /\ UNCHANGED <<media, cursor, position, lastSdi, sencRecords, faults>>

NextBeyondInput ==
    /\ Advance
    /\ ~Backed(NextSample)
    /\ Returns("next_packet", "error")
    /\ UNCHANGED <<position, faults>>

(* Faulty: the cursor moves after the read.                                *)
NextUnreadableAgain ==
    /\ ~Exhausted
    /\ Backed(NextSample)
    /\ InputFails
    /\ position' = NextSample.offset
    /\ lastSdi' = {NextSample.sdi}
    /\ Returns("next_packet", "error")
    /\ UNCHANGED <<media, cursor, sencRecords>>

(* The read fails where the seek has left the input.                       *)
NextUnreadable ==
    /\ Advance
    /\ Backed(NextSample)
    /\ InputFails
    /\ position' = NextSample.offset
    /\ Returns("next_packet", "error")

Packet(s, data) ==
    [call |-> "next_packet", result |-> "packet",
     track |-> s.track, pts |-> s.pts, dts |-> s.dts, duration |-> s.duration,
     keyframe |-> s.key, discard |-> s.discard,
     data |-> SwapSampleBytes(data, media.tracks[s.track].swap)]

NextDelivers ==
    /\ Advance
    /\ Backed(NextSample)
    /\ position' = NextSample.offset + NextSample.size
    /\ returned' = Packet(NextSample, Slice(media.input, NextSample.offset, NextSample.size))
    /\ UNCHANGED faults

(* next_packet, whatever comes of it.                                      *)
NextPacket == NextAtEnd \/ NextBeyondInput \/ NextUnreadable \/ NextDelivers

(***************************************************************************)
(* seek_to: by the tfra of the track, else by its sidx boxes, else by a    *)
(* scan of the samples.  Either index yields a byte offset, from which on  *)
(* the first sync sample of the track is taken.                            *)
(***************************************************************************)
SyncsOf(t) == {k \in DOMAIN media.samples : media.samples[k].track = t /\ media.samples[k].key}

(* The last entry at or before the time, else the first; only the first    *)
(* table of the track counts.                                              *)
TfraSeekTarget(t, pts) ==
    LET tables == {n \in DOMAIN media.tfras : media.tfras[n].track = media.tracks[t].id}
        entries == media.tfras[Min(tables)].entries
        due == {n \in DOMAIN entries : entries[n].time <= pts}
    IN  IF tables = {} \/ entries = <<>> THEN {}
        ELSE {entries[IF due = {} THEN 1 ELSE Max(due)].moofOffset}

(* Where the media references of a sidx start, in time and in the file.    *)
Anchors(sidx) ==
    LET before(n) == SubSeq(sidx.references, 1, n - 1)
        length(r) == IF r.isSidx THEN 0 ELSE r.duration
        bytes(r) == r.size
        anchor(n) == [time |-> sidx.ept + SumOf(before(n), length),
                      offset |-> sidx.at + SumOf(before(n), bytes)]
        media_(n) == ~sidx.references[n].isSidx
        kept == SelectSeq([n \in DOMAIN sidx.references |-> n], media_)
    IN  [k \in DOMAIN kept |-> anchor(kept[k])]

(* Faulty: the time of the track, whatever the scale of the sidx.          *)
TimeUnscaled(sidx, t, pts) == Max({pts, 0})
SidxTime(sidx, t, pts) == (Max({pts, 0}) * sidx.scale) \div media.tracks[t].scale

(* The last anchor of the track that is due, else the first.               *)
SidxSeekTarget(t, pts) ==
    LET scale == media.tracks[t].scale
        mine(s) == s.track = media.tracks[t].id /\ s.scale > 0
        sidxes == SelectSeq(media.sidxes, mine)
        due(s) == [k \in DOMAIN Anchors(s) |->
                     Anchors(s)[k] @@ [due |-> Anchors(s)[k].time <= SidxTime(s, t, pts)]]
        all == FlattenSeq([n \in DOMAIN sidxes |-> due(sidxes[n])])
        reached == {k \in DOMAIN all : all[k].due}
    IN  IF scale = 0 \/ all = <<>> THEN {}
        ELSE {all[IF reached = {} THEN 1 ELSE Max(reached)].offset}

FirstSyncFrom(t, offsets) ==
    LET there == {k \in SyncsOf(t) : \E o \in offsets : media.samples[k].offset >= o}
    IN  {k \in there : \A j \in there : k <= j}

(* The scan stops at the first sync sample past the target and keeps the   *)
(* latest before it; if there is none, it takes the first of the track.    *)
Scan(t, pts) ==
    LET at(k) == media.samples[k].pts
        reached == {k \in SyncsOf(t) : \A j \in SyncsOf(t) : j <= k => at(j) <= pts}
    IN  IF reached = {} THEN {k \in SyncsOf(t) : \A j \in SyncsOf(t) : k <= j}
        ELSE {k \in reached : \A j \in reached : at(j) < at(k) \/ (at(j) = at(k) /\ j <= k)}

Landing(t, pts) ==
    LET byTfra == FirstSyncFrom(t, TfraSeekTarget(t, pts))
        bySidx == FirstSyncFrom(t, SidxSeekTarget(t, pts))
    IN  IF byTfra # {} THEN byTfra ELSE IF bySidx # {} THEN bySidx ELSE Scan(t, pts)

SeekTo(t, pts) ==
    /\ t \in DOMAIN media.tracks
    /\ \E k \in Landing(t, pts) :
          /\ cursor' = k - 1
          /\ returned' = [call |-> "seek_to", result |-> "ok", track |-> t,
                          target |-> pts, pts |-> media.samples[k].pts]
    /\ UNCHANGED <<media, position, lastSdi, sencRecords, faults>>

(* No such stream, or one without sync samples.                            *)
SeekRefused(t, pts) ==
    /\ t \notin DOMAIN media.tracks \/ Landing(t, pts) = {}
    /\ Returns("seek_to", "error")
    /\ UNCHANGED <<media, cursor, position, lastSdi, sencRecords, faults>>

(***************************************************************************)
(* resolve_sai_aux_info.  Each fragment without a sample encryption box at *)
(* the start of the call is tried: a run of auxiliary information for each *)
(* saiz in turn, until one parses.                                         *)
(***************************************************************************)
Schemes == {"cenc", "cbc1", "cens", "cbcs"}

(* The saio of the same type; only one offset for the whole run will do.   *)
SaioFor(sai, saiz) ==
    LET same(k) == sai.saio[k].type = saiz.type
    IN  {sai.saio[k] : k \in {k \in DOMAIN sai.saio :
            same(k) /\ \A j \in 1..(k - 1) : ~same(j)}}

SizesGiven(saiz) == saiz.default # 0 \/ Len(saiz.sizes) >= saiz.count
SizesOf(saiz) ==
    [k \in 1..saiz.count |-> IF saiz.default # 0 THEN saiz.default ELSE saiz.sizes[k]]
Itself(n) == n

(* Where the run of a saiz lies, if it is one the call would read.         *)
RunOf(sai, saiz) ==
    {[at |-> sai.base + so.offsets[1], sizes |-> SizesOf(saiz)] :
        so \in {so \in SaioFor(sai, saiz) :
                  /\ saiz.type \subseteq Schemes
                  /\ Len(so.offsets) = 1
                  /\ SizesGiven(saiz)
                  /\ SumOf(SizesOf(saiz), Itself) \in 1..MaxAuxTotal}}

(* parse_aux_info_run: an IV, and a map if the cell is longer, which then  *)
(* must be exactly as long as the map says.                                *)
Cell(octets, ivSize) ==
    LET count == U(octets, ivSize, 2)
        entry(k) == [clear |-> U(octets, ivSize + 2 + 6 * (k - 1), 2),
                     protected |-> U(octets, ivSize + 4 + 6 * (k - 1), 4)]
    IN  IF octets = <<>> THEN {[iv |-> <<>>, map |-> <<>>]}
        ELSE IF Len(octets) = ivSize THEN {[iv |-> octets, map |-> <<>>]}
        ELSE When(Len(octets) >= ivSize + 2 /\ Len(octets) = ivSize + 2 + 6 * count,
                  [iv |-> Slice(octets, 0, ivSize), map |-> [k \in 1..count |-> entry(k)]])
ParseAuxInfoRun(octets, sizes, ivSize) ==
    LET cell(k) == Cell(Slice(octets, SumOf(SubSeq(sizes, 1, k - 1), Itself), sizes[k]), ivSize)
    IN  When(\A k \in DOMAIN sizes : cell(k) # {},
             [subsampled |-> \E k \in DOMAIN sizes : sizes[k] > ivSize,
              samples |-> [k \in DOMAIN sizes |-> CHOOSE c \in cell(k) : TRUE]])

(* What reading a run gives: nothing if it goes past the end of the input. *)
ReadRunAt(input, run, ivSize) ==
    LET total == SumOf(run.sizes, Itself)
    IN  UNION {ParseAuxInfoRun(Slice(input, run.at, total), run.sizes, ivSize) :
                 x \in Present(run.at + total <= Len(input), run)}

SameFragment(r, s) == r.track = s.track /\ r.sequence = s.sequence
(* Faulty: also what has been resolved before.                             *)
Resolvable == {n \in DOMAIN media.sais : Some(media.tracks[media.sais[n].track].ivSize)}
Unresolved ==
    {n \in DOMAIN media.sais :
        /\ \A k \in DOMAIN sencRecords : ~SameFragment(media.sais[n], sencRecords[k])
        /\ Some(media.tracks[media.sais[n].track].ivSize)}

(* Faulty: the id of the track for its place in the list.                  *)
RecordById(sai, s) ==
    [track |-> media.tracks[sai.track].id, sequence |-> sai.sequence, senc |-> s]
Record(sai, s) == [track |-> sai.track, sequence |-> sai.sequence, senc |-> s]

(* The records of one call, some of whose reads fail: failing holds pairs  *)
(* of a fragment and the saiz whose run could not be read.                 *)
Resolved(n, failing) ==
    LET sai == media.sais[n]
        ivSize == ValueOf(media.tracks[sai.track].ivSize, 0)
        senc(j) == UNION {ReadRunAt(media.input, run, ivSize) :
                            run \in IF <<n, j>> \in failing THEN {} ELSE RunOf(sai, sai.saiz[j])}
        good == {j \in DOMAIN sai.saiz : senc(j) # {}}
    IN  {Record(sai, s) : s \in IF good = {} THEN {} ELSE senc(Min(good))}
NewRecords(failing) ==
    LET due == {n \in Unresolved : Resolved(n, failing) # {}}
        order == Selected([n \in DOMAIN media.sais |-> n], due)
    IN  [k \in DOMAIN order |-> CHOOSE r \in Resolved(order[k], failing) : TRUE]

Attempts ==
    UNION {{<<n, j>> : j \in {j \in DOMAIN media.sais[n].saiz :
                                 RunOf(media.sais[n], media.sais[n].saiz[j]) # {}}} :
             n \in Unresolved}

(* Each read that fails is passed over; the input goes back to where it    *)
(* stood.                                                                  *)
ResolveSaiAuxInfo ==
    \E failing \in SUBSET Attempts :
        /\ faults' = faults + Cardinality(failing) /\ faults' <= MaxFaults
        /\ sencRecords' = sencRecords \o NewRecords(failing)
        /\ returned' = [call |-> "resolve_sai_aux_info", result |-> "ok",
                        added |-> Len(NewRecords(failing)), failed |-> failing # {}]
        /\ UNCHANGED <<media, cursor, position, lastSdi>>

(* A seek that fails ends the call: nothing is added, and the input stays  *)
(* behind the run read before, if any.                                     *)
ResolveAborted ==
    /\ Attempts # {}
    /\ InputFails
    /\ \/ position' = position
       \/ \E a \in Attempts : \E run \in RunOf(media.sais[a[1]], media.sais[a[1]].saiz[a[2]]) :
             position' = run.at + SumOf(run.sizes, Itself)
    /\ Returns("resolve_sai_aux_info", "error")
    /\ UNCHANGED <<media, cursor, lastSdi, sencRecords>>

(***************************************************************************)
(* The caller keeps reading until it is told that the file ends; what else *)
(* it asks for, and when, is up to it.                                     *)
(***************************************************************************)
Stream == 1..(Len(media.tracks) + 1)
Next ==
    \/ NextPacket
    \/ \E t \in Stream, pts \in Targets : SeekTo(t, pts) \/ SeekRefused(t, pts)
    \/ ResolveSaiAuxInfo
    \/ ResolveAborted

Spec == Init /\ [][Next]_vars /\ WF_vars(NextPacket)
=============================================================================
