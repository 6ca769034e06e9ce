------------------------------ MODULE FragDemux ------------------------------
(***************************************************************************)
(* The sample list open_typed makes of any file (src/demux.rs): the sample *)
(* tables of the moov (expand_samples), then the fragments in file order   *)
(* (parse_moof, parse_traf), all mapped by the edit list of their track    *)
(* and sorted by file offset.  FragReader is the special case of a file    *)
(* this crate has written: no samples in the moov, no edit list, one run   *)
(* per fragment, a tfdt in every one.                                      *)
(*                                                                         *)
(* A file is a record of                                                   *)
(*   tracks   sequence of [id, scale, elst, stbl, trex, ivSize, swap]      *)
(*   moofs    sequence of [at, sequence, trafs]                            *)
(*   tfras    sequence of [track, entries], sidxes of [track, scale, ept,  *)
(*            at, references], as the parsers return them                  *)
(*   input    its octets, of which only those of samples and of auxiliary  *)
(*            information matter                                           *)
(* and a traf of                                                           *)
(*   tfhd     [track, base, sdi, duration, size, flags, empty]             *)
(*   bmdt     the time of the tfdt, an option                              *)
(*   truns    sequence of [dataOffset, first, rows]                        *)
(*   senc, piff   the two forms of the sample encryption box, options      *)
(*   saiz, saio   sequences                                                *)
(* Tracks go by their place in the list, as in the program; a box names    *)
(* its track by its id.  The flags of a sample are TRUE for a sync sample. *)
(***************************************************************************)
EXTENDS SampleTable

TrackOf(file, id) ==
    {t \in DOMAIN file.tracks : /\ file.tracks[t].id = id
                                /\ \A u \in 1..(t - 1) : file.tracks[u].id # id}

(* A sample on the media timeline becomes one on the presentation timeline.*)
SampleRef(file, t, sdi, s) ==
    LET map == DeltaForCts(file.tracks[t].elst, file.tracks[t].scale, s.dts + s.cts)
    IN  [track |-> t, offset |-> s.offset, size |-> s.size, sdi |-> sdi,
         pts |-> s.dts + s.cts + map.delta, dts |-> s.dts + map.delta,
         duration |-> s.duration, key |-> s.key, discard |-> ~map.presented,
         mediaDts |-> s.dts, cts |-> s.cts]
SampleRefs(file, t, sdi, run) ==
    [k \in DOMAIN run |-> SampleRef(file, t, sdi, run[k])]

MoovSamples(file) ==
    FlattenSeq([t \in DOMAIN file.tracks |->
                  SampleRefs(file, t, 1, ExpandSamples(file.tracks[t].stbl))])

(* Faulty: without the duration of the last sample.                        *)
LastDts(samples, t) ==
    Max({0} \cup {samples[k].dts : k \in {k \in DOMAIN samples : samples[k].track = t}})

(***************************************************************************)
(* The decode time at which a fragment without a tfdt goes on: after the   *)
(* last sample of the moov -- by its dts, which the edit list has mapped   *)
(* -- and then after the last fragment.                                    *)
(***************************************************************************)
NextDts(samples, t) ==
    Max({0} \cup {samples[k].dts + samples[k].duration :
                    k \in {k \in DOMAIN samples : samples[k].track = t}})

(***************************************************************************)
(* The runs of a traf: one without a data offset goes on where the one     *)
(* before ends.                                                            *)
(***************************************************************************)
Runs(traf, trex, base, start) ==
    LET read[k \in 0..Len(traf.truns)] ==
          LET trun == traf.truns[k]
              before == read[k - 1]
              from == IF Some(trun.dataOffset) THEN base + ValueOf(trun.dataOffset, 0)
                                              ELSE before.next
              run == ReadRun(traf.tfhd, [trun EXCEPT !.dataOffset = 0], trex, from, before.dts)
          IN  IF k = 0 THEN [samples |-> <<>>, next |-> base, dts |-> start]
              ELSE [samples |-> before.samples \o run, next |-> from + Bytes(run),
                    dts |-> before.dts + Ticks(run)]
    IN  read[Len(traf.truns)]

(* The sample encryption box of a traf; the older form counts if the other *)
(* is not there or its track has no defaults.                              *)
SencOf(track, traf) ==
    IF Some(traf.senc) /\ Some(track.ivSize) THEN traf.senc ELSE traf.piff

(***************************************************************************)
(* parse_traf takes what has been read so far one traf further.  A traf of *)
(* empty duration has no samples, whatever it carries.                     *)
(***************************************************************************)
ParseTraf(file, moof, traf, done) ==
    LET t == CHOOSE t \in TrackOf(file, traf.tfhd.track) : TRUE
        track == file.tracks[t]
        base == ValueOf(traf.tfhd.base, moof.at)
        start == ValueOf(traf.bmdt, done.nextDts[t])
        runs == Runs(traf, track.trex, base, start)
        record == [track |-> t, sequence |-> moof.sequence]
        senc == {record @@ [senc |-> s] : s \in SencOf(track, traf)}
        sai == Present(traf.saiz # <<>> \/ traf.saio # <<>>,
                       record @@ [saiz |-> traf.saiz, saio |-> traf.saio, base |-> base])
        listed(option) == IF Some(option) THEN <<ValueOf(option, 0)>> ELSE <<>>
    IN  IF traf.tfhd.empty
        THEN [done EXCEPT !.nextDts[t] =
                start + ValueOf(traf.tfhd.duration, track.trex.duration)]
        ELSE [done EXCEPT
                !.samples = @ \o SampleRefs(file, t, ValueOf(traf.tfhd.sdi, track.trex.sdi),
                                            runs.samples),
                !.nextDts[t] = runs.dts,
                !.sencs = @ \o listed(senc),
                !.sais = @ \o listed(sai)]

Trafs(file) ==
    FlattenSeq([m \in DOMAIN file.moofs |->
                  [n \in DOMAIN file.moofs[m].trafs |-> <<m, n>>]])

(* A traf of an unknown track, or a sample outside every chunk, fails the  *)
(* whole of open_typed.                                                    *)
Openable(file) ==
    /\ file.tracks # <<>>
    /\ \A t \in DOMAIN file.tracks : Expandable(file.tracks[t].stbl)
    /\ \A m \in DOMAIN file.moofs : \A n \in DOMAIN file.moofs[m].trafs :
          Some(TrackOf(file, file.moofs[m].trafs[n].tfhd.track))

Parsed(file) ==
    LET moov == MoovSamples(file)
        trafs == Trafs(file)
        walk[k \in 0..Len(trafs)] ==
          IF k = 0
          THEN [samples |-> moov, sencs |-> <<>>, sais |-> <<>>,
                nextDts |-> [t \in DOMAIN file.tracks |-> NextDts(moov, t)]]
          ELSE LET moof == file.moofs[trafs[k][1]]
               IN  ParseTraf(file, moof, moof.trafs[trafs[k][2]], walk[k - 1])
    IN  walk[Len(trafs)]

(* The order of the file; what starts at one offset stays in the order of  *)
(* expansion.                                                              *)
ByOffset(samples) ==
    LET before(i, j) == \/ samples[i].offset < samples[j].offset
                        \/ samples[i].offset = samples[j].offset /\ i < j
        order == SortSeq([i \in DOMAIN samples |-> i], before)
    IN  [i \in DOMAIN order |-> samples[order[i]]]
=============================================================================
