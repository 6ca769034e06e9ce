------------------------------- MODULE MCDemux -------------------------------
(***************************************************************************)
(* Small files for the demuxer: a track of video with several sync samples *)
(* and a track of PCM audio, whose samples lie partly in the moov and      *)
(* partly in three fragments.  Sample n is the octets n and 100 + n.       *)
(***************************************************************************)
EXTENDS DemuxContract

Video == {1, 2, 4, 5, 6, 8}
VideoTimes == [n \in Video |-> CASE n = 1 -> 0 [] n = 2 -> 2 [] n = 4 -> 4
                                 [] n = 5 -> 6 [] n = 6 -> 8 [] n = 8 -> 10]
Octets2(n) == <<n, 100 + n>>
(* The gap of the audio track, of 3 ticks, lies between samples 7 and 9.   *)
PayloadTable ==
    [n \in 1..9 |->
        IF n \in Video THEN [track |-> 1, dts |-> VideoTimes[n], octets |-> Octets2(n)]
        ELSE IF n = 9 THEN [track |-> 2, dts |-> 9, octets |-> Octets2(n)]
        ELSE [track |-> 2, dts |-> IF n = 3 THEN 0 ELSE 3, octets |-> Octets2(n)]]

(***************************************************************************)
(* Protection of the two fragments of video, and its auxiliary information.*)
(***************************************************************************)
Iv(n) == [i \in 1..8 |-> 10 * n + i]
Clear(n) == [iv |-> Iv(n), map |-> <<>>]
Mapped(n) == [iv |-> Iv(n), map |-> <<[clear |-> 1, protected |-> 300]>>]
ProtectionTable ==
    [s \in 1..3 |->
        IF s = 1 THEN [subsampled |-> TRUE, samples |-> <<Clear(4), Mapped(5), Clear(6)>>]
        ELSE [subsampled |-> FALSE, samples |-> <<Clear(8)>>]]
CellOctets(c) ==
    c.iv \o (IF c.map = <<>> THEN <<>>
             ELSE Num(2, 1) \o Num(2, c.map[1].clear) \o Num(4, c.map[1].protected))
AuxOctets(s) ==
    FlattenSeq([k \in DOMAIN ProtectionTable[s].samples |->
                  CellOctets(ProtectionTable[s].samples[k])])
AuxSizes(s) ==
    [k \in DOMAIN ProtectionTable[s].samples |->
        Len(CellOctets(ProtectionTable[s].samples[k]))]

(***************************************************************************)
(* The input: the header, the samples of the moov at 10, the fragments at  *)
(* 20, 70 and 80, and the auxiliary information of the second at the end.  *)
(***************************************************************************)
At == [moov |-> 10, first |-> 20, data |-> 24, aux |-> 34, second |-> 70,
       third |-> 80, last |-> 90]
Filler(n) == [i \in 1..n |-> 0]
InputOctets ==
    Filler(10) \o Octets2(1) \o Octets2(2) \o Octets2(3) \o Filler(8)
      \o Octets2(4) \o Octets2(5) \o Octets2(6) \o Octets2(7) \o Filler(2)
      \o AuxOctets(1) \o Filler(4)
      \o Filler(4) \o Octets2(8) \o Filler(4)
      \o Filler(4) \o Octets2(9) \o Filler(4)
      \o AuxOctets(2)

(***************************************************************************)
(* One file per choice.                                                    *)
(***************************************************************************)
Run(count, value) == <<[count |-> count, value |-> value]>>
StblFor(sizes, at, delta, syncs) ==
    [stsz |-> sizes, stts |-> Run(Len(sizes), delta), ctts |-> <<>>, stss |-> syncs,
     stsc |-> <<[first |-> 1, perChunk |-> Len(sizes)]>>, chunkOffsets |-> <<at>>]
EditLists ==
    [none |-> <<>>, trim |-> <<Edit(10, 2)>>, delay |-> <<Edit(3, -1), Edit(12, 0)>>]

(* Rows that say everything, and rows that leave everything to defaults.   *)
Row(choice, duration, key) ==
    IF choice.rows = "full"
    THEN [duration |-> {duration}, size |-> {2}, flags |-> {key}, cts |-> {0}]
    ELSE [duration |-> {}, size |-> {}, flags |-> {}, cts |-> {}]
TfhdFor(choice, id, at) ==
    [track |-> id, base |-> Present(choice.rows = "full", at), sdi |-> Present(choice.rows = "full", 2),
     duration |-> {}, size |-> {}, flags |-> {}, empty |-> FALSE]
TrafOf(choice, id, at, time, truns) ==
    [tfhd |-> TfhdFor(choice, id, at), bmdt |-> Present(choice.tfdt, time), truns |-> truns,
     senc |-> {}, piff |-> {}, saiz |-> <<>>, saio |-> <<>>]
Trun(offset, rows) == [dataOffset |-> offset, first |-> {}, rows |-> rows]

(* The auxiliary information of a fragment of video, in the ways a file may*)
(* carry it.                                                               *)
Saiz(type, s) == [type |-> type, default |-> 0, count |-> Len(AuxSizes(s)), sizes |-> AuxSizes(s)]
Saio(type, offsets) == [type |-> type, offsets |-> offsets]
WithAux(traf, choice, s, offset) ==
    CASE choice.aux = "none" -> traf
      [] choice.aux = "senc" -> [traf EXCEPT !.senc = {ProtectionTable[s]},
                                             !.saiz = <<Saiz({}, s)>>, !.saio = <<Saio({}, <<offset>>)>>]
      [] choice.aux = "piff" -> [traf EXCEPT !.piff = {ProtectionTable[s]}]
      [] choice.aux = "run" -> [traf EXCEPT !.saiz = <<Saiz({}, s)>>, !.saio = <<Saio({}, <<offset>>)>>]
      [] choice.aux = "split" -> [traf EXCEPT !.saiz = <<Saiz({}, s)>>,
                                              !.saio = <<Saio({}, <<offset, offset + 8>>)>>]
      [] choice.aux = "foreign" ->
           [traf EXCEPT !.saiz = <<Saiz({"xxxx"}, s), Saiz({"cenc"}, s)>>,
                        !.saio = <<Saio({"xxxx"}, <<0>>), Saio({"cenc"}, <<offset>>)>>]
      [] choice.aux = "nocells" ->
           [traf EXCEPT !.saiz = <<[type |-> {}, default |-> 9, count |-> 1, sizes |-> <<>>],
                                   Saiz({"cenc"}, s)>>,
                        !.saio = <<Saio({}, <<offset>>), Saio({"cenc"}, <<offset>>)>>]
      [] choice.aux = "large" ->
           [traf EXCEPT !.saiz = <<[type |-> {}, default |-> 200, count |-> 1, sizes |-> <<>>]>>,
                        !.saio = <<Saio({}, <<offset>>)>>]

FileOf(choice) ==
    LET row(key) == Row(choice, 2, key)
        sound == Row(choice, 3, TRUE)
        full == choice.rows = "full"
        video == WithAux(TrafOf(choice, 7, At.first, 4,
                           <<Trun({At.data - At.first}, <<row(TRUE), row(FALSE)>>),
                             Trun(Present(full, At.data - At.first + 4), <<row(TRUE)>>)>>),
                         choice, 1, At.aux - At.first)
        audio == TrafOf(choice, 5, At.first, 3, <<Trun({At.data - At.first + 6}, <<sound>>)>>)
        more == WithAux(TrafOf(choice, 7, At.second, 10,
                          <<Trun({4}, <<row(TRUE)>>)>>), choice, 2, At.last - At.second)
        gap == [TrafOf(choice, 5, At.second, 6, <<>>) EXCEPT !.tfhd.empty = TRUE]
        rest == TrafOf(choice, 5, At.third, 9, <<Trun({4}, <<sound>>)>>)
        trex(duration) == [duration |-> duration, size |-> 2, key |-> TRUE, sdi |-> 1]
        sidx == [track |-> 7, scale |-> 500, ept |-> 2, at |-> At.first,
                 references |-> <<[isSidx |-> FALSE, size |-> 50, duration |-> 3],
                                  [isSidx |-> FALSE, size |-> 10, duration |-> 1]>>]
        nested == [track |-> 7, scale |-> 1000, ept |-> 4, at |-> At.moov,
                   references |-> <<[isSidx |-> TRUE, size |-> 10, duration |-> 0]>>
                                    \o [n \in 1..2 |-> [sidx.references[n] EXCEPT !.duration = 2 * @]]]
    IN  [tracks |->
           <<[id |-> 7, scale |-> 1000, elst |-> EditLists[choice.elst],
              stbl |-> StblFor(<<2, 2>>, At.moov, 2, <<1>>), trex |-> trex(2),
              ivSize |-> Present(choice.aux # "none", 8), swap |-> 0],
             [id |-> 5, scale |-> 1000, elst |-> <<>>, stbl |-> StblFor(<<2>>, At.moov + 4, 3, <<>>),
              trex |-> trex(3), ivSize |-> {}, swap |-> 2]>>,
         moofs |-> <<[at |-> At.first, sequence |-> 1, trafs |-> <<video, audio>>],
                     [at |-> At.second, sequence |-> 2, trafs |-> <<gap, more>>],
                     [at |-> At.third, sequence |-> 3, trafs |-> <<rest>>]>>,
         tfras |-> IF choice.index # "tfra" THEN <<>>
                   ELSE <<[track |-> 7, entries |-> <<[time |-> 4, moofOffset |-> At.first],
                                                      [time |-> 10, moofOffset |-> At.second]>>]>>,
         sidxes |-> CASE choice.index = "sidx" -> <<sidx>> [] choice.index = "nested" -> <<nested>>
                      [] OTHER -> <<>>,
         input |-> SubSeq(InputOctets, 1, Len(InputOctets) - choice.cut)]

Plain == [elst |-> "none", tfdt |-> TRUE, rows |-> "full", index |-> "none", aux |-> "none", cut |-> 0]
TimingChoices ==
    {[Plain EXCEPT !.elst = e, !.index = i] :
        e \in DOMAIN EditLists, i \in {"none", "tfra", "sidx", "nested"}}
      \cup {[Plain EXCEPT !.elst = e, !.tfdt = FALSE, !.rows = "bare"] : e \in DOMAIN EditLists}
ProtectedChoices ==
    {[Plain EXCEPT !.aux = a, !.cut = c] :
        a \in {"senc", "piff", "run", "split", "foreign", "nocells", "large"}, c \in {0, 13}}
AllFiles == {FileOf(choice) : choice \in TimingChoices \cup ProtectedChoices}
SeekTargets == {-1, 5, 10}
=============================================================================
