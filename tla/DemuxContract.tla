---------------------------- MODULE DemuxContract ----------------------------
(***************************************************************************)
(* What an open demuxer promises its caller.                               *)
(***************************************************************************)
EXTENDS Mp4Demuxer

CONSTANTS
    Payload,     \* what the writer of the files put into each sample: by its
                 \* first octet, [track, dts, octets]
    Protection   \* and how it protected the fragment of a sequence number

(* A fragment has one sample encryption box and one set of auxiliary       *)
(* information at most, and those that read say how it was protected.      *)
ASSUME FragmentsAssumption ==
    \A f \in Files : Openable(f) =>
        LET m == Opened(f)
            apart(q) == \A i, j \in DOMAIN q : SameFragment(q[i], q[j]) => i = j
        IN  apart(m.sencs) /\ apart(m.sais)
ASSUME ProtectionAssumption ==
    \A f \in Files : Openable(f) =>
        LET m == Opened(f)
            ivSize(sai) == ValueOf(m.tracks[sai.track].ivSize, 0)
        IN  /\ \A r \in Range(m.sencs) : r.senc = Protection[r.sequence]
            /\ \A sai \in Range(m.sais) : \A j \in DOMAIN sai.saiz :
                  \A run \in RunOf(sai, sai.saiz[j]) :
                     ReadRunAt(m.input, run, ivSize(sai)) \subseteq {Protection[sai.sequence]}

Calls == {"open_typed", "next_packet", "seek_to", "resolve_sai_aux_info"}
Results == {"ok", "error", "eof", "packet"}

(* The variables hold values of their types, and the cursor is within the  *)
(* list.                                                                   *)
SessionTypeOK ==
    /\ cursor \in 0..Len(media.samples)
    /\ position \in Nat
    /\ lastSdi \in SUBSET Nat /\ Cardinality(lastSdi) <= 1
    /\ faults \in 0..MaxFaults
    /\ returned.call \in Calls /\ returned.result \in Results
    /\ \A k \in DOMAIN sencRecords : sencRecords[k].track \in DOMAIN media.tracks

(* The samples of open_typed are the writer's: where one is said to be,    *)
(* its octets are, and they are those of its track and decode time,        *)
(* whatever the runs leave out -- offsets, sizes, durations, the tfdt -- to*)
(* be filled in.  Not promised of a track that an edit list shifts and     *)
(* that has a fragment without a tfdt: it goes on at the mapped time.      *)
Shifted(t) ==
    \E k \in DOMAIN media.samples :
        /\ media.samples[k].track = t
        /\ media.samples[k].dts # media.samples[k].mediaDts
SamplesAsWritten ==
    returned.call = "open_typed" => \A k \in DOMAIN media.samples :
        LET s == media.samples[k]
            written == Payload[media.input[s.offset + 1]]
        IN  Backed(s) =>
              /\ s.track = written.track
              /\ Slice(media.input, s.offset, s.size) = written.octets
              /\ Shifted(s.track) \/ s.mediaDts = written.dts

(* The sample encryption records: however often the auxiliary information  *)
(* is asked for and whichever reads fail, no fragment has two, each says   *)
(* how the writer protected the fragment, and a call in which no read      *)
(* fails leaves nothing behind that could be resolved.                     *)
AuxResolved ==
    /\ \A i, j \in DOMAIN sencRecords :
          SameFragment(sencRecords[i], sencRecords[j]) => i = j
    /\ \A k \in DOMAIN sencRecords :
          sencRecords[k].senc = Protection[sencRecords[k].sequence]
    /\ (/\ returned.call = "resolve_sai_aux_info"
        /\ returned.result = "ok" /\ ~returned.failed) =>
          \A n \in Unresolved : Resolved(n, {}) = {}

(* A seek lands on a sync sample of the track asked for and returns its    *)
(* time; it is not past the target unless every sync sample is; without an *)
(* index it is the nearest.  Of an indexed track no more is promised where *)
(* the index, which has media times, does not go: before its first entry,  *)
(* and on a track that an edit list delays.                                *)
Delayed(t) ==
    \E k \in DOMAIN media.samples :
        media.samples[k].track = t /\ media.samples[k].dts > media.samples[k].mediaDts
IndexTimes(t) ==
    {e.time : e \in UNION {ToSet(x.entries) :
                x \in {x \in ToSet(media.tfras) : x.track = media.tracks[t].id}}}
      \cup {(x.ept * media.tracks[t].scale) \div x.scale :
                x \in {x \in ToSet(media.sidxes) : x.track = media.tracks[t].id}}
Guided(t, target) ==
    IndexTimes(t) = {} \/ (~Delayed(t) /\ \E time \in IndexTimes(t) : time <= target)
Sought == returned.call = "seek_to" /\ returned.result = "ok"
SeekLands ==
    Sought =>
        LET t == returned.track
            s == media.samples[cursor + 1]
            due == {k \in SyncsOf(t) : media.samples[k].pts <= returned.target}
        IN  /\ s.track = t /\ s.key /\ s.pts = returned.pts
            /\ (due # {} /\ Guided(t, returned.target)) => s.pts <= returned.target
            /\ IndexTimes(t) = {} => \A k \in due : media.samples[k].pts <= s.pts

(* Whoever keeps reading comes to the end, unreadable samples or not,      *)
(* unless it keeps seeking.                                                *)
Seeks == returned'.call = "seek_to"
Drains == []<><<Seeks>>_vars \/ <>[](cursor = Len(media.samples))

(***************************************************************************)
(* The demuxer is a packet source.                                         *)
(***************************************************************************)
PacketOf(m, s) ==
    [track |-> s.track, pts |-> s.pts, dts |-> s.dts, duration |-> s.duration,
     keyframe |-> s.key, discard |-> s.discard,
     data |-> SwapSampleBytes(IF s.offset + s.size <= Len(m.input)
                              THEN Slice(m.input, s.offset, s.size) ELSE <<>>,
                              m.tracks[s.track].swap)]
Packets == [k \in DOMAIN media.samples |-> PacketOf(media, media.samples[k])]
Answer ==
    LET fields == DOMAIN returned \ {"call", "result"}
    IN  IF returned.call = "open_typed" THEN [what |-> "ready"]
        ELSE IF returned.result = "packet"
             THEN [what |-> "packet", packet |-> [f \in fields |-> returned[f]]]
        ELSE IF returned.result = "eof" THEN [what |-> "eof"]
        ELSE IF returned.call = "next_packet" THEN [what |-> "lost"]
        ELSE IF Sought THEN [what |-> "sought", track |-> returned.track, pts |-> returned.pts]
        ELSE [what |-> "other"]
Source ==
    INSTANCE PacketSource
    WITH packets <- Packets, place <- cursor, got <- Answer
(* Every call is one of a packet source, whatever fails and when.          *)
IsPacketSource == Source!Spec
=============================================================================
