------------------------------ MODULE TrackCenc -----------------------------
(***************************************************************************)
(* The CENC boxes of one track fragment: the auxiliary information of its  *)
(* samples as `senc` + `saiz` + `saio` (append_traf_cenc_boxes,            *)
(* src/frag.rs) and their key-rotation groups as a fragment-local `sgpd` + *)
(* `sbgp` (append_traf_seig_groups), with the reader's two ways back: the  *)
(* cells behind a saiz/saio pair (resolve_sai_aux_info, src/demux.rs) and  *)
(* the group run that covers a sample.                                     *)
(*                                                                         *)
(* An auxiliary record is [of, iv, subs]: the sample it was made for, the  *)
(* length of its initialization vector, its number of subsample pairs.  A  *)
(* group override is a set of at most one seig entry.                      *)
(***************************************************************************)
EXTENDS TrackRun

CONSTANTS
    MaxAuxSize,      \* largest value of saiz.sample_info_size (u8: 255)
    SeigEntryBytes   \* bytes of one serialised seig group entry

LocalGroupBase == 65537   \* 0x10001, the first fragment-local group index

AnySubsamples(aux) == \E k \in DOMAIN aux : aux[k].subs > 0
AuxSize(aux, k) ==
    aux[k].iv + (IF AnySubsamples(aux) THEN 2 + 6 * aux[k].subs ELSE 0)
AuxSizes(aux) == [k \in DOMAIN aux |-> AuxSize(aux, k)]

(* A constant-IV fragment without subsample maps has nothing to store. *)
AuxOmitted(aux) == aux = <<>> \/ (aux[1].iv = 0 /\ ~AnySubsamples(aux))

(* What append_traf_cenc_boxes accepts: the queues in step and every size  *)
(* within the 8-bit field.                                                 *)
AuxFits(aux, samples) ==
    \/ aux = <<>>
    \/ /\ Len(aux) = Len(samples)
       /\ \/ AuxOmitted(aux)
          \/ \A k \in DOMAIN aux : AuxSize(aux, k) <= MaxAuxSize

(* Faulty: the saio offset forgets the sample_count of the senc. *)
CencBoxesShort(aux, at) ==
    LET sizes == AuxSizes(aux)
        constant == Agreed({sizes[k] : k \in DOMAIN sizes})
    IN  IF AuxOmitted(aux) THEN {}
        ELSE {[senc |-> aux,
               saizDefault |-> ValueOf(constant, 0),
               saizSizes |-> IF Some(constant) THEN <<>> ELSE sizes,
               saizCount |-> Len(aux),
               saioOffset |-> at + 12]}

(* The three boxes, `at` being the position of the senc inside the moof;   *)
(* {} when they are omitted.                                               *)
CencBoxes(aux, at) ==
    LET sizes == AuxSizes(aux)
        constant == Agreed({sizes[k] : k \in DOMAIN sizes})
    IN  IF AuxOmitted(aux) THEN {}
        ELSE {[senc |-> aux,
               saizDefault |-> ValueOf(constant, 0),
               saizSizes |-> IF Some(constant) THEN <<>> ELSE sizes,
               saizCount |-> Len(aux),
               saioOffset |-> at + 16]}

SencBytes(aux) == 16 + (LET size(n) == n IN SumOf(AuxSizes(aux), size))
CencBytes(boxes) ==
    IF boxes = {} THEN 0
    ELSE LET b == ValueOf(boxes, {})
         IN  SencBytes(b.senc) + (17 + Len(b.saizSizes)) + 20

(***************************************************************************)
(* Key-rotation groups: distinct entries in order of first use, and the    *)
(* run-length encoded index of each sample (0 for no override).            *)
(***************************************************************************)
Unwrapped(options) == [n \in DOMAIN options |-> ValueOf(options[n], 0)]
Uniques(seig) ==
    LET new == {k \in DOMAIN seig : /\ seig[k] # {}
                                    /\ \A j \in 1..(k - 1) : seig[j] # seig[k]}
    IN  Unwrapped(Selected(seig, new))

IndexAmong(uniques, group) ==
    IF group = {} THEN 0
    ELSE LocalGroupBase - 1 + CHOOSE j \in DOMAIN uniques : {uniques[j]} = group
GroupIndex(seig, k) == IndexAmong(Uniques(seig), seig[k])

(* A run is a pair <<count, index>>, and starts where the index changes.   *)
RunsAt(starts, indices) ==
    LET next(n) == IF n = Len(starts) THEN Len(indices) + 1 ELSE starts[n + 1]
    IN  [n \in DOMAIN starts |-> <<next(n) - starts[n], indices[starts[n]]>>]
RunsFrom(indices, changes) ==
    RunsAt(Selected([k \in DOMAIN indices |-> k], changes), indices)

(* Faulty: a sample without an override continues the run before it. *)
RunLengthsSticky(indices) ==
    RunsFrom(indices, {k \in DOMAIN indices :
                          k = 1 \/ ~(indices[k] \in {0, indices[k - 1]})})

RunLengths(indices) ==
    RunsFrom(indices, {k \in DOMAIN indices : k = 1 \/ indices[k] # indices[k - 1]})

SeigGroups(seig) ==
    IF \A k \in DOMAIN seig : seig[k] = {} THEN {}
    ELSE {[sgpd |-> Uniques(seig),
           sbgp |-> RunLengths([k \in DOMAIN seig |-> GroupIndex(seig, k)])]}

GroupBytes(groups) ==
    IF groups = {} THEN 0
    ELSE LET g == ValueOf(groups, {})
         IN  (24 + SeigEntryBytes * Len(g.sgpd)) + (20 + 8 * Len(g.sbgp))

(***************************************************************************)
(* Reading back.  The cell of sample k that a saiz/saio pair addresses is  *)
(* found by its position in the file; the senc's k-th record sits where    *)
(* the records before it end.                                              *)
(***************************************************************************)
SaizSize(b, k) == IF b.saizDefault # 0 THEN b.saizDefault ELSE b.saizSizes[k]
CellAt(b, k) ==
    LET size(j) == SaizSize(b, j)
    IN  b.saioOffset + SumOf([j \in 1..(k - 1) |-> j], size)
RecordAt(b, at, k) ==
    LET size(j) == AuxSize(b.senc, j)
    IN  at + 16 + SumOf([j \in 1..(k - 1) |-> j], size)

ReadGroup(groups, k) ==
    IF groups = {} THEN {}
    ELSE LET g == ValueOf(groups, {})
             count(run) == run[1]
             covers(n) == SumOf(SubSeq(g.sbgp, 1, n - 1), count) < k
                          /\ k <= SumOf(SubSeq(g.sbgp, 1, n), count)
             index == g.sbgp[CHOOSE n \in DOMAIN g.sbgp : covers(n)][2]
         IN  IF index = 0 THEN {} ELSE {g.sgpd[index - LocalGroupBase + 1]}
=============================================================================
