------------------------------ MODULE TrackRun ------------------------------
(***************************************************************************)
(* The sample table of one track fragment: how the fragmented muxer packs  *)
(* a run of samples into `tfhd` defaults plus a `trun`                     *)
(* (FragmentDefaults::for_track, build_tfhd, build_trun in src/frag.rs)    *)
(* and how the demuxer unpacks it again (parse_tfhd, parse_trun and the    *)
(* run walk of parse_traf in src/demux.rs).                                *)
(*                                                                         *)
(* A sample is a record [id, key, duration, size, cts].  `key` stands for  *)
(* sample_flags: sample_flags_for yields exactly two values, which differ  *)
(* in SAMPLE_IS_NON_SYNC, the only bit the reader looks at.  An optional   *)
(* field of a box is a set of at most one value: {} when its flag bit is   *)
(* clear.  Sizes are bytes.                                                *)
(***************************************************************************)
EXTENDS Lists

Some(o) == o # {}
ValueOf(o, default) == IF o = {} THEN default ELSE CHOOSE x \in o : TRUE
Present(cond, x) == IF cond THEN {x} ELSE {}

Ticks(q) == LET duration(s) == s.duration IN SumOf(q, duration)
Bytes(q) == LET size(s) == s.size IN SumOf(q, size)

(* A file is a sequence of boxes that know their size. *)
BoxSize(box) == box.size
Position(f, k) == SumOf(SubSeq(f, 1, k - 1), BoxSize)
EndOf(f) == SumOf(f, BoxSize)

(* Media time is whole ticks, rounded towards zero. *)
Rescale(v, num, den, scale) ==
    IF den = 0 \/ scale = 0 THEN v
    ELSE IF v < 0 THEN -((-v * num * scale) \div den)
    ELSE (v * num * scale) \div den

(***************************************************************************)
(* Packing.                                                                *)
(***************************************************************************)
Agreed(S) == IF Cardinality(S) = 1 THEN S ELSE {}
Values(q, field) == {q[k][field] : k \in DOMAIN q}

(* Faulty: the tail alone decides, and the first sample is forgotten. *)
FragmentDefaultsTailOnly(q) ==
    LET tail == Values(IF Len(q) > 1 THEN Tail(q) ELSE q, "key")
    IN  [duration |-> Agreed(Values(q, "duration")),
         size     |-> Agreed(Values(q, "size")),
         flags    |-> Agreed(tail),
         first    |-> {}]

(* The value every sample shares, per field; for flags, the value every    *)
(* sample but the first shares also counts, and `first` then holds the     *)
(* first sample's own.                                                     *)
FragmentDefaults(q) ==
    LET flags == Values(q, "key")
        tail  == Values(Tail(q), "key")
    IN  [duration |-> Agreed(Values(q, "duration")),
         size     |-> Agreed(Values(q, "size")),
         flags    |-> IF Cardinality(flags) = 1 THEN flags ELSE Agreed(tail),
         first    |-> Present(Cardinality(flags) > 1 /\ Cardinality(tail) = 1,
                              q[1].key)]

TfhdWith(d, t) ==
    [track |-> t, empty |-> FALSE,
     duration |-> d.duration, size |-> d.size, flags |-> d.flags]
BuildTfhd(t, q) == TfhdWith(FragmentDefaults(q), t)

TrunWith(d, q, dataOffset) ==
    LET needCts == \E k \in DOMAIN q : q[k].cts # 0
    IN  [dataOffset |-> dataOffset,
         first |-> d.first,
         rows  |-> [k \in DOMAIN q |->
                      [duration |-> Present(~Some(d.duration), q[k].duration),
                       size     |-> Present(~Some(d.size), q[k].size),
                       flags    |-> Present(~Some(d.flags), q[k].key),
                       cts      |-> Present(needCts, q[k].cts)]]]
BuildTrun(q, dataOffset) == TrunWith(FragmentDefaults(q), q, dataOffset)

(* Bytes of the two boxes: a 4-byte field per option present. *)
FieldBytes(options) ==
    4 * Cardinality({i \in DOMAIN options : Some(options[i])})
TfhdBytes(tfhd) == 16 + FieldBytes(<<tfhd.duration, tfhd.size, tfhd.flags>>)
TrunBytes(trun) ==
    LET row(r) == FieldBytes(<<r.duration, r.size, r.flags, r.cts>>)
    IN  20 + FieldBytes(<<trun.first>>) + SumOf(trun.rows, row)

(***************************************************************************)
(* Unpacking.  `trex` holds the movie-level defaults the file falls back   *)
(* to; `base` is the position of the moof (default-base-is-moof), `dts`    *)
(* the decode time of the first sample.                                    *)
(***************************************************************************)
ReadRun(tfhd, trun, trex, base, dts) ==
    LET row == trun.rows
        duration(k) == ValueOf(row[k].duration,
                               ValueOf(tfhd.duration, trex.duration))
        size(k) == ValueOf(row[k].size, ValueOf(tfhd.size, trex.size))
        tfhdFlags == ValueOf(tfhd.flags, trex.key)
        key(k) == ValueOf(row[k].flags,
                          IF k = 1 THEN ValueOf(trun.first, tfhdFlags)
                                   ELSE tfhdFlags)
        before(k) == [j \in 1..(k - 1) |-> j]
    IN  [k \in DOMAIN row |->
            [offset   |-> base + trun.dataOffset + SumOf(before(k), size),
             dts      |-> dts + SumOf(before(k), duration),
             duration |-> duration(k),
             size     |-> size(k),
             key      |-> key(k),
             cts      |-> ValueOf(row[k].cts, 0)]]
=============================================================================
