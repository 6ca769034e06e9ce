-------------------------- MODULE Mp4DemuxerProofs ---------------------------
(***************************************************************************)
(* An open demuxer is a packet source, for every set of files, every seek  *)
(* target and every number of failures of the input.                       *)
(*                                                                         *)
(* The argument: the cursor never leaves the list (Within), so a read      *)
(* passes exactly one sample or answers that there is none; a seek only    *)
(* ever takes a sync sample of the track asked for (LandingIsSync); and    *)
(* no other call touches the cursor or the samples.  Records are added to  *)
(* the list by one call only, which tries each fragment that has none, so  *)
(* that no two are of one fragment (AuxInv).                               *)
(***************************************************************************)
EXTENDS DemuxContract, ListProofs

Within ==
    /\ \E S : media.samples \in Seq(S)
    /\ cursor \in 0..Len(media.samples)

(* The landing of a seek is a sync sample, whichever index led to it.      *)
LEMMA LandingIsSync ==
    ASSUME NEW t, NEW pts, NEW k \in Landing(t, pts)
    PROVE  k \in DOMAIN media.samples /\ media.samples[k].key /\ media.samples[k].track = t
  <1>1. \A offsets : FirstSyncFrom(t, offsets) \subseteq SyncsOf(t)
    BY Zenon DEF FirstSyncFrom
  <1>2. Scan(t, pts) \subseteq SyncsOf(t)
    BY Zenon DEF Scan
  <1>3. k \in SyncsOf(t)
    BY <1>1, <1>2, Zenon DEF Landing
  <1> QED
    BY <1>3, Zenon DEF SyncsOf

LEMMA WithinInit == Init => Within
  <1> SUFFICES ASSUME Init PROVE Within
    OBVIOUS
  <1>1. PICK f \in Files : Openable(f) /\ media = Opened(f)
    BY Zenon DEF Init
  <1>2. media.samples \in Seq(Range(media.samples))
    BY <1>1, ListAssumption, Zenon DEF IsListed
  <1>3. cursor = 0
    BY Zenon DEF Init
  <1> QED
    BY <1>2, <1>3 DEF Within

LEMMA WithinNext == Within /\ [Next]_vars => Within'
  <1> SUFFICES ASSUME Within, [Next]_vars PROVE Within'
    OBVIOUS
  <1>1. PICK S : media.samples \in Seq(S)
    BY Zenon DEF Within
  <1>2. Len(media.samples) \in Nat /\ DOMAIN media.samples = 1..Len(media.samples)
    BY <1>1
  <1>3. media' = media
    BY Zenon DEF Next, NextPacket, NextAtEnd, NextBeyondInput, NextUnreadable, NextDelivers, Advance,
       SeekTo, SeekRefused, ResolveSaiAuxInfo, ResolveAborted, vars
  <1>4. cursor' \in 0..Len(media.samples)
    <2>1. CASE Advance
      BY <1>2, <2>1 DEF Advance, Exhausted, Within
    <2>2. ASSUME NEW t, NEW pts, SeekTo(t, pts) PROVE cursor' \in 0..Len(media.samples)
      <3>1. PICK k \in Landing(t, pts) : cursor' = k - 1
        BY <2>2, Zenon DEF SeekTo
      <3>2. k \in 1..Len(media.samples)
        BY <1>2, LandingIsSync
      <3> QED
        BY <1>2, <3>1, <3>2
    <2>3. CASE cursor' = cursor
      BY <2>3 DEF Within
    <2>4. Advance \/ cursor' = cursor \/ \E t, pts : SeekTo(t, pts)
      BY Zenon DEF Next, NextPacket, NextAtEnd, NextBeyondInput, NextUnreadable, NextDelivers,
         SeekRefused, ResolveSaiAuxInfo, ResolveAborted, vars
    <2> QED
      BY <2>1, <2>2, <2>3, <2>4, Zenon
  <1> QED
    BY <1>1, <1>3, <1>4, Zenon DEF Within

(* The cursor stays within the list of samples.                            *)
THEOREM CursorWithin == Spec => []Within
  <1>1. Within /\ [Next]_vars => Within'
    BY WithinNext
  <1> QED
    BY WithinInit, <1>1, PTL DEF Spec

-----------------------------------------------------------------------------
(***************************************************************************)
(* One step of the demuxer is one of the source.                           *)
(***************************************************************************)
LEMMA SourceInit == Init => Source!Init
  <1> SUFFICES ASSUME Init PROVE Source!Init
    OBVIOUS
  <1>1. cursor = 0
    BY Zenon DEF Init
  <1>2. returned.call = "open_typed"
    BY DEF Init
  <1>3. Answer = [what |-> "ready"]
    BY <1>2 DEF Answer
  <1> QED
    BY <1>1, <1>3, Zenon DEF Source!Init

LEMMA SamplesArePackets ==
    ASSUME Within
    PROVE  /\ Len(Packets) = Len(media.samples)
           /\ Len(media.samples) \in Nat
           /\ DOMAIN media.samples = 1..Len(media.samples)
           /\ DOMAIN Packets = DOMAIN media.samples
           /\ \A k \in DOMAIN media.samples : Packets[k] = PacketOf(media, media.samples[k])
  <1>1. PICK S : media.samples \in Seq(S)
    BY Zenon DEF Within
  <1> DEFINE n == Len(media.samples)
  <1>2. n \in Nat /\ DOMAIN media.samples = 1..n
    BY <1>1
  <1>3. Packets = [k \in 1..n |-> PacketOf(media, media.samples[k])]
    BY <1>2, Zenon DEF Packets
  <1>4. Len(Packets) = n
    BY <1>2, <1>3
  <1> QED
    BY <1>2, <1>3, <1>4, Zenon

LEMMA AdvanceWithin ==
    ASSUME Within, Advance
    PROVE  /\ cursor < Len(Packets) /\ cursor' = cursor + 1
           /\ Packets[cursor + 1] = PacketOf(media, NextSample)
  <1>1. cursor + 1 \in DOMAIN media.samples /\ cursor < Len(media.samples)
    BY SamplesArePackets DEF Within, Advance, Exhausted
  <1> QED
    BY <1>1, SamplesArePackets, Zenon DEF Advance, NextSample

LEMMA SourceStep == Within /\ [Next]_vars => [Source!Next]_(Source!source)
  <1> SUFFICES ASSUME Within, [Next]_vars PROVE [Source!Next]_(Source!source)
    OBVIOUS
  <1>1. ASSUME media' = media PROVE Packets' = Packets
    BY <1>1, Zenon DEF Packets, PacketOf
  <1>2. ASSUME NextAtEnd PROVE Source!Next
    <2>1. cursor = Len(Packets)
      BY <1>2, SamplesArePackets DEF NextAtEnd, Exhausted, Within
    <2>2. returned' = [call |-> "next_packet", result |-> "eof"]
      BY <1>2, Zenon DEF NextAtEnd, Returns
    <2>3. Answer' = [what |-> "eof"]
      BY <2>2 DEF Answer
    <2> QED
      BY <1>1, <1>2, <2>1, <2>3, Zenon DEF NextAtEnd, Source!Next, Source!Read, Source!End
  <1>3. ASSUME Advance, Returns("next_packet", "error") PROVE Source!Next
    <2>1. returned' = [call |-> "next_packet", result |-> "error"]
      BY <1>3, Zenon DEF Returns
    <2>2. Answer' = [what |-> "lost"]
      BY <2>1 DEF Answer
    <2> QED
      BY <1>1, <1>3, <2>2, AdvanceWithin, Zenon DEF Advance, Source!Next, Source!Read, Source!Lose
  <1>4. ASSUME NextDelivers PROVE Source!Next
    <2> DEFINE s == NextSample
               packet == PacketOf(media, s)
    <2>1. Advance /\ Backed(s)
      BY <1>4, Zenon DEF NextDelivers
    <2>2. returned' = Packet(s, Slice(media.input, s.offset, s.size))
      BY <1>4, Zenon DEF NextDelivers
    <2>3. packet = [track |-> s.track, pts |-> s.pts, dts |-> s.dts, duration |-> s.duration,
                    keyframe |-> s.key, discard |-> s.discard,
                    data |-> SwapSampleBytes(Slice(media.input, s.offset, s.size),
                                             media.tracks[s.track].swap)]
      BY <2>1, Zenon DEF PacketOf, Backed
    <2>4. Answer' = [what |-> "packet", packet |-> packet]
      <3> HIDE DEF s
      <3> DEFINE data == SwapSampleBytes(Slice(media.input, s.offset, s.size),
                                         media.tracks[s.track].swap)
      <3>1. returned' = [call |-> "next_packet", result |-> "packet",
                         track |-> s.track, pts |-> s.pts, dts |-> s.dts, duration |-> s.duration,
                         keyframe |-> s.key, discard |-> s.discard, data |-> data]
        BY <2>2, Zenon DEF Packet
      <3> HIDE DEF data
      <3>2. [f \in DOMAIN (returned') \ {"call", "result"} |-> (returned')[f]] =
              [track |-> s.track, pts |-> s.pts, dts |-> s.dts, duration |-> s.duration,
               keyframe |-> s.key, discard |-> s.discard, data |-> data]
        BY <3>1
      <3>3. (returned').call = "next_packet" /\ (returned').result = "packet"
        BY <3>1
      <3> QED
        BY <2>3, <3>2, <3>3 DEF Answer, data
    <2> QED
      BY <1>1, <2>1, <2>4, AdvanceWithin, Zenon DEF Advance, Source!Next, Source!Read, Source!Deliver
  <1>5. ASSUME NEW t, NEW pts, SeekTo(t, pts) PROVE Source!Next
    <2>1. PICK k \in Landing(t, pts) :
             /\ cursor' = k - 1
             /\ returned' = [call |-> "seek_to", result |-> "ok", track |-> t,
                             target |-> pts, pts |-> media.samples[k].pts]
      BY <1>5, Zenon DEF SeekTo
    <2>2. k \in DOMAIN Packets /\ media.samples[k].key /\ media.samples[k].track = t
      BY LandingIsSync, SamplesArePackets, Zenon
    <2>3. Packets[k] = PacketOf(media, media.samples[k])
      BY <2>2, SamplesArePackets, Zenon
    <2>4. Packets[k].keyframe = media.samples[k].key /\ Packets[k].track = media.samples[k].track
            /\ Packets[k].pts = media.samples[k].pts
      BY <2>3 DEF PacketOf
    <2>5. Answer' = [what |-> "sought", track |-> t, pts |-> media.samples[k].pts]
      BY <2>1 DEF Answer, Sought
    <2>6. Packets' = Packets
      BY <1>1, <1>5, Zenon DEF SeekTo
    <2> QED
      BY <2>1, <2>2, <2>4, <2>5, <2>6, Zenon DEF Source!Next, Source!Seek
  <1>6. ASSUME media' = media, cursor' = cursor, Answer' = [what |-> "other"] PROVE Source!Next
    BY <1>1, <1>6, Zenon DEF Source!Next, Source!Other
  <1>7. ASSUME NEW t, NEW pts, SeekRefused(t, pts) PROVE Source!Next
    <2>1. returned' = [call |-> "seek_to", result |-> "error"]
      BY <1>7, Zenon DEF SeekRefused, Returns
    <2>2. Answer' = [what |-> "other"]
      BY <2>1 DEF Answer, Sought
    <2> QED
      BY <1>6, <1>7, <2>2, Zenon DEF SeekRefused
  <1>8. ASSUME ResolveSaiAuxInfo PROVE Source!Next
    <2>1. PICK added, failed :
             returned' = [call |-> "resolve_sai_aux_info", result |-> "ok",
                          added |-> added, failed |-> failed]
      BY <1>8, Zenon DEF ResolveSaiAuxInfo
    <2>2. Answer' = [what |-> "other"]
      BY <2>1 DEF Answer, Sought
    <2> QED
      BY <1>6, <1>8, <2>2, Zenon DEF ResolveSaiAuxInfo
  <1>9. ASSUME ResolveAborted PROVE Source!Next
    <2>1. returned' = [call |-> "resolve_sai_aux_info", result |-> "error"]
      BY <1>9, Zenon DEF ResolveAborted, Returns
    <2>2. Answer' = [what |-> "other"]
      BY <2>1 DEF Answer, Sought
    <2> QED
      BY <1>6, <1>9, <2>2, Zenon DEF ResolveAborted
  <1>10. ASSUME UNCHANGED vars PROVE UNCHANGED (Source!source)
    <2>1. media' = media /\ cursor' = cursor /\ returned' = returned
      BY <1>10, Zenon DEF vars
    <2>2. Packets' = Packets
      BY <1>1, <2>1, Zenon
    <2>3. Answer' = Answer
      BY <2>1, Zenon DEF Answer, Sought
    <2> QED
      BY <2>1, <2>2, <2>3, Zenon DEF Source!source
  <1> QED
    BY <1>2, <1>3, <1>4, <1>5, <1>7, <1>8, <1>9, <1>10, Zenon
       DEF Next, NextPacket, NextBeyondInput, NextUnreadable

(* Every call of an open demuxer is one of a packet source: it hands over  *)
(* or reports lost the next packet of the file, ends after the last, and   *)
(* moves elsewhere only by a seek, to a sync sample.                       *)
THEOREM DemuxerIsPacketSource == Spec => IsPacketSource
  <1>1. Within /\ [Next]_vars => [Source!Next]_(Source!source)
    BY SourceStep
  <1> QED
    BY SourceInit, <1>1, CursorWithin, PTL DEF Spec, IsPacketSource, Source!Spec

-----------------------------------------------------------------------------
(***************************************************************************)
(* The records of auxiliary information.  A record is of a fragment that   *)
(* carries it, so two records of one fragment would be the same record     *)
(* added twice: by one call, which tries a fragment once, or by two, the   *)
(* second of which finds it resolved.                                      *)
(***************************************************************************)
FromFile == \E f \in Files : Openable(f) /\ media = Opened(f)
Recorded(r) ==
    r.track \in DOMAIN media.tracks /\ r.senc = Protection[r.sequence]
Single(q) == \A i, j \in DOMAIN q : SameFragment(q[i], q[j]) => i = j
AuxInv ==
    /\ FromFile
    /\ IsListed(sencRecords)
    /\ Single(sencRecords)
    /\ \A k \in DOMAIN sencRecords : Recorded(sencRecords[k])

LEMMA ListIs ==
    ASSUME NEW q, IsListed(q)
    PROVE  /\ Len(q) \in Nat /\ DOMAIN q = 1..Len(q)
           /\ \A k \in DOMAIN q : q[k] \in Range(q)
  <1>1. q \in Seq(Range(q))
    BY DEF IsListed
  <1> QED
    BY <1>1

LEMMA SeqIsListed ==
    ASSUME NEW S, NEW q \in Seq(S)
    PROVE  IsListed(q)
  <1>1. DOMAIN q = 1..Len(q) /\ Len(q) \in Nat
    BY Zenon, LenProperties
  <1>2. \A k \in 1..Len(q) : q[k] \in Range(q)
    BY <1>1 DEF Range
  <1>3. q = [k \in 1..Len(q) |-> q[k]]
    OBVIOUS
  <1> DEFINE R == Range(q)
             n == Len(q)
  <1> HIDE DEF R
  <1>4. q \in [1..n -> R]
    BY <1>2, <1>3 DEF R
  <1>5. q \in Seq(R)
    BY <1>1, <1>4
  <1> QED
    BY <1>5 DEF R, IsListed

LEMMA OpenedIs ==
    ASSUME FromFile
    PROVE  /\ IsListed(media.samples) /\ IsListed(media.sencs) /\ IsListed(media.sais)
           /\ Single(media.sencs) /\ Single(media.sais)
           /\ \A k \in DOMAIN media.sencs : Recorded(media.sencs[k])
           /\ \A n \in DOMAIN media.sais :
                LET sai == media.sais[n] IN
                /\ sai.track \in DOMAIN media.tracks /\ IsListed(sai.saiz)
                /\ \A j \in DOMAIN sai.saiz : \A run \in RunOf(sai, sai.saiz[j]) :
                     ReadRunAt(media.input, run, ValueOf(media.tracks[sai.track].ivSize, 0))
                       \subseteq {Protection[sai.sequence]}
  <1>1. PICK f \in Files : Openable(f) /\ media = Opened(f)
    BY DEF FromFile
  <1>2. IsListed(media.samples) /\ IsListed(media.sencs) /\ IsListed(media.sais)
    BY <1>1, ListAssumption, Zenon
  <1>3. Single(media.sencs) /\ Single(media.sais)
    BY <1>1, FragmentsAssumption, Zenon DEF Single
  <1>4. /\ \A r \in Range(media.sencs) : r.track \in DOMAIN media.tracks
        /\ \A sai \in Range(media.sais) : sai.track \in DOMAIN media.tracks
    BY <1>1, PlacesAssumption, Zenon
  <1>9. \A sai \in Range(media.sais) : IsListed(sai.saiz)
    BY <1>1, ListAssumption, Zenon
  <1>5. /\ \A r \in Range(media.sencs) : r.senc = Protection[r.sequence]
        /\ \A sai \in Range(media.sais) : \A j \in DOMAIN sai.saiz :
              \A run \in RunOf(sai, sai.saiz[j]) :
                 ReadRunAt(media.input, run, ValueOf(media.tracks[sai.track].ivSize, 0))
                   \subseteq {Protection[sai.sequence]}
    BY <1>1, ProtectionAssumption, Zenon
  <1>6. \A k \in DOMAIN media.sencs : media.sencs[k] \in Range(media.sencs)
    BY <1>2, ListIs
  <1>7. \A k \in DOMAIN media.sais : media.sais[k] \in Range(media.sais)
    BY <1>2, ListIs
  <1>8. \A k \in DOMAIN media.sencs : Recorded(media.sencs[k])
    BY <1>4, <1>5, <1>6, Zenon DEF Recorded
  <1> QED
    BY <1>2, <1>3, <1>4, <1>5, <1>7, <1>8, <1>9, Zenon

(* What a fragment resolves to is a record of it, as it was protected.     *)
LEMMA ResolvedIs ==
    ASSUME FromFile, NEW n \in DOMAIN media.sais, NEW failing,
           NEW r \in Resolved(n, failing)
    PROVE  SameFragment(media.sais[n], r) /\ Recorded(r)
  <1> DEFINE sai == media.sais[n]
             ivSize == ValueOf(media.tracks[sai.track].ivSize, 0)
             runs(j) == IF <<n, j>> \in failing THEN {} ELSE RunOf(sai, sai.saiz[j])
             senc(j) == UNION {ReadRunAt(media.input, run, ivSize) : run \in runs(j)}
             good == {j \in DOMAIN sai.saiz : senc(j) # {}}
             first == IF good = {} THEN {} ELSE senc(Min(good))
  <1>1. Resolved(n, failing) = {Record(sai, s) : s \in first}
    BY DEF Resolved
  <1>2. PICK s \in first : r = Record(sai, s)
    BY <1>1, Zenon
  <1>3. r.track = sai.track /\ r.sequence = sai.sequence /\ r.senc = s
    BY <1>2 DEF Record
  <1>4. s = Protection[sai.sequence]
    <2>1. good # {}
      BY <1>2
    <2> DEFINE j == Min(good)
    <2>2. s \in senc(j)
      BY <1>2, <2>1
    <2>3. PICK run \in runs(j) : s \in ReadRunAt(media.input, run, ivSize)
      BY <2>2, Zenon
    <2>4. run \in RunOf(sai, sai.saiz[j])
      BY <2>3, Zenon
    <2>5. j \in DOMAIN sai.saiz
      <3>1. IsListed(sai.saiz)
        BY OpenedIs
      <3>2. good \subseteq DOMAIN sai.saiz
        OBVIOUS
      <3> HIDE DEF good
      <3>3. good \in SUBSET Nat
        BY <3>1, <3>2, ListIs
      <3>4. \E m \in good : \A k \in good : m <= k
        BY <2>1, <3>3, LeastNumber
      <3>5. Min(good) \in good
        BY <3>4 DEF Min
      <3> QED
        BY <3>2, <3>5
    <2> QED
      BY <2>3, <2>4, <2>5, OpenedIs
  <1> QED
    BY <1>3, <1>4, OpenedIs DEF SameFragment, Recorded

LEMMA NewRecordsAre ==
    ASSUME FromFile, NEW failing
    PROVE  LET new == NewRecords(failing) IN
           /\ IsListed(new)
           /\ \A k \in DOMAIN new : Recorded(new[k])
           /\ \A k \in DOMAIN new : \E n \in Unresolved : SameFragment(media.sais[n], new[k])
           /\ Single(new)
           /\ \A n \in Unresolved : Resolved(n, failing) # {} =>
                 \E k \in DOMAIN new : SameFragment(media.sais[n], new[k])
  <1> DEFINE sais == media.sais
             due == {n \in Unresolved : Resolved(n, failing) # {}}
             all == [n \in DOMAIN sais |-> n]
             order == Selected(all, due)
             new == NewRecords(failing)
  <1>1. IsListed(sais) /\ Single(sais)
    BY OpenedIs
  <1>2. Len(sais) \in Nat /\ DOMAIN sais = 1..Len(sais)
    BY <1>1, ListIs
  <1>3. all \in Seq(Nat) /\ Len(all) = Len(sais) /\ \A n \in DOMAIN sais : all[n] = n
    <2> DEFINE N == Len(sais)
    <2>1. N \in Nat /\ DOMAIN sais = 1..N
      BY <1>2
    <2>2. all \in [1..N -> Nat]
      BY <2>1
    <2>3. \A n \in DOMAIN sais : all[n] = n
      OBVIOUS
    <2> HIDE DEF all, N
    <2>4. all \in Seq(Nat) /\ Len(all) = N
      BY <2>1, <2>2
    <2> QED
      BY <2>3, <2>4 DEF N
  <1> HIDE DEF all, due
  <1>4. PICK h : Enumerates(order, all, due, h)
    BY <1>3, SelectedLists
  <1>5. order \in Seq(Nat)
    BY <1>3, SelectedTyped
  <1> HIDE DEF order
  <1>6. Len(order) \in Nat /\ DOMAIN order = 1..Len(order)
    BY <1>5
  <1>7. /\ \A k \in 1..Len(order) : order[k] \in DOMAIN sais /\ order[k] \in due
        /\ \A j, k \in 1..Len(order) : order[j] = order[k] => j = k
        /\ \A n \in due : n \in DOMAIN sais => \E k \in 1..Len(order) : order[k] = n
    <2>1. DOMAIN all = DOMAIN sais
      BY <1>2, <1>3
    <2>2. \A k \in 1..Len(order) : h[k] \in DOMAIN all \cap due /\ order[k] = all[h[k]]
      BY <1>4 DEF Enumerates
    <2>3. \A k \in 1..Len(order) : order[k] = h[k] /\ order[k] \in DOMAIN sais /\ order[k] \in due
      BY <1>3, <2>1, <2>2
    <2>4. \A j, k \in 1..Len(order) : j < k => h[j] < h[k]
      BY <1>4 DEF Enumerates
    <2>5. \A n \in due : n \in DOMAIN sais => \E k \in 1..Len(order) : h[k] = n
      BY <1>4, <2>1 DEF Enumerates
    <2>6. \A k \in 1..Len(order) : h[k] \in Nat
      BY <1>2, <2>3
    <2>7. ASSUME NEW j \in 1..Len(order), NEW k \in 1..Len(order), order[j] = order[k]
          PROVE  j = k
      <3>1. h[j] = h[k] /\ h[j] \in Nat /\ h[k] \in Nat
        BY <2>3, <2>6, <2>7
      <3>2. ~(h[j] < h[k]) /\ ~(h[k] < h[j])
        BY <3>1
      <3>3. ~(j < k) /\ ~(k < j)
        BY <2>4, <3>2
      <3> QED
        BY <1>6, <3>3
    <2> QED
      BY <2>3, <2>5, <2>7
  <1>8. new = [k \in 1..Len(order) |-> CHOOSE r \in Resolved(order[k], failing) : TRUE]
    BY <1>6, Zenon DEF NewRecords, order, all, due
  <1>9. \A k \in 1..Len(order) : new[k] \in Resolved(order[k], failing)
    <2>1. ASSUME NEW k \in 1..Len(order) PROVE new[k] \in Resolved(order[k], failing)
      <3> DEFINE R == Resolved(order[k], failing)
      <3>1. R # {}
        BY <1>7 DEF due
      <3>2. new[k] = CHOOSE r \in R : TRUE
        BY <1>8
      <3> HIDE DEF R, new
      <3>3. new[k] \in R
        BY <3>1, <3>2
      <3> QED
        BY <3>3 DEF R
    <2> QED
      BY <2>1
  <1>10. \A k \in 1..Len(order) : SameFragment(sais[order[k]], new[k]) /\ Recorded(new[k])
    BY <1>7, <1>9, ResolvedIs
  <1>11. DOMAIN new = 1..Len(order)
    BY <1>8
  <1>12. IsListed(new)
    <2> DEFINE R == Range(new)
               N == Len(order)
    <2>1. \A k \in 1..N : new[k] \in R
      BY <1>11 DEF Range
    <2> HIDE DEF R
    <2>2. new \in [1..N -> R]
      BY <1>8, <2>1
    <2> HIDE DEF new, N
    <2>3. new \in Seq(R)
      BY <1>6, <2>2 DEF N
    <2> QED
      BY <2>3 DEF R, IsListed
  <1> HIDE DEF new
  <1>13. Single(new)
    <2>1. ASSUME NEW i \in 1..Len(order), NEW j \in 1..Len(order), SameFragment(new[i], new[j])
          PROVE  i = j
      <3>1. SameFragment(sais[order[i]], sais[order[j]])
        BY <1>10, <2>1 DEF SameFragment
      <3>2. order[i] = order[j]
        BY <1>1, <1>7, <3>1 DEF Single
      <3> QED
        BY <1>7, <3>2
    <2> QED
      BY <1>11, <2>1 DEF Single
  <1>14. \A k \in DOMAIN new : \E n \in Unresolved : SameFragment(sais[n], new[k])
    BY <1>7, <1>10, <1>11 DEF due
  <1>15. ASSUME NEW n \in Unresolved, Resolved(n, failing) # {}
         PROVE  \E k \in DOMAIN new : SameFragment(sais[n], new[k])
    <2>1. n \in due /\ n \in DOMAIN sais
      BY <1>15 DEF due, Unresolved
    <2> QED
      BY <1>7, <1>10, <1>11, <2>1
  <1>16. \A k \in DOMAIN new : Recorded(new[k])
    BY <1>10, <1>11
  <1> QED
    BY <1>12, <1>13, <1>14, <1>15, <1>16 DEF new

(* A call adds records of fragments that had none, and leaves none behind  *)
(* that it could read.                                                     *)
LEMMA ResolveAdds ==
    ASSUME AuxInv, NEW failing, UNCHANGED media,
           sencRecords' = sencRecords \o NewRecords(failing)
    PROVE  /\ AuxInv'
           /\ \A n \in Unresolved' : Resolved(n, failing) = {}
  <1> DEFINE old == sencRecords
             new == NewRecords(failing)
             both == old \o new
             O == Len(old)
             N == Len(new)
  <1>1. /\ FromFile /\ IsListed(old) /\ Single(old)
        /\ \A k \in DOMAIN old : Recorded(old[k])
    BY DEF AuxInv
  <1>2. /\ IsListed(new) /\ Single(new)
        /\ \A k \in DOMAIN new : Recorded(new[k])
        /\ \A k \in DOMAIN new : \E n \in Unresolved : SameFragment(media.sais[n], new[k])
        /\ \A n \in Unresolved : Resolved(n, failing) # {} =>
              \E k \in DOMAIN new : SameFragment(media.sais[n], new[k])
    BY <1>1, NewRecordsAre
  <1> HIDE DEF new
  <1>3. /\ O \in Nat /\ DOMAIN old = 1..O /\ N \in Nat /\ DOMAIN new = 1..N
    BY <1>1, <1>2, ListIs
  <1>4. /\ IsListed(both) /\ Len(both) = O + N /\ DOMAIN both = 1..(O + N)
        /\ \A k \in 1..O : both[k] = old[k]
        /\ \A k \in 1..N : both[O + k] = new[k]
    <2> DEFINE S == Range(old) \cup Range(new)
    <2>1. old \in Seq(S) /\ new \in Seq(S)
      BY <1>1, <1>2 DEF IsListed
    <2> HIDE DEF S
    <2>2. both \in Seq(S) /\ Len(both) = O + N /\ DOMAIN both = 1..(O + N)
      BY <2>1
    <2>3. \A k \in 1..O : both[k] = old[k]
      BY <2>1
    <2>4. \A k \in 1..N : both[O + k] = new[k]
      BY <2>1
    <2>5. IsListed(both)
      BY <2>2, SeqIsListed
    <2> QED
      BY <2>2, <2>3, <2>4, <2>5
  <1>5. \A k \in 1..(O + N) : k \in 1..O \/ \E j \in 1..N : k = O + j
    <2>1. ASSUME NEW k \in 1..(O + N), k \notin 1..O PROVE k - O \in 1..N /\ k = O + (k - O)
      BY <1>3, <2>1
    <2> QED
      BY <2>1
  <1> HIDE DEF O, N, both
  <1>6. \A i \in 1..O, j \in 1..N : ~SameFragment(old[i], new[j])
    <2> SUFFICES ASSUME NEW i \in 1..O, NEW j \in 1..N, SameFragment(old[i], new[j]) PROVE FALSE
      OBVIOUS
    <2>1. PICK n \in Unresolved : SameFragment(media.sais[n], new[j])
      BY <1>2, <1>3
    <2>2. ~SameFragment(media.sais[n], old[i])
      BY <1>3 DEF Unresolved
    <2> QED
      BY <2>1, <2>2 DEF SameFragment
  <1>7. Single(both)
    <2>1. ASSUME NEW i \in 1..(O + N), NEW j \in 1..(O + N), SameFragment(both[i], both[j])
          PROVE  i = j
      <3>1. CASE i \in 1..O /\ j \in 1..O
        BY <1>1, <1>3, <1>4, <2>1, <3>1 DEF Single
      <3>2. ASSUME NEW m \in 1..N, i = O + m, NEW k \in 1..N, j = O + k PROVE i = j
        <4>1. both[O + m] = new[m] /\ both[O + k] = new[k]
          BY <1>4
        <4>2. SameFragment(new[m], new[k])
          BY <2>1, <3>2, <4>1
        <4>3. m = k
          BY <1>2, <1>3, <4>2 DEF Single
        <4> QED
          BY <3>2, <4>3
      <3>3. ASSUME NEW m \in 1..N, i = O + m, j \in 1..O PROVE FALSE
        BY <1>4, <1>6, <2>1, <3>3 DEF SameFragment
      <3>4. ASSUME NEW k \in 1..N, j = O + k, i \in 1..O PROVE FALSE
        BY <1>4, <1>6, <2>1, <3>4 DEF SameFragment
      <3> QED
        BY <1>5, <3>1, <3>2, <3>3, <3>4
    <2> QED
      BY <1>4, <2>1 DEF Single
  <1>8. \A k \in 1..(O + N) : Recorded(both[k])
    BY <1>1, <1>2, <1>3, <1>4, <1>5
  <1>9. sencRecords' = both
    BY DEF both, new
  <1>10. AuxInv'
    <2>1. FromFile'
      BY <1>1 DEF FromFile
    <2>2. IsListed(sencRecords)' /\ Single(sencRecords)'
      BY <1>4, <1>7, <1>9 DEF Single
    <2>3. (\A k \in DOMAIN sencRecords : Recorded(sencRecords[k]))'
      BY <1>4, <1>8, <1>9 DEF Recorded
    <2> QED
      BY <2>1, <2>2, <2>3 DEF AuxInv
  <1>11. ASSUME NEW n \in Unresolved', Resolved(n, failing) # {} PROVE FALSE
    <2>1. /\ n \in DOMAIN media.sais /\ Some(media.tracks[media.sais[n].track].ivSize)
          /\ \A k \in DOMAIN both : ~SameFragment(media.sais[n], both[k])
      BY <1>9 DEF Unresolved
    <2>2. \A k \in DOMAIN old : ~SameFragment(media.sais[n], old[k])
      <3>1. \A k \in 1..O : k \in 1..(O + N)
        BY <1>3
      <3> QED
        BY <1>3, <1>4, <2>1, <3>1
    <2>3. n \in Unresolved
      BY <2>1, <2>2 DEF Unresolved
    <2>4. PICK k \in 1..N : SameFragment(media.sais[n], new[k])
      BY <1>2, <1>3, <1>11, <2>3
    <2>5. O + k \in 1..(O + N)
      BY <1>3
    <2> QED
      BY <1>4, <2>1, <2>4, <2>5
  <1> QED
    BY <1>10, <1>11

LEMMA AuxInit == Init => AuxInv
  <1> SUFFICES ASSUME Init PROVE AuxInv
    OBVIOUS
  <1>1. FromFile /\ sencRecords = media.sencs
    BY Zenon DEF Init, FromFile
  <1> QED
    BY <1>1, OpenedIs DEF AuxInv

LEMMA AuxStays ==
    ASSUME AuxInv, UNCHANGED <<media, sencRecords>>
    PROVE  AuxInv'
  BY DEF AuxInv, FromFile, Single, Recorded

(* The calls but for resolve_sai_aux_info leave the records alone. *)
LEMMA OtherCalls ==
    ASSUME [Next]_vars
    PROVE  \/ UNCHANGED <<media, sencRecords>> /\ (returned' = returned \/ returned'.call # "resolve_sai_aux_info" \/ returned'.result # "ok")
           \/ ResolveSaiAuxInfo
  <1>1. CASE UNCHANGED vars
    BY <1>1 DEF vars
  <1>2. CASE NextPacket
    BY <1>2 DEF NextPacket, NextAtEnd, NextBeyondInput, NextUnreadable, NextDelivers, Advance,
                Returns, Packet
  <1>3. ASSUME NEW t, NEW pts, SeekTo(t, pts) \/ SeekRefused(t, pts)
        PROVE  UNCHANGED <<media, sencRecords>> /\ returned'.call # "resolve_sai_aux_info"
    BY <1>3 DEF SeekTo, SeekRefused, Returns
  <1>4. CASE ResolveAborted
    BY <1>4 DEF ResolveAborted, Returns
  <1> QED
    BY <1>1, <1>2, <1>3, <1>4 DEF Next

LEMMA AuxNext ==
    ASSUME AuxInv, [Next]_vars
    PROVE  AuxInv'
  <1>1. CASE ResolveSaiAuxInfo
    <2>1. PICK failing : sencRecords' = sencRecords \o NewRecords(failing) /\ UNCHANGED media
      BY <1>1 DEF ResolveSaiAuxInfo
    <2> QED
      BY <2>1, ResolveAdds
  <1>2. CASE UNCHANGED <<media, sencRecords>>
    BY <1>2, AuxStays
  <1> QED
    BY <1>1, <1>2, OtherCalls

(* What a fragment resolves to depends on the file alone.                  *)
LEMMA ResolvedStays ==
    ASSUME NEW n, UNCHANGED media
    PROVE  (Resolved(n, {}))' = Resolved(n, {})
  <1>1. media' = media
    OBVIOUS
  <1> QED
    BY <1>1, SMT DEF Resolved

(* However often and after whichever failed reads the auxiliary information*)
(* is asked for, no fragment is resolved twice and each as it was          *)
(* protected, and a call in which no read fails leaves none behind that    *)
(* could be resolved (Mp4Demuxer::resolve_sai_aux_info).                   *)
THEOREM AuxAlwaysResolved == Spec => []AuxResolved
  <1> DEFINE Complete ==
               (/\ returned.call = "resolve_sai_aux_info"
                /\ returned.result = "ok" /\ ~returned.failed) =>
                  \A n \in Unresolved : Resolved(n, {}) = {}
  <1>1. Init => AuxInv /\ Complete
    BY AuxInit DEF Init
  <1>2. AuxInv /\ Complete /\ [Next]_vars => AuxInv' /\ Complete'
    <2> SUFFICES ASSUME AuxInv, Complete, [Next]_vars PROVE AuxInv' /\ Complete'
      OBVIOUS
    <2>1. CASE ResolveSaiAuxInfo
      <3>1. PICK failing :
              /\ sencRecords' = sencRecords \o NewRecords(failing)
              /\ returned' = [call |-> "resolve_sai_aux_info", result |-> "ok",
                              added |-> Len(NewRecords(failing)), failed |-> failing # {}]
              /\ UNCHANGED media
        BY <2>1 DEF ResolveSaiAuxInfo
      <3>2. AuxInv' /\ \A n \in Unresolved' : Resolved(n, failing) = {}
        BY <3>1, ResolveAdds
      <3>3. ASSUME ~(returned').failed PROVE failing = {}
        BY <3>1, <3>3
      <3>4. ASSUME failing = {}, NEW n \in Unresolved' PROVE (Resolved(n, {}))' = {}
        BY <3>1, <3>2, <3>4, ResolvedStays
      <3> QED
        BY <3>2, <3>3, <3>4
    <2>2. CASE UNCHANGED <<media, sencRecords>> /\ (returned' = returned \/ (returned').call # "resolve_sai_aux_info" \/ (returned').result # "ok")
      <3>1. AuxInv'
        BY <2>2, AuxStays
      <3>2. Unresolved' = Unresolved
        BY <2>2 DEF Unresolved
      <3>3. ASSUME NEW n \in Unresolved', Resolved(n, {}) = {} PROVE (Resolved(n, {}))' = {}
        BY <2>2, <3>3, ResolvedStays
      <3> QED
        BY <2>2, <3>1, <3>2, <3>3
    <2> QED
      BY <2>1, <2>2, OtherCalls
  <1>3. AuxInv /\ Complete => AuxResolved
    BY DEF AuxInv, AuxResolved, Single, Recorded
  <1> QED
    BY <1>1, <1>2, <1>3, PTL DEF Spec

-----------------------------------------------------------------------------
(***************************************************************************)
(* The types of the session.  They rest on Within and AuxInv: the sample   *)
(* read is one of the list, a record names a track of the file, and only   *)
(* finitely many reads can fail in one call.                               *)
(***************************************************************************)
LEMMA ImageFinite ==
    ASSUME NEW S, IsFiniteSet(S), NEW f, DOMAIN f = S
    PROVE  IsFiniteSet({f[x] : x \in S})
  <1> DEFINE T == {f[x] : x \in S}
             g == [x \in S |-> f[x]]
  <1>1. g \in [S -> T] /\ \A y \in T : \E x \in S : g[x] = y
    OBVIOUS
  <1>2. g \in Surjection(S, T)
    BY <1>1 DEF Surjection
  <1> QED
    BY <1>2, FS_Surjection

LEMMA AttemptsFinite ==
    ASSUME FromFile
    PROVE  IsFiniteSet(Attempts)
  <1> DEFINE sai(n) == media.sais[n]
             runs(n) == {j \in DOMAIN sai(n).saiz : RunOf(sai(n), sai(n).saiz[j]) # {}}
             pairs(n) == {<<n, j>> : j \in runs(n)}
             f == [n \in Unresolved |-> pairs(n)]
  <1>1. Attempts = UNION {f[n] : n \in Unresolved}
    BY DEF Attempts
  <1>2. IsFiniteSet(Unresolved)
    <2>1. Unresolved \subseteq 1..Len(media.sais) /\ Len(media.sais) \in Nat
      BY OpenedIs, ListIs DEF Unresolved
    <2>2. IsFiniteSet(1..Len(media.sais))
      BY <2>1, FS_Interval
    <2> QED
      BY <2>1, <2>2, FS_Subset
  <1>3. ASSUME NEW n \in Unresolved PROVE IsFiniteSet(pairs(n))
    <2>1. n \in DOMAIN media.sais
      BY DEF Unresolved
    <2>2. IsListed(sai(n).saiz)
      BY <2>1, OpenedIs
    <2>3. DOMAIN sai(n).saiz = 1..Len(sai(n).saiz) /\ Len(sai(n).saiz) \in Nat
      BY <2>2, ListIs
    <2>4. IsFiniteSet(DOMAIN sai(n).saiz)
      BY <2>3, FS_Interval
    <2> DEFINE R == runs(n)
               g == [j \in R |-> <<n, j>>]
    <2>5. IsFiniteSet(R)
      BY <2>4, FS_Subset
    <2> HIDE DEF R
    <2>6. IsFiniteSet({g[j] : j \in R})
      BY <2>5, ImageFinite
    <2>7. {g[j] : j \in R} = pairs(n)
      BY DEF R
    <2> QED
      BY <2>6, <2>7
  <1> HIDE DEF pairs
  <1>4. IsFiniteSet({f[n] : n \in Unresolved})
    BY <1>2, ImageFinite
  <1>5. \A T \in {f[n] : n \in Unresolved} : IsFiniteSet(T)
    BY <1>3
  <1> QED
    BY <1>1, <1>4, <1>5, FS_UNION

(* Where the input stands behind a run is a place in it.                   *)
LEMMA RunEnds ==
    ASSUME FromFile, NEW n \in DOMAIN media.sais, NEW saiz,
           NEW run \in RunOf(media.sais[n], saiz)
    PROVE  run.at + SumOf(run.sizes, Itself) \in Nat
  <1> DEFINE sai == media.sais[n]
             total == SumOf(SizesOf(saiz), Itself)
  <1>1. PICK so \in SaioFor(sai, saiz) :
           /\ run = [at |-> sai.base + so.offsets[1], sizes |-> SizesOf(saiz)]
           /\ Len(so.offsets) = 1 /\ total \in 1..MaxAuxTotal
    BY DEF RunOf
  <1>2. PICK k \in DOMAIN sai.saio : so = sai.saio[k]
    BY <1>1 DEF SaioFor
  <1>3. sai.base + so.offsets[1] \in Nat
    <2>1. PICK f \in Files : Openable(f) /\ media = Opened(f)
      BY DEF FromFile
    <2>2. sai \in Range(media.sais)
      BY OpenedIs, ListIs
    <2> QED
      BY <1>1, <1>2, <2>1, <2>2, PlacesAssumption, Zenon
  <1>4. run.at = sai.base + so.offsets[1] /\ run.sizes = SizesOf(saiz)
    BY <1>1
  <1> HIDE DEF total, sai
  <1>5. total \in Nat
    BY <1>1, BoundsAssumption
  <1> QED
    BY <1>3, <1>4, <1>5 DEF total

LEMMA SampleIs ==
    ASSUME FromFile, Within, ~Exhausted
    PROVE  /\ NextSample.offset \in Nat /\ NextSample.size \in Nat /\ NextSample.sdi \in Nat
  <1>1. cursor + 1 \in DOMAIN media.samples
    BY SamplesArePackets DEF Within, Exhausted
  <1>2. NextSample \in Range(media.samples)
    BY <1>1, OpenedIs, ListIs DEF NextSample
  <1>3. PICK f \in Files : Openable(f) /\ media = Opened(f)
    BY DEF FromFile
  <1> QED
    BY <1>2, <1>3, PlacesAssumption, Zenon

Standing ==
    /\ position \in Nat
    /\ lastSdi \in SUBSET Nat /\ Cardinality(lastSdi) <= 1
    /\ faults \in 0..MaxFaults
    /\ returned.call \in Calls /\ returned.result \in Results

LEMMA StandingInit == Init => Standing
  <1> SUFFICES ASSUME Init PROVE Standing
    OBVIOUS
  <1>1. PICK f \in Files : Openable(f) /\ media = Opened(f)
    BY Zenon DEF Init
  <1>2. Len(media.input) \in Nat
    BY <1>1, PlacesAssumption, Zenon
  <1>3. Cardinality({}) = 0
    BY FS_EmptySet
  <1> QED
    BY <1>2, <1>3, BoundsAssumption DEF Init, Standing, Calls, Results

LEMMA StandingNext ==
    ASSUME FromFile, Within, Standing, [Next]_vars
    PROVE  Standing'
  <1> USE DEF Standing, Calls, Results
  <1>1. ASSUME Advance PROVE lastSdi' \in SUBSET Nat /\ Cardinality(lastSdi') <= 1
    <2>1. NextSample.sdi \in Nat /\ lastSdi' = {NextSample.sdi}
      BY <1>1, SampleIs DEF Advance
    <2>2. Cardinality({NextSample.sdi}) = 1
      BY FS_Singleton
    <2> QED
      BY <2>1, <2>2
  <1>2. ASSUME InputFails PROVE faults' \in 0..MaxFaults
    BY <1>2, BoundsAssumption DEF InputFails
  <1>3. CASE NextAtEnd
    BY <1>3 DEF NextAtEnd, Returns
  <1>4. CASE NextBeyondInput
    BY <1>1, <1>4 DEF NextBeyondInput, Returns
  <1>5. CASE NextUnreadable
    <2>1. NextSample.offset \in Nat
      BY <1>5, SampleIs DEF NextUnreadable, Advance
    <2> QED
      BY <1>1, <1>2, <1>5, <2>1 DEF NextUnreadable, Returns
  <1>6. CASE NextDelivers
    <2>1. NextSample.offset \in Nat /\ NextSample.size \in Nat
      BY <1>6, SampleIs DEF NextDelivers, Advance
    <2>2. (returned').call = "next_packet" /\ (returned').result = "packet"
      BY <1>6 DEF NextDelivers, Packet
    <2> QED
      BY <1>1, <1>6, <2>1, <2>2 DEF NextDelivers
  <1>7. ASSUME NEW t, NEW pts, SeekTo(t, pts) \/ SeekRefused(t, pts) PROVE Standing'
    <2>1. UNCHANGED <<position, lastSdi, faults>>
      BY <1>7 DEF SeekTo, SeekRefused
    <2>2. (returned').call = "seek_to" /\ (returned').result \in {"ok", "error"}
      BY <1>7 DEF SeekTo, SeekRefused, Returns
    <2> QED
      BY <2>1, <2>2
  <1>8. CASE ResolveSaiAuxInfo
    <2>1. PICK failing \in SUBSET Attempts :
             faults' = faults + Cardinality(failing) /\ faults' <= MaxFaults
      BY <1>8 DEF ResolveSaiAuxInfo
    <2>2. Cardinality(failing) \in Nat
      BY AttemptsFinite, FS_Subset, FS_CardinalityType
    <2>3. faults' \in 0..MaxFaults
      BY <2>1, <2>2, BoundsAssumption
    <2>4. (returned').call = "resolve_sai_aux_info" /\ (returned').result = "ok"
             /\ UNCHANGED <<position, lastSdi>>
      BY <1>8 DEF ResolveSaiAuxInfo
    <2> QED
      BY <2>3, <2>4
  <1>9. CASE ResolveAborted
    <2>1. position' \in Nat
      <3>1. ASSUME NEW a \in Attempts,
                   NEW run \in RunOf(media.sais[a[1]], media.sais[a[1]].saiz[a[2]])
            PROVE  run.at + SumOf(run.sizes, Itself) \in Nat
        <4>1. a[1] \in DOMAIN media.sais
          BY DEF Attempts, Unresolved
        <4> QED
          BY <4>1, RunEnds
      <3> QED
        BY <1>9, <3>1 DEF ResolveAborted
    <2> QED
      BY <1>2, <1>9, <2>1 DEF ResolveAborted, Returns
  <1>10. CASE UNCHANGED vars
    BY <1>10 DEF vars
  <1> QED
    BY <1>3, <1>4, <1>5, <1>6, <1>7, <1>8, <1>9, <1>10 DEF Next, NextPacket

(* Through every call the variables hold values of their types, the cursor *)
(* stays within the list, and a record names a track of the file.          *)
THEOREM SessionTyped == Spec => []SessionTypeOK
  <1>1. Init => Within /\ AuxInv /\ Standing
    BY WithinInit, AuxInit, StandingInit
  <1>2. Within /\ AuxInv /\ Standing /\ [Next]_vars => Within' /\ AuxInv' /\ Standing'
    BY WithinNext, AuxNext, StandingNext DEF AuxInv
  <1>3. Within /\ AuxInv /\ Standing => SessionTypeOK
    BY DEF Within, AuxInv, Standing, SessionTypeOK, Recorded
  <1> QED
    BY <1>1, <1>2, <1>3, PTL DEF Spec
=============================================================================
