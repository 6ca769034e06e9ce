# A TLA+ model of oxideav-mp4

This directory holds TLA+ specifications of parts of `oxideav-mp4`, a Rust
implementation of the MP4 / ISO base media file format: a demuxer, a
progressive muxer, a fragmented muxer, and common encryption (CENC) around
them. TLC checks the specifications on small instances; TLAPS proves the
theorems that do not depend on an instance. Source paths are relative to the
repository; `frag.rs:576` is line 576 of `src/frag.rs`.

## 1. The system

| Part | State it keeps | Operations | Hard behaviour | What makes it correct |
|---|---|---|---|---|
| **FragmentedMuxer** (`frag.rs`, `options.rs`, `styp.rs`, `emsg.rs`) | per track: three queues (samples, CENC auxiliary records, key-rotation overrides), decode time, last pts, random-access entries; sequence number, requests for the next segment, header and trailer flags, the output | `write_header`, `write_packet`, `write_protected_packet(_grouped)`, `flush_fragment`, `insert_empty_time`, four `set_next_segment_*`/styp requests, `write_trailer` | a call may flush; a flush may fail between any two of its steps; a keyframe is taken out of the queue and put back around a flush; boxes describe boxes that are written after them | samples in order, once, none lost; what the demuxer reads is what was written; indexes are exact; each request annotates one fragment |
| **Track fragment packing** (`FragmentDefaults`, `build_tfhd`, `build_trun`; `parse_tfhd`, `parse_trun`, `parse_traf`) | none | pack, unpack | which field becomes a default, which a per-sample row | unpacking inverts packing |
| **CENC boxes of a fragment** (`append_traf_*`; `resolve_sai_aux_info`) | none | pack, look up | three queues in parallel, an offset patched after layout | each sample gets back its own auxiliary record and group |
| **Open demuxer** (`demux.rs`) | sample list, cursor, position of the input, auxiliary records | `open_typed`, `next_packet`, `seek_to`, `resolve_sai_aux_info` | tables and fragments make one list; defaults fill in what runs leave out; index and list disagree; a read fails after the cursor has moved | every sample with its octets and times; one packet per call; a seek lands on a sync sample; each auxiliary run resolved once |
| **Mp4Muxer** (`muxer.rs`) | per track: sample table, open chunk, pts/dts history; the output | `write_header`, `write_packet`, `write_trailer` (direct or faststart) | chunk closing rules; `co64` promotion while the moov moves | tables describe the mdat |
| **Demuxer, progressive files** | sample list, edit-list timeline | table expansion, edit mapping | malformed tables; 32-bit counts | inverse of the muxer's tables |
| **CencFragmentPackager** (`cenc_packager.rs`) | per track: keys, active override, IV counter; a FragmentedMuxer | write, `rotate_key`, `reset_to_default_key` | a refused packet has used an IV; a refused rotation has changed the key store | every sample is encrypted as its file entry says |
| **Cipher plan and cipher** (`cenc.rs`, `cenc_cipher.rs`) | none | partition a sample into clear and encrypted runs | block remainders, pattern restarts | a partition of the sample |
| **Box codecs**: headers and walks (`boxes.rs`), movie, track, media, table, index, group, item, protection, hint and file-delivery boxes, sample entries, AAC headers | none | parse, build | lengths and counts are the file's word; version and width chosen by the values; order of boxes | what is built reads back; a reader stays in its box |
| **Metadata strings, probe, registration** | none | print, look up | none | |

Everything runs in one thread: a muxer or demuxer is owned by its caller and its
methods take `&mut self`. What interleaves is the caller's calls (packets of
several tracks, requests, gaps, explicit flushes; reads, seeks, resolutions)
with the flushes they trigger, and failures of the output or the input with all
of them. There are no timers, messages or background tasks. The components meet
in the file (muxer writes, demuxer reads) and, for the packager, in a direct
call.

`PROJECT.json` lists the components with their status and the hazards with
their lines.

## 2. The modules

| Module | Models | Source |
|---|---|---|
| `Lists` | what the code does to a `Vec`, as operators a prover can use: sums, `filter`, stable sort | |
| `TrackRun` | packing a run of samples into `tfhd` + `trun` and unpacking it | `frag.rs:1896-2116`, `demux.rs:10973-11065` |
| `TrackCenc` | `senc`/`saiz`/`saio` and `sgpd`/`sbgp` of a traf, and looking a sample up in them | `frag.rs:1719-1882`, `demux.rs:14235-14329` |
| `FragMuxer` | `FragmentedMuxer`: one action per public call | `frag.rs` |
| `FragReader` | the demuxer on the files `FragMuxer` writes: sample list, timeline, `seek_to` | `demux.rs` |
| `FragContract` | the properties of the two together | |
| `SegmentStream` | the abstract log a caller may rely on | |
| `ListProofs`, `TrackProofs`, `FragMuxerProofs`, `FragFileProofs`, `SegmentStreamProofs` | the lemmas on lists; the theorems on a packed run, on queues, types and the log, on the file | |
| `SampleTable` | the sample table of a progressive track: chunk bookkeeping, `stbl`, and its expansion; the edit list the muxer derives, the timeline the demuxer makes of any list | `muxer.rs:156`, `:472-513`, `:861-926`, `:1166-1354`; `demux.rs:2970-3067`, `:12148-12307` |
| `ProgMuxer` | `Mp4Muxer`: one action per public call and way to fail | `muxer.rs:218-683` |
| `ProgContract` | the box walk over the finished file, and the properties | `demux.rs:93-335` |
| `ProgMuxerProofs` | the theorems about chunks, types and the faststart loop | |
| `CencScheme`, `CencCipher` | the plan of a protected sample, and its execution with symbolic AES | `cenc.rs`, `cenc_cipher.rs` |
| `CencPackager` | `CencFragmentPackager`: one action per call, with the muxer's admission rules | `cenc_packager.rs` |
| `PackagerContract`, `PackagerProofs` | its properties and theorems | |
| `FragDemux` | the sample list `open_typed` makes of any file | `demux.rs:288-381`, `:10433-11065` |
| `Mp4Demuxer` | an open demuxer: one action per call and way to fail | `demux.rs:14235-14925` |
| `PacketSource` | the abstract source of packets | |
| `DemuxContract`, `Mp4DemuxerProofs` | the properties of an open demuxer and its theorems | |
| `Octets`, `BoxReader` | numbers, flags and records in octets; box headers and walks | `boxes.rs`, `demux.rs` |
| `MediaBoxes`, `TrackBoxes`, `StblBoxes`, `IndexBoxes`, `GroupBoxes`, `ItemBoxes`, `CencBoxes`, `FdBoxes` | the codecs of the boxes, one module per area | `demux.rs`, `muxer.rs`, `frag.rs`, `emsg.rs`, `sample_groups.rs`, `sample_group_entries.rs`, `cenc.rs`, `hint.rs`, `fd.rs` |
| `SampleEntries`, `EntryReader` | ADTS and AudioSpecificConfig; the sample entry made of a stream's parameters; the parameters got back | `aac.rs`, `sample_entries.rs`, `codec_id.rs`, `demux.rs` |
| `MovieBoxes` | `moov` and `moof` as they are put together and gathered | `demux.rs`, `muxer.rs`, `frag.rs` |
| `BoxBench`, `BoxContract` | the bench on which the codecs are tried, and what they promise | |
| `MCFrag`, `MCProg`, `MCPack`, `MCDemux`, `MCBox` + their `.cfg` files | small instances | |

Five families. `FragContract` extends `FragMuxer` and `FragReader`, which extend
`TrackCenc` and `TrackRun`. `ProgContract` extends `ProgMuxer`, `SampleTable` and
`TrackRun`, each the next. `CencPackager` extends
`CencCipher`, `CencScheme` and `TrackCenc`. `Mp4Demuxer` extends `FragDemux`
(on `SampleTable`) and `Octets`. `BoxBench` extends `MovieBoxes`
and through it the box modules; `BoxContract` instantiates `FragDemux` to list
the samples of a fragment that was read, and `TrackCenc` to look up their groups.
Where two modules show the same thing, the cheaper one has the interleavings and
the other the octets: a fragment is numbers in `TrackRun` and octets in
`MovieBoxes`.

### FragMuxer

State. `pending`, `pendingSenc`, `pendingSeig`, `nextBmdt`, `prevPts`,
`packetsTotal` and `tfraEntries` are the fields of `FragTrackState`, as
functions of the track; the other variables are the fields of
`FragmentedMuxer`. `file` is the output, as the sequence of top-level boxes,
each with its size in bytes; a byte position is the sum of the sizes before it,
so every offset the code computes (`trun.data_offset`, `saio`,
`sidx.referenced_size`, `tfra.moof_offset`) is a number the reader follows.
`published`, `asked`, `gaps`, and the field `given` of a sample are history:
nothing in the code depends on them.

A sample is `[id, key, duration, size, cts, given]`. Its bytes are its id. An
optional value is a set with at most one member.

Actions. One per public call, with everything the call does. A call that is
refused before it changes anything changes nothing here either and is left to
stuttering. `QueuePacket` covers the three packet calls, which differ in `senc`
and `seig`. It queues the packet, asks the cadence, and flushes if told to.

A flush works on a *batch*: the queues, less the keyframe an `EveryKeyframe`
cadence detaches. `FlushDone` is a flush that succeeds. `FlushRejected` is one
that fails while building (`build_moof`, `build_emsg_box`), before anything is
written; `FlushCut(b, n)` one that fails at a write after `n` boxes, or in
`build_ssix_box` after the sidx. After a failure the sequence number is spent,
the pssh requests are gone, the batch is still queued, and the detached keyframe
is gone. All three appear under every call that flushes. A write that fails in
the middle of a box is taken to have written none of it.

Abstractions: sizes stand for box contents no property looks at (moov, sample
entries, brands, NTP times, event payloads); the moov cannot be built when
`opts.initOk` is false; the output can fail when `opts.io` is true; decode times
and sizes are unbounded integers, the 8-bit fields (`saiz` sizes, tfra sample
numbers) and the 24-bit ssix ranges keep their limits as constants; the cadence
in seconds is a whole number of seconds, where the code divides floats. Four 32-bit
conversions are therefore not in the model: a sample's duration is cut by `as u32`
(`frag.rs:670`, `:677`) and its composition offset by `as i32` (`:688`), and a sidx clamps the
duration of a subsegment to 2^32 - 1 (`:1200`) and its size to 2^31 - 1 (`:2153`). So
`SidxFits` says nothing of a segment over 2 GiB, and `ReadsBack` nothing of a sample
that lasts 2^32 ticks.

Not in the model: ADTS stripping; the trex defaults (written as zeros in the
init segment, since no packet has been seen); the output position a failing
mehd patch leaves behind (named at `TrailerCut`).

### FragReader

A pure reading of `file`: `Samples` is the list `open_typed` builds and sorts by
offset; `SeekTo` is `seek_to` with its tfra, sidx and scan paths. Edit lists,
files of other producers, and the cursor are in `FragDemux` and `Mp4Demuxer`.

### ProgMuxer

State. `track[t]` is a `TrackState` with its fields under their names; the other
variables are the fields of `Mp4Muxer`. The output is a seek `position` and the
`writes` made so far, each an extent `[at, size, holds]`: `write_trailer` seeks
back, so a later write can cover an earlier one, and what a reader finds is what
no later write has touched (`Intact`). `log`, `calls`, `faults` and `mishaps` are
history.

Actions. `write_header`: `WriteHeader`, `HeaderFails`. `write_packet`:
`WritePacket`; `PayloadFails`, where the output refuses the payload after the
other track's chunk was closed; `OffsetRefused`, where the composition offset
does not fit after half of the packet was recorded. `write_trailer`, direct:
`TrailerDirect`, `TrailerRefused`, `PatchFails`, `MoovFails`; faststart:
`TrailerFaststart`, whose plan is the fix point of the loop (`FaststartPlan`),
and `FaststartFails`. A write that fails leaves some pieces and possibly one
byte of the next. A trailer that failed may be called again.

`mishaps` names the failures after which a file need not read back: `late` (a
packet after a trailer call), `torn` (a write that stopped within a piece),
`patch` (an error around the size patch), `refused` (a refused composition
offset), `rebuilt` (a faststart trailer that failed while writing), `gaveUp`.
Every one of these exclusions is needed: with any of `late`, `torn`, `patch`,
`refused`, `rebuilt` allowed, TLC finds `TablesReadBack` violated.

Abstractions: the moov has a fixed size but for its chunk offset boxes, whose
entries need 4 or 8 bytes; the tables are records, an absent `stss` an empty
one, an absent `ctts` a run of zeros; `stsz` returns the sizes in both its
forms. The 32-bit limits are the constants `U32Max` and `I32Max`, but a delta is an
unbounded integer, where two of the three ways to compute it end in `as u32`
(`muxer.rs:1401`, `:1418`; the third, `:1410`, saturates). Left out here: ADTS
stripping, sample entries, timestamps, sample groups and pssh (they
are in `SampleEntries` and `MovieBoxes`), and with them a moov that cannot be built.

### CencPackager

State. `tracks[s]` is the `TrackCrypto` of a stream, an option: scheme, tenc, key
store, override, IV counter. `pending`, `fragments` and the flush after
`FragmentPackets` samples are what the packager relies on of the muxer;
`MuxerAccepts` is the admission of `queue_packet_protected`. `handed` and `bound`
are history.

Actions. `WritePacket` covers `write_packet` and `write_packet_with_subsamples`:
the vector is taken and counted, the sample is encrypted, the muxer takes or
refuses it; the counter has moved on either way. `RotateKey` stores the key
before it validates the vector, as the code does. `ResetToDefaultKey`.

Cipher. `CencScheme` plans a sample as a sequence of clear and encrypted runs,
with the code's rules for whole blocks, remainders, patterns and maps;
`CencCipher` carries the plan out. AES is symbolic: a keystream octet is a mask
`<<key, high, counter, place>>` that cancels itself, a block decrypts only under
the key and chain value it was encrypted with. `BlockBytes` stands for 16 and
`CounterModulus` for 2^64.

### FragDemux and Mp4Demuxer

A file is a record of what the box parsers return; `FragDemux` makes the sample
list of it: `expand_samples`, then `parse_traf` of each fragment with
`base_data_offset`, several runs, defaults of `tfhd` and `trex`, a decode time
that goes on where no `tfdt` says it, empty fragments, and the edit list over
all. `Mp4Demuxer` has the state of the struct. `next_packet`: `NextAtEnd`,
`NextBeyondInput`, `NextUnreadable`, `NextDelivers`. `seek_to`: `SeekTo`,
`SeekRefused`. `resolve_sai_aux_info`: `ResolveSaiAuxInfo`, in which any of the
reads may fail and is passed over, and `ResolveAborted`, where a seek of the
input fails. `faults` bounds the failures.

Abstractions: the budget of samples per file is large enough (the octets of
`MovieBoxes` have it); a type of auxiliary information is one value for type
and parameter; description indexes of sample tables are 1; times do not reach
the limits of 64 bits.

### The box modules

A box is a sequence of octets. What can fail returns a set with at most one
result. Field lists (`...Layout`) give the fields of a box with their widths,
and one reader and one writer in `Octets` interpret them; guards, versions,
defaults and early returns are written out. Numbers end at `Wide` (10^9), which
stands for 2^32: four octets hold less, eight hold it. A read behind the end of
the octets gives `Missing`, which is in no type, so that `BoxTypeOK` tells a
reader that leaves its box; in the program that is a panic. The four-character
codes are numbers. The two walks over the boxes of a container, the strict one
that fails and the lenient one that ends, are `StrictWalk` and `BoxesUntil`.

`BoxBench` writes a record of one of 76 kinds, may cut the box or change one
octet of it, reads it, and may write what was read and read that again.

## 3. What the runs check

Every run uses the whole next-state relation of its family. Deadlock checking is
off but for `session`, since a caller may stop after any call; an open demuxer
answers for ever.

Fairness is stated once, in `Mp4Demuxer`: `WF_vars(NextPacket)`, the caller keeps
reading. That is the loop of the repository's README, which calls `next_packet`
until it returns `Eof`, with a caller that reads on after an error, as the comment
at `demux.rs:14660` provides for ("the next call moves on to the following
sample"). Nothing else is fair: seeks and resolutions need not happen, and the input
need not work. The muxers promise no liveness (a fragment may wait for a packet
that never comes).

**fragments** (two tracks). Its configurations are of two kinds; `Calls` names, for
each set of options, the packets written, how many of them, and how many requests and
gaps there may be. *Timing*: cadences per keyframe (with one gap) and per two packets,
up to four packets of both tracks, no request; video with and without composition
offsets, a packet without timestamps, audio with guessed durations, time scales 2
and 3. *Requests*: the cadence in seconds (two), sync samples only, with one gap, and
the cadence per keyframe with ssix, samples of both kinds, without a gap; three packets
of the first track, two requests of any kind.

`TypeOK`; `NoneDropped`: detach and replay lose nothing; `ReadsBack`: the
demuxer finds exactly the published samples with their duration, size, sync
flag and composition offset, and their bytes at the offset it computes, behind pssh
boxes in the moof too; `Contiguous`: no hole or overlap in a track's timeline, across
gaps; `KeyframeOpensFragment`; `CadenceBounds`: under each of the three cadences that
flush by themselves the first track's queue is short of the threshold between two calls,
whatever the other track queues; `TfraExact`; `Sealed`: the
mehd is the longest track, rounded up; `SeekNearestIndexed`: in a finished file
seeking the anchor track is exact for every target; `SidxFits` and `SsixPartitions`,
where annotation boxes move every offset; `RequestsInOrder`: each request annotates
at most one fragment, one with media, in order; `RequestsKept`: a queued pssh or
emsg stays queued until it is in the file. No flush fails in this run: what a failing
flush does to the requests is told below. `NumberMax`, which stands for the 255 of an
eight-bit sample number, is 2, so that a run of three is numbered past it. 112 403
states.

**queues** (one track). Also of two kinds. *Failures*: output errors at every write,
unserialisable requests, an init segment that cannot be built, auxiliary data over the
limit, ranges over the ssix limit; three packets, one request, one gap, two failed
flushes. *Protection*: per-sample and constant IVs; four packets with and without
subsample maps and rotation groups. 443 786 states.

`InOrder`: in the muxer's own account of a track, what it has published followed by what
is pending, no sample is out of order or twice, and `KeptUnlessDetached`: only an
`EveryKeyframe` cadence can lose one. Neither says so of the file: a flush cut off
behind its moof leaves the moof there and keeps the batch, which the next flush writes
again. `QueuesInStep`: the three queues stay parallel; `IsSegmentStream`: every call,
failing or not, is a step of `SegmentStream`. `AuxReads`: record, size and address of
the auxiliary information of each sample as `saiz`/`saio` give them are its own;
`GroupReads`: each sample is in the group it was written with. The last two are claims
about the file and made where the output takes every write.

**layouts** (two tracks, four configurations: direct and faststart, chunks by
sample count and at unit boundaries, compact and large mdat header, two with an
output that fails; four packets, where a failed call counts as one, and one
failure; six packets: reordered video with start delay, pre-roll and an offset
beyond the limit, audio without dts, packets without duration). `ProgTypeOK`;
`ChunkBooks`: only the track written last has an open chunk, and every chunk
has one offset; `TablesReadBack`: in a finished file the tables lead the
demuxer to every accepted packet, with its size, duration, composition offset
and sync flag, and to its bytes; `ChunksEndForAReason`: chunks are neither cut
short nor longer than the policy says; `TimelineKept`: presentation times
survive the edit list and what lies before zero is flagged; and
`FaststartConverges`: for two tracks the four rounds of the loop are enough, and it
never gives up (for three they are not: **threetracks** below). `U32Max` is 60, so that with two or three packets the
offsets of none, one or both tracks need 64 bits, the faststart mdat needs the
large header, and a direct mdat can be too long for the compact one. Four
packets give chunks of one and of two, chunks cut by the other track, and a
reordered pair with a sample before and after.

**packager** (every scheme, vectors of 8 and 16 octets and constant ones of two
lengths, a protected default and an unprotected one, a clear stream; four calls,
three packets of one and of five octets with four maps, rotations to two KIDs
with four vectors; blocks of two octets, a counter of four). `DecryptsBack`: a
player that has the fragments and the keys gets the packets back;
`CiphersWhatItShould`: exactly the octets that the standard's rule, stated octet
by octet without a plan, calls for are changed; `VectorsFresh`: no vector of a
stream is used twice and in counter mode no keystream block; `PackagerTypeOK`.
56 813 states. Freshness is promised per stream only: the packager counts for
each stream alone, and two streams under one key share vectors. Three packets at two
to a fragment allow one flush, so there is one finished fragment, possibly of mixed
groups, and one sample behind it, with a rotation, a reset or a refusal before, between
or after them. What happens over several fragments is in the theorems
(`PacketsDecryptBack`). Five octets are two blocks and a remainder.

**session** (29 files; three seek targets, two failures). Sample tables with
three fragments, of video with several sync samples and of PCM with an empty
fragment; without an edit list, with one that trims and one that delays; with a
tfra, a sidx in another time scale, nested sidx boxes, no index; with rows that
say all and rows that leave all to defaults; protected fragments whose auxiliary
information comes in seven ways; files that are cut. `SamplesAsWritten`: every
sample has the octets, track and decode time the writer gave it; `AuxResolved`:
however often asked and whichever reads fail, no fragment is resolved twice,
each as it was written, and a call without a failure leaves nothing to resolve;
`SeekLands`; `Drains`: who keeps reading reaches the end unless it keeps
seeking, unreadable samples or not; `IsPacketSource`: the demuxer implements
`PacketSource`; `SessionTypeOK`. 45 253 states. One failure could hide what a
second one undoes, hence two; no call counts calls, so the state space is closed
without a further bound. Premises:
`SamplesAsWritten` leaves out a track that an edit list shifts and whose
fragments have no tfdt (the running decode time starts at the shifted times and
is shifted again, `demux.rs:296-303`); `SeekLands` promises only a sync sample
of the track where the index has media times and the track is delayed.

**boxes** (76 kinds of boxes; records that have every optional part and none of
it; boxes cut at every place and every octet changed to 0, 1, 129 and 255).
`BoxTypeOK`: a reader stays in the box and makes a record of its type;
`ReadsAsBuilt`: an undamaged box reads as it was written, also when it is
written from what was read of a damaged one; `CutNoticed`: a cut box is not
taken for whole; `StreamReadsBack`: sample entries give back the stream's
parameters, protected or not; `MovieReadsBack`: a moov gives back its tracks
with tables, edits, times, groups and protection, and, for fragments, the
defaults and the patched duration. A fragment (`moof`) is compared through the
demuxer's sample list, auxiliary cells and groups, so that its offsets are
checked to the octet. 189 678 states. Premises: a description group with a
default index has no room for entry lengths (`Carried`, `sample_groups.rs:205`);
a box that ends in a text may lose the end of it unnoticed (`EndsInText`); a
protected subtitle entry is not unwrapped (`Unnamed`). Whole movies are not
damaged, the boxes in them are; a stream that is cut must be read within its
bounds but may lose a trailing box unnoticed.

The bounds of the fragmented runs are small because the cases are: a fragment of
one sample, of two (where `first_sample_flags` and the detach begin to matter)
and of three, two fragments in a row, a gap between fragments, a request made
before and after a flush, two failures in a row all occur within them.
Bounding the calls by configuration keeps apart what does not interact: the timeline
does not depend on annotations, which only add octets.
`MaxSequence` bounds failed flushes, which would otherwise repeat forever.

### Disagreements found

Each is a run that TLC finds violated, with the documentation it contradicts in
`PROJECT.json`.

* **ssix** / `SidxExact`. With `emit_ssix` the ssix stands between the sidx and
  the segment, and the sidx counts neither its size nor an offset for it: the
  reference starts at the ssix and ends that many bytes before the end of the
  mdat.
* **trafnumber** / `TrafNumberNames`. tfra entries always say traf 1, although
  a moof has one traf per contributing track.
* **anycadence** / `CadenceOfAnyTrack`. The comment on `should_flush` (`frag.rs:996-998`)
  says that `EveryNPackets` and `EveryKeyframe` fire on the event of any track. Both
  fire on the first track only (`:1025`, `:1038`), as `options.rs:70` and `:76` say:
  the queue of another track grows past the count.
* **threetracks** / `FaststartConverges`. The faststart loop has four rounds, of which
  the last may only confirm; its comment says two or fewer in practice (`muxer.rs:629`).
  Every round can push one more track over the 32-bit limit and so enlarge the moov:
  two tracks always settle in time (`layouts`), three may not, and the buffered
  payload is lost with the error (`muxer.rs:638`).
* **lostkeyframe** / `NoneDropped`. A flush that fails between detach and replay
  loses the keyframe that triggered it, while its call reports the failure of a
  flush, not of the packet.
* **defaultkey** / `DefaultKeyGiven`. `rotate_key` stores the key before it
  validates the vector. A refused rotation of the default KID leaves a new default
  key, which no accepted call has named, and which `reset_to_default_key`
  returns to.

Seen with TLC, not a run of its own:

* Through an index `seek_to` lands on the first sync sample of a fragment and not
  on the nearest one before the target, as `README.md:231` of the repository says.
* A media-monotonic edit list is said to keep decode times in order
  (`demux.rs:2945`); the segment is chosen by composition time, so with reordered
  samples on both sides of a dwell it does not.

Seen while reading: a failed flush consumes the queued pssh and emsg requests
(`frag.rs:1130`, `:1139`); tfra sample numbers saturate at 255 (`frag.rs:2185`)
although the comment above it (`frag.rs:2181`) says they "are always 1 in our
writer so no real clamping happens": `frag.rs:1319` numbers a sync sample by its
position in the run, and a cadence of packets or seconds puts one anywhere (the
`fragments` run with the saturation left out of the contract finds it); `write_packet` works after
`write_trailer`; a `write_trailer` repeated after a failed mehd patch appends a
second mfra. In the progressive muxer: a faststart `write_trailer` that is
repeated after an error succeeds with an empty mdat and offsets shifted twice; a
direct one repeated after a failed patch writes the moov over the payload; a
packet after the trailer is accepted; a track without any keyframe gets no
`stss`, which says that all its samples are sync samples (`muxer.rs:1181`;
`TablesReadBack` excepts such tracks). In the demuxer: `seek_to` looks up media
times in the index although its target is on the edited timeline
(`demux.rs:14716`; `tests/elst_timeline.rs:827` holds only without an index);
`resolve_sai_aux_info` passes over a read that fails (`demux.rs:14310`), where
its comment says that it aborts (`:14229`); the description index of the last
packet is set by a read that fails as well (`:14628`); `sidx_seek_target`
returns the first reference where its comment says `None` (`:14866`); two trafs
of one track in a moof make two records with one sequence number. In the boxes:
the sample count of a compact pattern is a number of repetitions in one comment
(`sample_groups.rs:271`) and of samples in the code (`demux.rs:2303`);
`build_csgp` chooses the width of an index by the greatest one, although the top
bit of that width marks a fragment-local index; one operation point of a `rash`
entry is written in the long form and read in the short one; the sides of a
picture are cut to 16 bits (`sample_entries.rs:182`).

## 4. What is proved

The theorems hold for any number of tracks and streams, any options, packets,
keys, requests, files and bounds that satisfy the named assumptions of the modules;
TLC evaluates every assumption on the instance of each run.

| Module | Theorem | States |
|---|---|---|
| `SegmentStreamProofs` | `StreamIsOrdered`, `StreamLogGrows` | the abstract logs are in order of acceptance without repetition, and only grow |
| `TrackProofs` | `RunReadsBack` | what `build_tfhd` and `build_trun` make of any queue of samples unpacks to it, field by field and byte by byte |
| `FragMuxerProofs` | `QueuesTyped`, `CencInStep` | `Spec => []QueueTypes`, `[]QueuesInStep` |
| | `MuxerIsStream` | `Spec => IsSegmentStream`: `FragMuxer` implements `SegmentStream` |
| | `SamplesInOrder` | `Spec => []InOrder`, of published and pending samples, from the refinement and `StreamIsOrdered` |
| | `NothingDropped` | `Spec => []KeptUnlessDetached` |
| | `FileTyped` | `Spec => []TypeOK` |
| `FragFileProofs` | `TimelinesContiguous`, `FileReadsBack`, `KeyframesOpen` | `Contiguous`, `ReadsBack`, `KeyframeOpensFragment`, while no write fails |
| | `FileAuxReads`, `FileGroupsRead` | `Spec => []AuxReads`, `[]GroupReads`, which name that condition themselves |
| | `SsixDivides`, `SidxReferencesSegment`, `IndexesExact`, `DurationSealed` | `SsixPartitions`, `SidxFits`, `TfraExact`, `Sealed`, while no write fails |
| | `RequestsStayInOrder` | `Spec => []RequestsInOrder`, whatever fails |
| | `QueueStaysShort`, `NothingDroppedUnbroken`, `RequestsDelivered` | `CadenceBounds`, `NoneDropped`, `RequestsKept`, as long as no flush fails |
| `PackagerProofs` | `VectorsAlwaysFresh`, `PackagerTyped`, `PacketsDecryptBack`, `OctetsCiphered` | `VectorsFresh`, `PackagerTypeOK`, `DecryptsBack`, `CiphersWhatItShould` |
| `ProgMuxerProofs` | `ChunkBooksAlways`, `ProgMuxerTyped` | `ChunkBooks`, `ProgTypeOK` |
| | `ChunksEndJustified` | `Spec => []ChunksEndForAReason` |
| | `FileGivesBack` | `Spec => []TablesReadBack` |
| | `FaststartSettles` | `FaststartConverges`, if the loop has two more rounds than there are tracks |
| `Mp4DemuxerProofs` | `CursorWithin`, `SessionTyped`, `AuxAlwaysResolved` | the cursor stays in the list; `SessionTypeOK`; `AuxResolved` |
| | `DemuxerIsPacketSource` | `Spec => IsPacketSource`: an open demuxer implements `PacketSource` |

Two hypotheses occur. `~opts.io` says that the output takes every write; building
may still fail, so failed flushes are in. Without it the claims about the file are
false, as the code leaves a moof behind and writes the same samples again.
`[][~Breaks]_vars` says that no step is a flush that failed: a failed flush drops
the detached keyframe and the requests (`lostkeyframe`). Many behaviours satisfy
either; every other theorem has failing calls in it.

### Assumptions

They say what a Rust type or a caller's contract says: a track exists; options
have a known cadence or chunk policy and time scales that are not negative
(`OptionsAssumption`, `ProgOptionsAssumption`); packets are typed
(`PacketsAssumption`, `ProgPacketsAssumption`, `ConfigsAssumption`); an `Option` has
at most one value (`OverridesAssumption`, `ProgTimesAssumption`, `VectorsAssumption`);
a box has a header and a count is a number (`RequestsAssumption`,
`GapsAssumption`, `SeigAssumption`, `NumberAssumption`, `ProgSizesAssumption`,
`BlockBytesAssumption`, `CounterModulusAssumption`). For the demuxer, where
recursive functions make the list that is opened: it is a list, of places in the
file (`ListAssumption`, `PlacesAssumption`). `AuxAlwaysResolved` assumes in addition
that the file was written as CENC says: one `senc` and one `saiz` of a fragment, and
octets that are the protection they stand for (`FragmentsAssumption`,
`ProtectionAssumption`); what it proves is that calls, failures and repetitions do
not spoil that.

### Lists

Induction over data is stated once, for sets instead of predicates
(`NumberInduction`, `SeqInduction` in `ListProofs`), since the library's theorems
take an operator as a parameter, which no prover here instantiates: the claim about
n becomes membership in the set of those n for which it holds. From them follow sums,
concatenations of lists of lists, selections and stable sorting, and from those that
what is unpacked is what was packed. `Lists` defines these operators as recursive
functions or by what is true of their result, so that they can be reasoned about.

### The fragmented muxer

`QueueInv`, types and queues in step, is inductive:
a queue in step stays in step under push because `SencAllowed` compares the
lengths first, under detach because a record is taken exactly when there is one
for the sample, and under clearing because all three are cleared. The detach is
where all else could go wrong, so `CadenceBatchIs` states it once: a cadence
flush works either on the whole queues or on the queues as they were before the
packet, with the packet held. `FlushOutcome` states what any flush, completed
or not, does to queues and published samples: it publishes the batch and leaves
what was held, or keeps the batch and drops what was held. With these two, each
call maps to one step of `SegmentStream` or to a stutter (`PacketIsAccept`,
`FlushingIsPublish`, `AbsStep`). Order and absence of repetition are then facts
about `SegmentStream`, whose inductive invariant is `StreamInOrder` with types.
`NothingDropped` needs its own invariant, `KeptInv`: published and pending ids
together are 1 to the number of packets.

All that is said of the file rests on `FileInv` (the types of all variables, and that
the header is behind what is queued) and on one lemma about each call: it leaves the
file alone, writes the header, breaks a flush off, or completes one, and then appends
the segment of `b`, a batch, and possibly a gap or the index. What is claimed of the
file is carried over this append.

* `TimelineInv`: the track fragments of a track follow each other and end at
  `nextBmdt`. A gap is one more of them.
* `RowsInv`: the rows of the file rise through it, each within the mdat of its own
  fragment, and are in each track the published samples with their auxiliary record,
  group and number in the run. The rows of a fragment come from `RunReadsBack`;
  `resolve_sai_aux_info` and the groups see only their own traf. The order is what
  makes the demuxer's sort by offset harmless.
* `SegsInv`: what stands behind each sidx and ssix is the segment it describes.
* `IndexInv`: the entries queued for the tfra are the sync rows of the file.
* `SealInv`: what was patched into the mehd is computed from the file as it stands in
  front of the index; nothing indexes before the trailer.
* `OrderInv`: a request annotates one fragment, those of an earlier fragment are
  older, and all that wait are younger still. An emsg or prft is in the file before the
  moof it annotates, so a write that fails may leave one loose, and a later moof would
  take it in: that it is the only moof to do so, and not an empty one, is the second
  part of the invariant. A loose request is the trace of a broken flush, whose samples
  are still queued, and whichever call writes the next moof takes everything queued.
  No hypothesis on the output is left.

### The packager

`VectorsAlwaysFresh` rests on `FreshInv`: the counter of a stream is above the
high half of every vector handed over (`Below`), so the next one is new
(`Apart`); and every keystream octet in a sample carries the high half of its
vector (`Marked`), because the block counter only ever moves the low half
(`CtrMarks`, `EncryptionMarks`). `WriteKeeps`, `RotateKeeps` and `ResetKeeps`
carry it over the calls, refused ones included; rotations never touch the
counter. Freshness alone is not inductive: without `Below` nothing rules out
that the next vector was used.

`PacketsDecryptBack` and `OctetsCiphered` start from the plan. `Tiles` says that the
steps of a plan follow each other and that the encrypted ones cover exactly a set of
octets; every branch of the planner (whole sample, subsample map, pattern, block
remainders) tiles the sample with the octets that the standard's rule calls for. Over
a plan that tiles, the counter mode gives each octet its mask once, and the mask
cancels itself; the block mode chains each block to the one before, whose ciphertext
the player has too. `Locked` then says of one sample that it was made by the cipher
under the key its store held for the KID in force, and that the group written for it
names that KID, `LockedOpens` that such a sample opens. `StoreInv` keeps every override
writable and its KID in the key store: that is what a refused rotation must not
break. `LockedInv` carries `Locked` through queue, flush and file.

### The progressive muxer

`ChunkBooksAlways` rests on `BooksInv`: every track is balanced (one offset per
chunk, counters that are numbers, offsets that are a sequence) and a track with
an open chunk was written last. Closing, joining and the rest of a packet's
records each keep a track balanced (`CloseChunkBalanced`, `JoinChunkBalanced`,
`RecordPlaceBalanced` ...); a packet closes the one chunk that can be open in
another track first (`SwitchToBalanced`), which is why at most one ever is; a
trailer closes all, and whatever size the faststart loop ends at, it only moves
offsets. The failing calls are covered: a refused payload or
composition offset closes the other track's chunk all the same. `ProgInv` gives every
field its type; that a duration is positive and no decode time falls is in it.

`ChunksEndJustified` rests on `ChunkInv`. The demuxer expands the runs of stsc to the
places of the samples, chunk by chunk (`Places`); the places of the closed chunks,
then those of the open one, are `Full`. Closing a chunk moves no place, whether it
extends the last run or opens one (`CloseRun`, `CloseShape`), and joining appends one
(`JoinShape`). So the k-th place is that of the k-th sample for good, and where it
begins a chunk the reason is there when the chunk before is closed: the policy ends it,
or the call was another track's, and then the next sample's call is a later one
(`Poised`, `OneMoreSample`). A trailer closes chunks for no such reason, and a packet
may still come after a trailer that failed: that file is damaged, which is why the
invariant is about undamaged ones. `PlacementIs` ends at the demuxer's own expansion.

`FileGivesBack` rests on `FileInv`, which says of an undamaged file, in each stage of the
muxer, as much as the next call needs. Throughout, the tables of a track are `Tabled`:
the runs of stts and ctts expand to one entry per accepted packet, with its delta and
composition offset, and stsz and the keyframes agree with the log. The chunk offsets are
`Laid`: following them with the sizes, chunk by chunk, leads to the extent that holds the
sample, and from an open chunk to where the next payload will be written.

* Before the header (`Untouched`, `Opening`) there are only the ftyp boxes of attempts
  that failed, one behind the other.
* A direct file (`Streamed`) is ftyps, an mdat header and pieces that overlap neither,
  so nothing that leads to a sample is covered. A trailer that fails leaves pieces that
  no reader takes for a moov; the size patch covers the old mdat header and no more.
* A faststart file (`Buffered`) is its ftyp; the offsets are places in the buffer. The
  rewrite shifts every one by the same distance, that at which the buffer is placed.
* In a finished file (`Closing`) one moov is intact, with the tables of the muxer, and
  every offset leads to an intact extent.

`OnlyMoov` then follows the demuxer's walk over the boxes to that moov, past the earlier
ftyps and through no payload, and `FileImplies` expands the tables as the demuxer does.
A box has a header, hence a size (`ProgSizesAssumption`): the walk gets past every ftyp.

`FaststartSettles`: a larger moov shifts the payload further, so the tracks that need
64-bit offsets only become more, and the moov grows only if one more does. A round
that does not settle has promoted a track; with n tracks the sizes repeat after
n + 2 rounds at the latest. The code has four, enough for two tracks. For three TLC
finds a movie whose payload is lost (`threetracks`): the theorem's hypothesis is needed.

### The demuxer

`DemuxerIsPacketSource` needs `Within` (the cursor is within the list), since
otherwise a read could pass more than one packet or none, and `LandingIsSync`:
whichever of tfra, sidx and scan led there, the landing of a seek is a sync
sample of the track asked for. `SourceStep` maps each action: a delivery, a read
that fails (a packet lost), the end, a seek, and all else. `AuxAlwaysResolved` rests
on `AuxInv`: no two records are of one fragment, and each says how its fragment was
protected. Within a call a fragment is tried once, and a later call finds it resolved;
a read that fails adds nothing. `Standing`, with `Within`, is the rest of
`SessionTypeOK`.

### Only model-checked

* Liveness, `Drains`, and everything under fairness: out of the provers' reach.
* `TimelineKept`: it holds for the packets of an orderly sender, decoded where the one
  before ended, which is a condition on the whole log; the edit list is made from the
  first of them and scaled by a division.
* `SeekNearestIndexed`: whether it holds depends on the composition offsets, since the
  index is by decode time and the target a composition time; it holds on the packets
  of `fragments`. `SeekLands` depends on what the index of the file says.
* `SamplesAsWritten`: about `Opened`, a recursive function of a constant, and not about
  the state.
* The properties of the boxes: each record and damage is an initial state, and the
  readers are recursive.

## 5. Not modelled

* The strings `open_typed` makes of what it has read (`build_stream_info`,
  `surface_meta_items`) and the getters derived from records (`gapless_timings`,
  `emsg_absolute_time`, `fill_params_from_samples`): no call depends on them.
* `demux/video_config.rs`, which reads picture sizes out of codec configuration
  bit by bit: one pure function per codec, with no state and no counterpart that
  writes.
* `lib.rs`: a few calls into another crate's registry.
* Numbers near 2^64 (the overflow guards of the header reader and of sums of
  times), the limits on counts by the size of the file beyond one run, and times
  of day.
* Two callers at once: the types do not allow it.

## 6. Plan

Done: the modules of section 2 and the proofs of section 4.

Left, in order of importance:

1. Theorems: `TimelineKept`, on top of `Tabled`; that the faststart file is the direct
   one with its payload moved, as a refinement.
2. `CencPackager` over the whole of `FragMuxer`, with its failing flushes and
   cadences.
3. Larger instances of `session`: edit lists with a dwell, two protected tracks.
4. `video_config.rs`, emsg times and gapless timing, as operators against
   references.
