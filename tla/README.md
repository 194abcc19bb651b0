# TLA+ models of NeoGNSS-Observatory

TLA+ modules, TLC configurations and TLAPS proofs for the parts of this
repository whose correctness depends on the order in which things happen:
threads, tasks, retries, crashes, restarts and continuations. The modules are
translated from the source; `PROJECT.json` maps every definition to the lines it
stands for.

    tlc -workers 2 -config CnexImport.cfg MCCnexImport      # one run
    tlapm MosaicArchiveProofs.tla                           # one proof module

Contents: 1 the system and its parts, 2 the modules, 3 the runs and their
bounds, 4 fairness, 5 proofs, 6 where the code and its documentation disagree,
7 what is not modelled, 8 the plan.

## 1. The system

The repository is a set of command-line tools around one data path:

    receiver ── FTP ──> mosaic-push ──> daily .xz archive ──> FTPS targets
       │                                      │
       │ TCP / serial                         v
       ├──> ngo-tcp-caster ──> subscribers   cnex-import (native reader)
       │                                      │
       └──> cnex live stream ────────────────>┴──> station/YYYY/MM/DD/rRR-catalog-partPP.parquet
                                                      │
    product servers ──> downloader ──> products ──────┴──> STEC, PPP, clock, SBAS, plots

Components talk through the file system far more than through calls: a tool
publishes a file by renaming it into place, and the next one trusts names, sizes
and small JSON records. Inside a tool there are worker threads with bounded
queues (mosaic-push, importer, live stream, native decoder, logger) or asyncio
tasks (caster).

| Component (source) | State it keeps | Operations | What is hard |
|---|---|---|---|
| mosaic-push, file life cycle (`mosaic_push.py`, `Mirror`) | `state.json`, one record per daily file; the `.part`, raw, `.xz.part`, `.xz` and `.sha512` files | scan, plan, download with resume, compress and verify, adopt, evict, finish an interrupted eviction, collect tombstones | a crash between a rename and the saved record; a receiver file that grows or is replaced meanwhile; eviction decided earlier and finished later |
| mosaic-push, upload (`upload()`) | receipts and the pending upload in the record; final and temporary names at the target | SIZE, STOR with REST, rename, checksum file | lost replies, partials of another revision, servers without REST, an archive changed while it is sent |
| mosaic-push, pipeline (`cycle()`, `consume()`) | three queues, pins, reservations, `job_finished`, `stop` | coordinator, three workers, shutdown | hand-over between stages, backpressure, the wake-up of the serial mode, shutdown with full or empty queues |
| TCP caster (`tcp_caster.py`) | source session, clients, per-client queue and byte count | read and broadcast, accept, send, disconnect, stop | tasks that interleave at every `await`; overflow while a drain is blocked; the source lost under a registration |
| CommonNEX reader (`cnex_engine.cpp`, `cnex_telemetry.hpp`, `receiver_time.hpp`) | receiver clock, arrival coordinate, withheld measurement group, telemetry windows, cadence estimates, navigation closure | one validated frame; checkpoint; restore and replay; declared end | stale time evidence, restarts, groups that never close, windows that overlap, continuation after any frame |
| CommonNEX import (`cnex_import.py`) | Parquet parts, `import-state.json` per day, staging directory, open writers | feed a chunk, partition it, evict a writer, publish closed days, save the state, mark the previous one, continue, rebuild | publication that is cut anywhere; a state written by one thread while another reads ahead; a failure with work queued behind it |
| CommonNEX live stream (`cnex_stream.py`) | bounded queue, acquisition thread, drain deadlines | acquire, consume, report a discontinuity, drain | end of the queue against end of the thread |
| Decode pool and build lanes (`cnex_decode.hpp`, `cnex_build.hpp`, `Reader::feed`) | worker threads, chunk counter, generation; a queue and a thread per lane; the futures of a call | run a batch, submit a job, bound the outstanding jobs, collect, fail, destroy | counter and batch pointer reused while workers leave the batch before; an exception while lanes still write |
| Products download (`download_*.py`) | partial file with metadata, manifest | plan, fetch with resume, quarantine, retry | metadata saved before the bytes; validators that change |
| STEC publication (`stec_incremental.py`) | output directory, backup, stage | stage, two renames | the directory does not exist between them |
| Broadcast decoding (`broadcast_*.cpp`) | per source and family what is being assembled; HAS masks and issues; the candidate cache; navigation entries per satellite | feed a frame, snapshot, prune, discontinuity, ask for a position | lost frames and changes of upload inside an assembly, truncated weeks across Sunday, a malformed message found out in the middle, a snapshot taken when a later frame arrives |
| SBAS (`sbas.cpp`, `sbas_*.py`) | issues of data, grid | feed a message | issues that outlive their data |
| Protocol stream decoder (`stream.cpp`) | bytes not yet consumed | feed, finish | chunk boundaries, false starts, four protocols in one stream |
| gnsslogger (`gnsslogger.cpp`, `logger_output.hpp`) | the interval being collected, its time, the last time recorded; queue, byte count and error of the output worker | read, record an interval, discard after a break, submit, write, stop | a break in the middle of an interval, a slow or failing disk, two threads that must both end |
| STEC, PPP, clock, plots, metadata | – | – | floating-point or rendering |

What makes the modelled ones correct, in a sentence each: the record never
vouches for bytes the disk does not hold, and nothing undelivered is deleted
(archive); the target shows whole revisions and an acknowledged one is really
there, as far as SIZE and the record can tell when the user harms the local archive
(upload); one owner per file, and every scan ends (pipeline); no gap
inside a connection and nothing across a reconnection (caster); a continued
import publishes exactly what an uninterrupted one would (reader); every frame is
decoded once and arrays are whole when they are returned (pool and lanes); a state on
disk names exactly the records it claims, whatever failed (import); what is put
together from several messages is of one upload, but for the part that three signals
do not label, and what is told of a time is
what was known and valid at that time (broadcast); the files are the whole
intervals of the stream, in order (logger).

`PROJECT.json` lists all components, and under `hazards` each place where such a
property could be lost, with the properties that guard it.

## 2. The modules

| Module | Models | Checked by |
|---|---|---|
| `MosaicArchive` | one daily file in the mirror, from inventory to tombstone | `MosaicArchive_safety`, `MosaicArchive_live` |
| `MosaicArchiveProofs` | proofs about it | TLAPS |
| `MosaicUpload` | one archive, one FTPS target, one FTP command per step | `MosaicUpload` |
| `MosaicDelivery` | abstract: what an upload promises to the mirror | refined by `MosaicUpload` |
| `MosaicPipeline` | one scan: coordinator, three workers, queues, shutdown | `MosaicPipeline` |
| `MosaicPushProofs` | proofs about upload and pipeline, the refinement among them | TLAPS |
| `TcpCaster` | source task, subscribers, shutdown | `TcpCaster` |
| `TcpCasterProofs` | proofs about it | TLAPS |
| `ReceiverTime` | `ReceiverTime`: time anchors, uptime pairing, restarts | through `CnexReader` |
| `TelemetryAssembler` | `TelemetryAssembler`: collection windows and rows | through `CnexReader` |
| `CnexReader` | `Reader::consume` and what surrounds it; composes the two above | `CnexReader`, `CnexReader_restart` |
| `CnexReaderProofs` | proofs about it | TLAPS |
| `CnexImport` | `cnex_import.run`: threads, parts, states, continuation | `CnexImport` |
| `CnexImportProofs` | proofs about it | TLAPS |
| `DecodePool` | `CnexDecodePool`: workers, batches, destruction | through `FeedThreads` |
| `FeedThreads` | `Reader::feed` with the pool and the build lanes | `FeedThreads` |
| `FeedThreadsProofs` | proofs about the pool and the lanes | TLAPS |
| `BroadcastTime` | completing a truncated week or a second of the week | through `Broadcast` |
| `BroadcastAssembly` | the rules by which parts join: timeout, contradiction, reset | through `Broadcast` |
| `LnavMessages`, `CnavMessages`, `GalileoMessages`, `HasMessages`, `PppB2bMessages`, `BeidouMessages` | one signal family each: what a message adds, completes and says | through `Broadcast` |
| `BroadcastDecoder` | `BroadcastMessageDecoder`: dispatch, candidate cache, snapshots, withdrawal | `Broadcast`, `Broadcast_sunday` |
| `BroadcastNavigation` | `BroadcastNavigation`: ephemerides for positions | `Broadcast` |
| `BroadcastFeed` | a lossy receiver feeding the two | `Broadcast`, `Broadcast_sunday` |
| `BroadcastFeedProofs` | proofs about the time arithmetic and the decoder | TLAPS |
| `StreamDecoder` | `StreamDecoder::feed` | through `GnssLogger` |
| `LoggerOutput` | `LoggerOutput`: the worker that writes the files | through `GnssLogger` |
| `GnssLogger` | the logger's main loop, composed with the two | `GnssLogger` |
| `GnssLoggerProofs` | proofs about the three | TLAPS |
| `MC...` | values for TLC | |

How they fit together. `MosaicPipeline` says that a file has one owner at a time;
on that, `MosaicArchive` follows a single file through its jobs. `MosaicArchive`
takes an upload to be one step, the one `MosaicDelivery` promises and
`MosaicUpload` is shown to implement. `CnexReader` shows that records do not
depend on where an import is continued; on that, `CnexImport` lets a chunk of
input stand for the records read out of it. `FeedThreads` shows that the threads
behind a reader deliver frames decoded once and arrays in stream order, which is
what `CnexReader`, with no threads, takes for granted.

### MosaicArchive

State: the receiver's file (`rcv`), five local files, the durable record
(`saved`), the copy the job works on (`mem`), and where the job is (`pc`). A
revision number stands for the (SIZE, MDTM) identity a receiver reports and the
bytes behind it; a local file is the set of revisions that contributed bytes, so
"a mixture" is a set of two. Each disk effect and each `save_record` is an action
of its own: `Crash` can fall between any two. `Boot` is `Mirror.__init__` with
its recovery, `Scan`/`Discover`/`Assign` the inventory and plan, then the
download, compress, push and eviction steps in the order of the code. Other
files on the same disk appear as an admission that may trigger an eviction of
this file. The hypothetical operator actions (`UserDelete`, `UserPlace`,
retargeting) are switched by `Faults` and bounded.

### MosaicUpload and MosaicDelivery

One action per FTP command of `upload()`; `Rename(lost)` and `SendSum(lost)` are
the command whose reply is lost after it took effect. The user may overwrite or
remove the local archive at any moment (`Tamper`). `plan()` lets a newer file of the
receiver wait for the delivery of the archive only while that is intact
(`mosaic_push.py:1227-1229`), so `Revise` needs the receipt or a harmed archive; a harmed
archive may also be compressed again from the same source, and then has the identity
it had (`Repair`). The connection may break and the daemon crash between any two steps.

A harmed archive makes the record's claims doubtful in two ways, which section 6
describes. The history `doubt` marks the step at which one becomes so: of the
temporary file when an attempt ends between the saved claim and the STOR that
would have truncated it (`Unfounded`), or when the archive whose foreign bytes lie there
is rebuilt; of the final file when such a temporary is renamed. A STOR from zero
takes the mark away. `placed` is the revision whose publication was last put on record.

`MosaicDelivery` has no partial, retry or crash: the wanted, shown, checksummed
and acknowledged revision, the final file's length, whether the archive was ever harmed,
and the doubt. What is shown may be checksummed and acknowledged if it is the
wanted revision, is in doubt, or, before the first acknowledgement, has the
wanted one's length (`Passes`): this is all the mirror has to go by. The
refinement mapping takes `shown` and `length` from the final name, `sum` from the
sidecar's name and `acked` from the receipt.

### MosaicPipeline

A scan's coordinator and its three workers, each with its place in the code.
A poll with a timeout is a step that either completes or gives up because `stop`
is set. What a stage does to its file is an outcome: it succeeds, fails, or is
refused space.

### TcpCaster

asyncio runs one task from one `await` to the next, and such a stretch is an
action. The sender's stretches are the interesting ones: it clears its event,
takes the queue's head, writes it, waits in `drain()`, and rechecks `closed`.
Chunks are (session, number) with two lengths, so that a queue can be full for
one chunk and not for another.

### CnexReader, TelemetryAssembler, ReceiverTime

`Consume(r, f)` is `Reader::consume` and `Deliver` for one validated frame `f`: status,
navigation, telemetry assembly, pairing with uptime, estimates, group, in the
order of the code. Two readers run on the same input: `whole` never stops, and
`resumed` may between any two frames go through `Checkpoint` and `Restore`
(`Continue`), after which it reads the frames of the withheld group again, one
by one (`ReadAgain`); `upcoming` is the frame it reads next. While it is behind,
nothing new is fed and no other checkpoint taken: the bytes it reads again are
already there. A telemetry row keeps the numbers
of the frames it was made from, an epoch those of its measurement blocks; this
lets the properties speak of *which* record went where. These modules use
records and pure operators instead of variables, because the program's state is
one object that is copied and restored.

### DecodePool and FeedThreads

Every statement of `CnexDecodePool` that another thread can see is a step: the
shared counter is read and advanced in one, the batch pointer, the generation
and the count of finished workers are what they are in the code, and a waiting
thread is asleep until it is notified. `Spawn` may fail for any worker, which
leaves the pool to its destructor. `FeedThreads` runs `feed()` over it: a flush
is a batch, its rows become one job per lane, at most two jobs of a lane are
outstanding, and everything is collected before the arrays are returned. A
job's rows are the number of its flush, so an array is a sequence of numbers.

### The broadcast modules

A frame is a record of what its bits say; `up`, the upload it belongs to, is
known to the properties but not to the decoder, which sees only what the family
puts into its messages (an issue, a reference time, or nothing). Each family's
module says which parts make a set, when a part starts the set again, and when
the set is complete; `BroadcastAssembly` holds what they share. Field values
become four: the reference time, the issue, the health and the rest. Tables of
bit positions and scale factors are data and appear nowhere.

`BroadcastDecoder` keeps the candidates as a sequence in order of first
reception, which is the code's `order`; a snapshot for each multiple of the
interval is made when the first frame at or after it arrives, as in `advance()`.
Repeated reports are one candidate: `Content` leaves out when a row was sent and
received, and several broadcasts repeat an ephemeris unchanged. `log` lists what
was remembered and withdrawn, so that the properties can say
what a snapshot should hold without looking at the cache. `BroadcastNavigation`
keeps the last few reports per satellite and family (`Retained` stands for 8)
and answers for a time. `BroadcastFeed` delivers, loses or, where the broadcast
allows it, breaks.

### StreamDecoder, LoggerOutput, GnssLogger

`Decoded(bytes)` follows the loop of `StreamDecoder::feed` on the bytes themselves: a
sync, a length, a wait for more, a checksum. The checksum is a set of byte
sequences that somebody sealed (`Sealed`); `MaxLine` is the bound of a sentence, 4096
in the code. The logger reads a chunk, handles its
frames one by one, and passes whole intervals to the output; `LoggerOutput` has
the queue with its byte limit, the worker's file, write and error, and the three
ways of stopping (finish, destructor, error). `Timeout`, `Disconnect` and `Reconnect`
are the receiver's silence, absence and return.

### CnexImport

State: on disk the parts, the states and leftover temporary state files; in
the process the main thread, the queue of at most two chunks, the writer
thread's place in its job, one running batch per catalog, the open writers with
their LRU order and the parts closed by eviction. `Write`/`Evict` are
`get_writer` with the submission to the catalog's thread, `Close`, `Rename`,
`SaveBegin`, `Save`, `MarkBegin`, `Mark` are `publish` in its order (parts one by
one, then the new state, then the consumed one). `Poison` is an exception in the
writer thread: jobs queued behind it end without effect. A run is started as
new, as a rebuild, or from any state that is not consumed; `Crash` leaves what is
on disk. A part is the sequence of chunks whose records it holds. Of the order in
which `publish` renames the parts the model keeps what matters: those of a key in
the order of their numbers, parts closed by eviction before the others, the empty
ones of a rebuild last; which key comes first is left open.

## 3. The runs

Each property has a mutant in `PROJECT.json`: a plausible bug of a mapped
definition (defined next to it, marked `Mutant:`) under which TLC finds the
property violated.

| Run | Question | Bounds |
|---|---|---|
| `MosaicArchive_safety` | Does the record tell the truth; is only delivered data evicted, and never fetched again; is a verified raw copy kept? | 2 revisions of equal size, 2 targets, 1 crash, 1 failure, 1 incident |
| `MosaicArchive_live` | Does a closed file end up archived and delivered, or evicted after that? | 2 revisions, the second longer; unlink errors and foreign files allowed |
| `MosaicUpload` | Does `upload()` implement `MosaicDelivery`; is only a whole archive published, none sent twice, and every intact one delivered in the end? | 3 revisions, the first longer than the equal others, 2 harms to the archive, 2 failures, 1 crash, 2 days, servers with and without REST |
| `MosaicPipeline` | Files in flight pinned, one at a time under the limit, bounded backlog, everything handled, scan ends? | 3 files, 1 slot, with and without a limit |
| `TcpCaster` | No gap, one session, no stranded chunk, silence after disconnect, shutdown? | 2 peers, 2 sessions of 3 chunks, a buffer of 3 bytes |
| `CnexReader` | Continued = uninterrupted? Whole epochs, fresh time, each telemetry report told once? | seven families of streams, 4 to 6 frames |
| `CnexImport` | Do states hold what they name; are observations published once; writers never closed under a batch; does each run return? | 3 invocations, 4 chunks, 3 days, 2 catalogs, 2 writers, 1 crash, 1 failure |
| `FeedThreads` | Each frame decoded once, arrays whole, every call returns? | 2 workers, 2 chunks, 2 batches, 3 flushes, 1 exception |
| `Broadcast` | Sets of one upload, dates near, assemblies never stuck, HAS references right, snapshots exact, positions causal, health heard? | 25 broadcasts, up to 3 frames lost, 1 break |
| `GnssLogger` | Chunks invisible, files = whole intervals of the stream, a good end is a whole one, both threads end? | 13 recordings, chunks of at most 1, 7 or 60 bytes, 1 break, 1 disk error |
| `CnexReader_restart`, `Broadcast_sunday` | a documented promise the code does not keep, see 6 | minimal |

Why the bounds are enough for what is asked:

- Two revisions are what it takes to mix, supersede or confuse them; the record
  holds at most an expected, a partial, a raw and an archived one, and each pair
  of them is compared only for equality. Equal sizes defeat every SIZE check,
  a longer or shorter second revision exercises each of them.
- One crash per history visits every crash point; what follows a crash is a
  state that a second crash may meet again. The upload run has two failures
  besides, each of which ends an attempt as a crash does; two harms let the
  archive be rebuilt and harmed again, and the third revision supersede one that
  superseded another.
- Three files and one slot fill the queue, block the downloader and leave one
  file outside. Two peers make one evicted while the other goes on.
- The reader's times are small numbers with a week of 12, a day of 5, a timeout
  that frame 14 exceeds, a cadence estimated from 2 instead of 5 intervals and a
  resource limit that is looked at after every update. 14 has the time of week
  of 2, which is the case the closure must not confuse. Each family is an alphabet
  in which the kinds of frames that interact meet; the families are disjoint
  because, e.g., UBX and SBF never occur in one stream.
- Two workers, two chunks and two batches let a worker be still in a batch when
  the next one begins, find the counter beyond the end, and miss a notification.
  Three flushes make a lane wait for the oldest of two outstanding jobs. The
  run has one lane (the code's two share nothing but `feed()`, which serves them
  in turn) and one call.
- The broadcasts are real schedules: periods, time-outs, weeks and moduli are
  those of the code, nothing is scaled down. Each holds a change of upload, most
  cross the change of the GPS week (one also of the 10-bit week), and the three
  losses may fall on any of their frames; `Capacity` 8 and `Retained` 2 stand for
  131072 candidates and 8 reports. A broadcast that reaches the capacity makes the
  decoder fail, as in the code.
- The recordings of the logger have a payload of one byte, a day of 10 and a week
  of 70 units, intervals of at most 3 frames and a queue limit of 5 frames; all
  of them are reached. They contain noise, a damaged frame with a frame
  begun inside it, frames of the other protocols, an existing file, repeated and
  invalid times, and a truncated end. Every read returns at most 1, 7 or 60 bytes,
  so that a cut falls at every byte.
- The second chunk of the import holds both catalogs on both sides of midnight,
  four keys for two writers: a writer whose last batch is still being compressed
  comes up for eviction. The last chunk brings a late event for a day that was published
  before. Three invocations suffice for: fail, continue, and rebuild or continue
  what that left.

`CHECK_DEADLOCK FALSE` is given where the system really may stop: an upload
with everything delivered, an import or reader that ended or refused its input,
a pool that was destroyed, a broadcast that is over, a logger that has ended.

The variables of `MosaicPipeline`, `TcpCaster` and `DecodePool` have
their types in `TypeOK`, those of `MosaicUpload` in `UploadTypeOK`; it is an invariant of the runs' behaviours, kept as
the starting point of proofs and not part of a run.

### What the properties say

- *Archive*: `RecordTruthful`, a record names only bytes the disk holds;
  `VerifiedRawKept`, a verified download is discarded only behind its committed
  archive or once the source has moved on; `EvictionDelivered`, `NoRefetch`;
  liveness `Settles`. `Stuck` names two states
  that only the operator ends: a foreign archive whose adoption is asked for,
  and the boot refusal described in 6.
- *Upload*: `PublishedWhole`, what is shown is a whole revision unless its claim was
  in doubt; `SentOnce`, a publication on record is not sent again; `Delivers`, of
  every archive that is not left harmed; the refinement `ImplementsDelivery`.
- *Pipeline*: `AdmissionSafe` (a file in flight is pinned against eviction, one
  job at a time under a storage limit, a bounded backlog of raw copies), `Drained`, `Ends`.
- *Caster*: `NoGap`, `OneSession`, `NoLostWakeup`,
  `SilentAfterClose`, `ShutsDown`.
- *Reader*: `ResumedSame` compares the two readers, outputs and state, up to what
  no later frame can observe; `EpochsWhole`, `FreshAnchor`, `TelemetryOnce`.
- *Threads*: `DecodedOnce` (no frame twice, all of them when `run()` returns, no
  worker in a batch that was given back), `ReturnedWhole`, `FeedReturns`.
- *Broadcast*: `AssembledWhole`, what is put together is of one upload, except the part
  that nothing in the signal ties to one (I/NAV word 5, CNAV type 11, the orbit of B-CNAV3),
  which must be one that was received within the age limit and since the last break, and
  that has the reference time of the rest where it has one;
  `EphemerisTimes`; `TwoCyclesSuffice`, no assembly is stuck on what can no longer
  complete; `CorrectionsRefer`, HAS corrections refer to the mask and orbits their
  source last announced, within their lifetimes, and orbits given under another mask are
  used only when that mask had lapsed; `SnapshotExact`, a snapshot is what `log` says of its
  time, with nothing too many or missing; `PastAnswers`, a frame does not change
  the answer for a time before it; `HealthVeto`.
- *Logger*: `ChunksInvisible` compares the decoder with one that gets all bytes at
  once; `FilesAreStream` compares files, the worker's hands and the queue with the
  intervals of the stream; `EndsWhole`; `LoggerEnds`.
- *Import*: `StateHolds`, the parts a state names hold each record up to its
  resume point once and in order; `ObservationsOnce`, which a reader of the day
  sees; `NeverClosedBusy`; `Ends`.

## 4. Fairness

- `MosaicArchive`: weak fairness of the daemon's own steps (systemd restarts it,
  stages keep running), strong fairness of a complete inventory and of starting
  a download: both are retried every scan, and a backoff expires within an hour.
  No failure, crash or user action is ever forced, and they are bounded.
- `MosaicUpload`: weak fairness of the upload's steps, since every scan queues an
  undelivered archive again.
- `MosaicPipeline`: weak fairness per thread. Socket timeouts and the transfer
  watchdog end a transfer; xz is bounded by its output.
- `TcpCaster`: weak fairness of ready tasks, because the event loop runs every
  ready task. A peer never has to read, and `drain()` ends by itself only when
  its transport was aborted.
- `CnexImport`: weak fairness of main thread, writer thread, publication and
  catalog threads. Nobody is obliged to start an import or tidy up.
- `FeedThreads`: weak fairness of each thread. A notified thread wakes; nothing
  wakes spuriously by fairness, and a job ends by itself or with an exception.
- `GnssLogger`: weak fairness of the main thread and of the worker. The socket has a
  receive timeout, so a read returns whatever the receiver does; that a silent or
  absent receiver comes back is not assumed, and `LoggerEnds` speaks of files and
  of errors only.
- `CnexReader` and `BroadcastFeed` have no liveness: they are functions of their input.

## 5. Proofs

`MosaicArchiveProofs` (all constants, all `Faults`, no bound on revisions,
targets, crashes; assumption: `ConstantsAssumption` of `MosaicArchive`):

- `TypeCorrect`: `Spec => []TypeOK`.
- `Invariant`: `Spec => []IInv`, the inductive invariant.
- `RecordsAreTruthful`: `Spec => []RecordTruthful`.
- `RawIsKept`: `Spec => VerifiedRawKept`.
- `EvictsDelivered`: `"unlink" \notin Faults /\ "retarget" \notin Faults =>
  (Spec => EvictionDelivered)`.
- `NotRefetched`: `"unlink" \notin Faults /\ "place" \notin Faults =>
  (Spec => NoRefetch)`.

`RecordTruthful` is not inductive: that an archive is a faithful copy of what the
record says rests on the raw copy it was compressed from being one, which rests
on the verified part containing bytes of one revision only, which rests on the
identity saved for a partial being at most the revision served. `IInv` adds these:
`PartInv` (bytes of a part come from the revision saved for it or a later one),
`FileInv` (a raw file is a copy of its revision), `RecordInv`, `MemInv` (the job's
copy of the record agrees with the saved one except in fields the current stage
owns) and `StepInv` (what each step of a job has established). The proof has a
lemma for type preservation and one for the rest, with a step per action.

The hypotheses of the last two name the faults of section 6 with which the code does
break the property; crashes and every other fault stay allowed. An eviction is
justified when its intent is saved but happens later, perhaps after a
restart: `IntentInv` says that an intent is in the saved record exactly while an
eviction runs or a crash interrupted one, and that no job holds a copy of the record with
an intent it would write back; `ReceiptInv`, that a receipt stands for what the target
holds and an intent for an archive that every enabled target holds. For `NoRefetch`,
`GoneInv` says that until two complete inventories have missed the revision, a tombstone
or the saved intent speaks for it, with a counter no higher than the inventories
that missed it. It rests on `NewestInv` (the record is never newer than the
receiver), `BuriedInv` (a tombstone's file has nothing left on disk, so that the next
inventory counts it), and `WorkInv` (a job never works on a file that its own record
has buried).

`MosaicPushProofs`, the upload (any number of revisions of any sizes, harms, failures,
crashes and days, any stranger's file at the target; assumption: `UploadAssumption`,
no theorem has a hypothesis):

- `ShownIsWhole`: `UploadSpec => []PublishedWhole`.
- `UnharmedIsWhole`: `UploadSpec => [](damages = 0 => Untorn)`: without a harm to
  the local archive there is no doubt, and what is shown is whole.
- `NotSentAgain`: `UploadSpec => SentOnce`.
- `UploadDelivers`: `UploadSpec => ImplementsDelivery`: initial states map to initial
  states and each step to a step of `MosaicDelivery` or to none.

That what is renamed is whole rests on the temporary file being of the revision that
is pending, unless it is in doubt (`PartialInv`: what is obsolete was truncated or is
not resumed), on the pending entry being of no later archive than the recorded
one, and of that one while something is sent (`PendingInv`), and on what each command
has established for the next (`StepInv`); foreign bytes in a partial mean that the local
archive is not the recorded one (`LocalInv` says what it can be), so that the identity
check before the rename refuses it. `FinalInv` is the property made inductive. Without a
harm there is never an obsolete partial: only a delivered archive is superseded, and
its temporary was renamed away (`UnharmedInv`). That nothing is sent again
(`PlacedInv`) needs the file on record to keep its size and one of the two reasons not to
replace it, its receipt or the pending entry's mark, through every step in which
one gives way to the other. The refinement adds `SentInv`: what passes for sent is what
lies at the target, is in doubt, or precedes the first receipt.

`MosaicPushProofs`, the pipeline (any number of files, any size of the compression queue, any
initial stages; assumption: `ConstantsAssumption` of `MosaicPipeline`):
`AdmissionHolds`, `Spec => []AdmissionSafe`. That a pin never goes while its file is
still somewhere in the pipeline needs a file to be at one place only (`OnePlace`: no
queue holds it twice, no two queues or workers share it), or the stage that ends its
job would unpin a second copy; that `PutJob` adds a new file needs everything in
flight to lie below `next` (`Started`). One file at a time under a limit rests on what
the event says: cleared before the file is queued, and set only after it has left
(`Serial`). The backlog is the compression queue and the compressor's own file,
since a raw copy is nowhere else after the downloader (`Backlog`).
`EverythingDone`, `Spec => []Drained`, adds that every file the coordinator came to is
in flight or done, with no pin or reservation outside (`Accounted`), and that the
workers end upstream first, each on a queue that nobody will fill again: the end
marker is the last thing in it (`Orderly`). The steps fall into
those that move no file (`StillSteps`, `GoesOn`), those that drop one (`Dropped`) and
the four that touch a queue, which rest on lemmas about appending and taking.

`CnexImportProofs` (any chunks, keys, pool size, runs, crashes and failures; assumption:
`ImportAssumption` of `CnexImport`): `CompressionIsSafe`, `Spec => []NeverClosedBusy`;
`StatesComplete`, `Spec => []StateHolds`; `ReadersSeeOnce`, `Spec =>
[]ObservationsOnce`. For the first, publishing clears the writers, so the invariant has
to know that no catalog thread is busy from the end of a job on, unless a failure has
already stopped publication (`QuietOutside`); and a finished batch rewrites one
field of a writer, so that writers are records with the field `open`
(`WriterRecords`).

The other two speak of the disk, but whether a state may be written rests on the whole
invocation. `ImportInv` follows it while nothing has failed (`Live`; after a failure
nothing is written any more). `Shelf` is what the next state will speak for: the
published parts, and those still with a writer, closed or waiting to be renamed
(`Fresh`). `Reach` says for every key up to which chunk its records have been written.
`Good(Shelf, Reach)` is then the promise of a state made before there is one: the parts of
a key are of one revision, hold every record up to its reach once, and in their order; at the
end of a publication nothing is fresh and every reach is the snapshot, so that it is the
state's. Conversely a resumed state gives `Good` back. Three lemmas say what steps do to it: parts that are
still empty join (`GoodNew`), a chunk has no records of a key (`GoodReach`), a chunk
is appended to the last part of its key (`GoodFill`).

What a reader finds also depends on parts no state names, left by a publication that
was cut short. `FreshInv` keeps them apart: a new part comes behind all parts of its key on disk,
unless a state is continued no part of its revision is unpublished, and its
observations are later than those of all of them. `BusyInv` says the same of the
chunk a catalog thread is writing, which is `check_tail`. `NamedInv` ties the published names to
the latest revisions: without it a rebuild might number a part into the
revision it replaces. The constants' assumption only gives them their types.

`TcpCasterProofs` (all constants; no assumption is used): `NothingSkipped` (`NoGap`),
`NeverJoined` (`OneSession`), `NeverStranded` (`NoLostWakeup`) and `Silenced`
(`SilentAfterClose`). The invariant `CInv` strengthens them: an accepted
connection had nothing sent or queued before (`Untouched`, so that its run starts
empty), a subscription starts at most one chunk ahead (`Joins`), a nonempty queue
is signalled whatever its sender does (`Signalled`; during a `drain()` nothing
else keeps the wake-up), a disconnected peer's queue is empty (`ClosedEmpty`; a
sender already woken then has nothing to take), and subscribers imply an open
source (`OpenForClients`, so that a new session finds none). Broadcast and send
rest on three lemmas about sequences: a run of chunks is extended by its
successor (`RunExtends`), and what is sent and queued together is extended by a
chunk that is queued (`QueueLast`) and unchanged by one that is sent (`MoveHead`).

`FeedThreadsProofs` (any finite set of workers, any sizes, any lanes; assumptions
`WorkersAssumption`, `SizeAssumption`, `LanesAssumption`): `FramesDecodedOnce`
(`DecodedOnce`) and `ArraysWhole` (`ReturnedWhole`). That no
chunk is taken twice follows from the counter alone; that the batch pointer is
safe to clear and all chunks are done when `run()` returns needs `finished` to be
the number of workers that are through with the present generation (`Counted`, a
cardinality), a worker inside `work()` to be of the present generation, and every
chunk below the counter to be decoded or in the hands of one thread (`Claimed`).
The pool's steps are proved once; `feed()` and the lanes use the pool only through
them (`FeedUsesPool`). For the lanes, `LaneInv` says where the rows of a flush are:
in the array, then in the hands of the thread, then in the queue, and the present flush
may be missing, in this order (`InLine`). A job that throws leaves a gap in the
line; the invariant allows it as long as `feed()` still holds the future of a failed
job, and of every job that has not ended (`Held`), so that `feed()` cannot return
arrays without meeting it.

`CnexReaderProofs` (streams of any length and content of one protocol, any
continuations and declared ends, any period, warm-up, capacity and resource limit;
assumptions: `TimeAssumption`, `AbsentAssumption`, `FamilyAssumption`, `BoundAssumption`, which
give times and frames their types, keep the absent value apart from the others, let a receiver
speak either UBX or SBF, and have the limit looked at every so many updates): `AnchorsFresh`,
`Spec => []FreshAnchor`, and `WholeEpochs`, `Spec => []EpochsWhole`. The invariant `ReaderIInv` is about the resumed reader alone; the
steps are proved about a reader of some frames (`ConsumeStep`, `RereadStep`,
`RestoreStep`, `EndStep`) and carried to the actions at the end. A raised reader keeps
what it has published and promises nothing more.

What a bits record borrows rests on the clock (`Anchored`): its navigation time is that
of the latest navigation frame, no restart was told after that frame, and no
measurement since lies beyond the clock's progress, so that the comparison with the
timeout sees all of them. NAV-TIMEGPS is the delicate stage: it may tell a restart, which
forgets the anchor, and then sets it again to the time of the same frame. Once made, a record
stays true because later frames have higher numbers (`BitsFresh`).

That epochs are whole rests on what is withheld (`Grouped`): its rows are all
measurement frames from the group's start on, all blocks from there on have its time, no
EndOfMeas of that time was read, and a reader that withholds nothing has read an EndOfMeas
after every block. The last part is what makes `EpochsWhole` inductive: without it
a closed group might be closed while nothing is withheld, and be lost. After a
checkpoint nothing is withheld either, but the same facts hold of the frames that are to be
read again, from `upcoming` on, so that `Grouped` says both; reading them again
can neither publish nor report anything (`ReadAgainGroup`). One COMPLETE event for each epoch is a
cardinality (`Counted`).

`ContinuedSame` is about both readers: `ResumedSame`, that an import
stopped and continued publishes what an uninterrupted one does. A restored reader does not
have the state of the uninterrupted one, so the invariant (`SameIInv`) relates them by what a
later frame can observe. While nothing is to be read again they are `Alike`: equal clocks, up
to an anchor that has aged (`ClockAlike`); equal telemetry but for the row that is open,
of which each holds a part while the other already published the rest; equal group,
cadence, pending tail. Between `Continue` and the last frame to be read again the resumed
reader is `Behind`: the frames before `skip_bytes` bring its group up to the uninterrupted one's
and change nothing else that counts. What was published is compared as its content
(`Content`): epochs, records and events in order, telemetry merged by the window it is of.
`Joint` joins the two cases. Each stage of `Consume` is shown to take alike readers to alike
ones with the same output (clock, telemetry, groups, emission), to raise in both or
in none, and to do nothing to a reader that reads again.

`ContinuedSame` has a proviso on each step, `Ordinary`, because two things the code keeps are
not in the checkpoint. The count of updates is not: after a continuation the looks at
the resource limit fall on other frames than without one, and what `finish()` closes
early differs; so the limit is looked at after every update, or is not exceeded. Nor is
`reported_tail`: a second declared end after a continuation tells of the same tail again;
so an end is declared only of a tail not yet told. TLC finds a counterexample without
either (`BoundEvery = 2` with a full window; two declared ends). With the code's period of
128 the first proviso is met by every stream that stays below the resource limit at
every update. The run looks at every update and declares at most one end, so that
its steps are all ordinary.

`GnssLoggerProofs` (any bytes, cuts into chunks, breaks, reconnections and disk errors; any
frames, day, week and limits; assumptions: `SealedAssumption`, a sentence is sealed with
its end of line, and `InputsAssumption`, the times of frames are positive):
`ChunksLeaveNoTrace` (`Spec => []ChunksInvisible`), `RecordingIsStream`
(`Spec => []FilesAreStream`) and `RunsEndWhole` (`Spec => []EndsWhole`), each under
`NoLongestLine`: no sentence is exactly as long as the bound. The hypothesis is the
code's, not the proof's: such a sentence is lost when a chunk ends before its end of line
(section 6), and it was the proof of `SentenceStable` that
failed on it.

Everything rests on `ChunkCut`: to decode p and then what p left over with q behind it is to
decode p and q at once. It follows from the decoder's single step: a step that does not wait
does the same when bytes are appended (`SentenceStable`, and its like for binary frames),
and one that waits has consumed nothing. The decoder and the order of the files are
recursive functions over sequences; the library's induction theorems cannot be
instantiated here, but the well-foundedness of the naturals can be used in a form that quantifies
over sets instead of predicates (`NatSet`), which is how `ChunkCut` and the lemmas about
`FlattenSeq` and `InOrder` are proved.

The invariant `IInv` has the decoder's part (`DecodeInv`: what was heard, is to be handled and
waits is what all bytes since the break decode to), the interval's (`IntervalInv`: what is
pending is what was heard since the last end, and a main thread that stops without failure
has nothing pending), the writer's (`WriterInv`: an error ends the worker,
and without one it ends only when it was told to and the queue is empty), and that of the days
(`PathInv`: from the disk over the worker's hands and the queue to the producer the
paths never fall, so that what is appended to the last file is appended to the stream).
`FilesAreStream` is inductive with these.

`BroadcastFeedProofs` (every time, week and modulus): `WeekIsNearest` and
`TimeIsNearest`, the completion of a truncated week and of a second of the week.
These are functions, so there is no invariant; the argument is the uniqueness of
a multiple of the cycle within half a cycle of the reception.

The same module (any frames, losses and breaks) has `CorrectionsHold`, that is
`CorrectionsRefer`. The property speaks only of what came out and when, so the inductive
invariant `Inv` relates the decoder to it: by `Standing`, the mask a source keeps under an
id is the last one the log has of it since the last withdrawal, and the orbit message it
keeps under mask id and issue is the last such one, with the mask it was given under. The hard
part is that orbits and masks lapse separately: a mask forgotten after 1800 s leaves the
orbits given under it, so that a kept orbit's mask need not be the kept mask
(`MasksSince` says what may have been announced in between). A message puts its
rows out one after the other, and each may refer to the one before; `Stage` follows the log
row by row between the two states of a step. A lemma for each other family says
that it puts out nothing of HAS and leaves the HAS sources alone (`Foreign`). Assumed
of the frames (`FramesAssumption`): times are integers or not known, and a HAS message
that gives orbits gives their validity, since the code reads both from one block.

Only model-checked: all liveness, of the reader `TelemetryOnce`
(it counts reports over rows merged by folds), of
the broadcast decoder all but its time arithmetic and `CorrectionsRefer`. Liveness and
ENABLED are out of the prover's reach. So is induction in its usual form, since the
provers cannot instantiate a theorem that takes a predicate. For `TelemetryOnce`, and for
`AssembledWhole`, `EphemerisTimes`, `TwoCyclesSuffice`, `SnapshotExact`, `PastAnswers` and
`HealthVeto`, the set form that served the logger would have to be carried through every
fold of their modules and every signal family, which has not been done.

## 6. Where code and documentation disagree

Runs with a counterexample:

- `CnexReader_restart`: MON-SYS(1), NAV-PVT, MON-SYS(2), NAV-TIMEGPS makes the
  code pair the window's older uptime after a newer one was paired: a restart by
  "uptime decrease" is told although uptime only grew.
- `Broadcast_sunday`: a QZSS CNAV ephemeris whose message type 10 comes before and
  whose last part comes after the change of the week is dated a week early: the week
  number is type 10's, the time of week the completing message's
  (`broadcast_cnav.cpp:366-369`, whose comment promises the opposite).

Seen while modelling, reproducible by changing one value of a cfg, without a run
of their own:

- `MaxLine = 5` in `GnssLogger`, the length of the sentence in its recordings: a
  sentence of exactly the longest length, 4096 characters in the code, no longer waits
  for its end of line (`stream.cpp:112-114`). When a chunk ends before it, the sentence
  counts as invalid; when it is in the same chunk, it is a frame
  (`ChunksInvisible`; `stream.hpp:47-48`: "Chunk/file boundaries have no framing
  significance.").
- `Faults = {"retarget"}` in `MosaicArchive_safety`: an eviction intent saved for
  one set of targets is finished after a restart that enables another
  (`EvictionDelivered`).
- `Faults = {"unlink"}`: when the second unlink of an eviction fails, the archive
  is gone without a tombstone and the next cycle fetches it again (`NoRefetch`). An
  unlink error also leaves the key `evicting` in the record: a later revision's
  archive is then deleted, undelivered, by the next start (`EvictionDelivered`).
- `INVARIANTS Untorn` in the place of `PublishedWhole` in `MosaicUpload` shows two ways in
  which a partial comes to pass for what it is not, both after the user harmed the
  local archive. The claim on the temporary is saved (`mosaic_push.py:1116`) before STOR
  truncates it: when an archive is superseded undelivered, because `plan()` waits only for an
  intact one (`:1227-1229`), and the connection fails in between, the obsolete partial
  counts as the new archive's. And an overwritten archive that is compressed again from the
  same source gets the source's mtime (`:1022`) and so, at the same size, the identity it had:
  foreign bytes sent before count as its own. `doubt` marks exactly these steps.
- `upload()` replaces a file of equal size only if the receipt names another
  revision (`mosaic_push.py:1106`). Before the first receipt, a revision that was renamed into
  place but not acknowledged, and then superseded because its local archive was
  harmed, passes for a later one of the same size, which gets a receipt and is never
  sent; so does a stranger's file of the size of the first. `MosaicDelivery!Passes` says so
  (`ImplementsDelivery` fails without its last disjunct). Files at the target are
  assumed to be changed by the mirror alone.
- A file put under the archive's name after the scan is replaced
  (`mosaic_push.py:1024`; `Faults = {"place"}` has such files).
- An eviction intent left by an unlink error that meets an archive other than the
  one it names makes `Mirror.__init__` raise at each start (`EvictRefuse`; `Stuck`).
- A HAS mask lapses 1800 s after its own reception (`broadcast_has.cpp:185`), the orbits
  given under it after theirs. A different mask that then comes under the same id finds no
  mask to differ from and does not drop those orbits (`:268`): until they lapse too,
  corrections under the new mask refer to orbits given under the old one. `CorrectionsRefer` allows just this.
- `AdmissionSafe` speaks of files in the pipeline; raw copies whose compression
  failed stay on disk without bound within a scan, unlike the comment at
  `mosaic_push.py:1260`.
- A telemetry row made only of SBF reports stamped earlier than its first PVT is
  located at the block that closes it, not at its first report
  (`cnex_telemetry.hpp:396-422`; `receiver-time.md`, "or of the first report when
  no such block exists").
- A lost PVT can put statuses of two epochs into one window; if they differ the
  conflict raises and ends the import.
- `reported_tail` is not in the checkpoint: a second declared end after a
  continuation reports INCOMPLETE_TAIL again. So `Context` leaves it out and the
  families declare one end.
- The tail check of the importer covers observations only. After an interrupted
  publication, continuing appends events (and other catalogs) a second time to
  parts that no state names; `parquetnex.md` asks the operator to resolve such a
  day first. `ObservationsOnce` therefore speaks of observations.
- After a break the logger throws away the unfinished interval, but not what the
  receiver still sends of it: the tail of an interrupted interval that ends with an
  end-of-epoch frame is recorded as an interval of its own
  (`libcppgnss/README.md:303` ff., "discards the unfinished frame and recording
  interval, then resynchronizes", "The entire epoch, including EOE, is written").
  `FilesAreStream` takes what the decoder hears after the break for the stream.
- In a recording of several protocols a byte 0xd3 at the start of what a break left over
  can pass for an RTCM frame and hold back up to 1029 bytes until they turn out invalid.
- Three signals have a part that nothing ties to an upload: I/NAV word 5 has no IODnav
  (`broadcast_galileo.cpp:540-543`), and CNAV type 11 and B-CNAV3's orbit are held to the
  rest by a reference time at most (`broadcast_cnav.cpp:341-356`,
  `broadcast_beidou.cpp:690-706`). When frames are lost at a change of upload, an ephemeris may
  combine this part of one upload with the rest of the next, within the age limit: group
  delays and health in I/NAV, half of the orbit in CNAV, orbit and clock in B-CNAV3. The
  documents promise no more (`broadcast-galileo.md`, `broadcast-qzss-cnav.md`,
  `broadcast-beidou.md`); `AssembledWhole` allows just this, and the run has a
  broadcast of each in which it happens.
- Broadcast: an ephemeris or almanac set takes two cycles to be sure of, one
  whole cycle need not complete it, since an assembly that becomes too old takes with
  it the parts it already had of the cycle (`TwoCyclesSuffice` says two). After a
  declared discontinuity the times may go back: `first_received_gpst` may then exceed
  the time of the snapshot. An almanac epoch or UTC message older than seven days no
  longer dates the rows that need it. An I/NAV word 4 with a foreign satellite number
  discards all that its page gave, also a return link message that its SAR bits completed.
  `BroadcastNavigation::feed` does not check the order of times, and HAS pages have
  no label of their upload but the message identifier.
- `Reader.feed` that throws in its last flush neither marks the decoder failed nor
  empties `frames`; the caller is expected to give the reader up.
- A leftover `.import-state.json.tmp` makes the next publication fail after its
  parts were renamed (`OpenState`), until the file is removed (`Tidy`).

## 7. Not modelled

- *Left out of modelled components.* Mosaic: byte arithmetic of storage
  accounting over many files, the watchdog's lock, configuration. Caster:
  reconnect delays. Reader: field decoding, MeasExtra matching by channel, Arrow
  output. Threads: `feed()` without a pool or lanes (one thread) is the same code
  without the waits; what a job writes into Arrow. Broadcast: the layout of raw
  words (`raw_bits.cpp`), bit positions and scale factors, the SBAS messages, the
  text of the statistics, the orbit computation. Stream decoder: the message parsers;
  one byte of payload stands for all. Logger: diagnostics, the inspection with
  `-n`, serial ports, the command line.
  Import: discovery, sorting, time-reversal rejection (a `FeedFails`), the extra
  batch of `--finalize-telemetry`, the limits of two-digit part numbers; a chunk
  is assumed to span several epochs, since an observation equal in time to the
  last published one passes the tail check.
- *Components for later*: see the plan.
- *Out of reach*: floating-point processing (STEC, PPP, clock statistics,
  interpolation), rendering, generated parsers, pure validation and formatting.

## 8. Plan

What has been done: `MosaicArchive`, `MosaicUpload` with `MosaicDelivery`,
`MosaicPipeline`, `TcpCaster`, `CnexReader`, `CnexImport`, `DecodePool` with
`FeedThreads`, the broadcast modules, `StreamDecoder` with `LoggerOutput` and
`GnssLogger`; proofs for archive, upload, pipeline,
caster, reader, import, pool, lanes, week arithmetic, HAS references and logger.

What would come next, in order of importance:

1. `ProductDownload` (partial, validator, quarantine, retry) against an abstract
   "a product is absent or whole"; `StecPublication` (stage, backup, two renames)
   against an atomic replacement, with crashes between the renames.
2. `LiveInput`: acquisition thread, bounded queue, drain deadlines, discontinuity
   notice; composed with the reader's declared end.
3. `SbasIssues`: issues of data of the SBAS corrections, which the broadcast
   snapshots refer to.
4. `MosaicStorage` (reservations over several files), `TransferWatch`.

Theorems next: `TelemetryOnce` of the reader, `SnapshotExact` and `PastAnswers` of the
broadcast decoder.
