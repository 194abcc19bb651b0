---------------------------- MODULE MosaicArchive ----------------------------
(***************************************************************************)
(* The life of one daily file in the mosaic mirror (mosaic_push.py):       *)
(* inventory of the receiver, plan, resumable download, compression with   *)
(* read-back verification, forwarding, eviction, tombstone collection.     *)
(*                                                                         *)
(* What survives a crash is the disk (part, raw, xzPart, archive, sidecar) *)
(* and the last state.json (saved); the record a stage works on (mem) is a *)
(* copy that a crash loses.  Every disk effect and every save_record is a  *)
(* step of its own, so a crash can fall between any two of them.           *)
(*                                                                         *)
(* Abstractions.  A source revision is a number: it stands for the         *)
(* (SIZE, MDTM) identity the receiver reports and for the bytes behind it. *)
(* The content of a local file is the set of revisions that contributed    *)
(* bytes to it, so {r} is a faithful copy of revision r.  A file the tool  *)
(* writes carries its source's mtime, hence identity r; a file put there   *)
(* by somebody else has identity Foreign.  raw_source, raw and raw_sha512  *)
(* are written and removed together (field raw), and so are archive_source *)
(* and sha512 (field archSrc).                                             *)
(***************************************************************************)
EXTENDS Integers, FiniteSets

CONSTANTS
    MaxRev,        \* the receiver's file is revised at most MaxRev - 1 times
    Size,          \* Size[r]: length of revision r, in blocks of one recv()
    Destinations,  \* every FTPS target the configuration can name
    Limited,       \* TRUE when storage.limit_gib is set (eviction happens)
    Faults,        \* subset of {"retarget", "unlink", "place"}, see below
    MaxCrashes,    \* bound on crashes of the daemon
    MaxFailures,   \* bound on failed transfers and local I/O errors
    MaxIncidents   \* bound on archives the user removes or places and on transient absences

Revs == 1..MaxRev
Foreign == MaxRev + 1
None == 0

ASSUME ConstantsAssumption ==
    /\ MaxRev \in Nat \ {0}
    /\ Size \in [Revs -> Nat \ {0}]
    /\ IsFiniteSet(Destinations)
    /\ Limited \in BOOLEAN
    /\ Faults \subseteq {"retarget", "unlink", "place"}
    /\ MaxCrashes \in Nat /\ MaxFailures \in Nat /\ MaxIncidents \in Nat

VARIABLES
    rcv,        \* receiver's file: [rev, status]
    part,       \* .mosaic-push/raw/<file>.part : [from, len], len = -1 if none
    raw,        \* .mosaic-push/raw/<file>      : [from, id], id = None if none
    xzPart,     \* <file>.xz.part exists
    archive,    \* <file>.xz                    : [from, id], id = None if none
    sidecar,    \* revision named by <file>.sha512, None if there is none
    saved,      \* the file's record in state.json (and in Mirror.state)
    mem,        \* the copy of the record the current job works on
    pc,         \* next step of the file's job, or of the daemon around it
    seen,       \* identity this cycle's inventory found, None if it found none
    back,       \* where an eviction returns to
    todo,       \* destinations the push job has still to visit
    enabled,    \* destinations enabled in the configuration
    remote,     \* remote[d]: content of the last verified publication at d
    gone,       \* history: complete inventories without the file since r was evicted
    crashes, failures, incidents

disk == <<part, raw, xzPart, archive, sidecar>>
budget == <<crashes, failures, incidents>>
vars == <<rcv, part, raw, xzPart, archive, sidecar, saved, mem, pc, seen, back,
          todo, enabled, remote, gone, crashes, failures, incidents>>

NoPart == [from |-> {}, len |-> -1]
NoFile == [from |-> {}, id |-> None]

\* An absent entry of state["files"]: known is FALSE.
Blank == [known |-> FALSE, expected |-> None, partial |-> None, noRest |-> FALSE,
          raw |-> None, archive |-> None, archSrc |-> None, adopt |-> FALSE,
          uploads |-> [d \in Destinations |-> <<None, None>>], retry |-> None,
          evicting |-> FALSE, evicted |-> None, absent |-> 0]

Records == [known : BOOLEAN, expected : 0..MaxRev, partial : 0..MaxRev,
            noRest : BOOLEAN, raw : 0..MaxRev, archive : 0..Foreign,
            archSrc : 0..MaxRev, adopt : BOOLEAN,
            uploads : [Destinations -> (0..Foreign) \X (0..MaxRev)],
            retry : 0..MaxRev, evicting : BOOLEAN, evicted : 0..MaxRev,
            absent : 0..1]

(***************************************************************************)
(* Predicates of the code.                                                 *)
(***************************************************************************)
\* The archive on disk is the one the record describes.
ArchiveReady(rec) == archive.id # None /\ archive.id = rec.archive

\* Mutant: a receipt for any earlier archive counts.
DeliveredOnce(rec) == \A d \in enabled : rec.uploads[d] # <<None, None>>

\* Every enabled destination's receipt covers this archive and its digest.
Delivered(rec) == \A d \in enabled : rec.uploads[d] = <<rec.archive, rec.archSrc>>

\* job_bytes() is not zero.
JobFiles == part # NoPart \/ raw # NoFile \/ xzPart

\* A pinned file (its job has started) is never a candidate; see EvictBegin.
SafeToEvict(rec) ==
    /\ rec.known /\ rec.evicted = None
    /\ ArchiveReady(rec)
    /\ rec.expected = rec.archSrc
    /\ ~JobFiles
    /\ Delivered(rec)

Save(rec) == mem' = rec /\ saved' = rec

Init ==
    /\ rcv \in [rev : {1}, status : {"closed", "active"}]
    /\ part = NoPart /\ raw = NoFile /\ xzPart = FALSE
    /\ archive \in {NoFile} \cup [from : {{r} : r \in Revs}, id : {Foreign}]
    /\ sidecar = None
    /\ saved = Blank /\ mem = Blank
    /\ pc = "down" /\ seen = None /\ back = "scan" /\ todo = {}
    /\ enabled \in SUBSET Destinations
    /\ remote = [d \in Destinations |-> {}]
    /\ gone = [r \in Revs |-> -1]
    /\ crashes = 0 /\ failures = 0 /\ incidents = 0

(***************************************************************************)
(* Environment: the receiver, the user and the machine.                    *)
(***************************************************************************)
\* The receiver logs the day again: <name>.A appears.
Reopen ==
    /\ rcv.status # "active" /\ rcv.rev < MaxRev
    /\ rcv' = [rcv EXCEPT !.status = "active"]
    /\ UNCHANGED <<disk, saved, mem, pc, seen, back, todo, enabled, remote, gone, budget>>

\* The active file is closed; what it held before is a revision older.
Close ==
    /\ rcv.status = "active"
    /\ rcv' = [rev |-> IF rcv.rev < MaxRev THEN rcv.rev + 1 ELSE rcv.rev, status |-> "closed"]
    /\ UNCHANGED <<disk, saved, mem, pc, seen, back, todo, enabled, remote, gone, budget>>

\* Receiver-side "delete oldest".
Expire ==
    /\ rcv.status = "closed"
    /\ rcv' = [rcv EXCEPT !.status = "absent"]
    /\ UNCHANGED <<disk, saved, mem, pc, seen, back, todo, enabled, remote, gone, budget>>

\* The receiver's disk comes back: the same file was only unlisted for a while.
Reappear ==
    /\ rcv.status = "absent" /\ incidents < MaxIncidents
    /\ rcv' = [rcv EXCEPT !.status = "closed"] /\ incidents' = incidents + 1
    /\ UNCHANGED <<disk, saved, mem, pc, seen, back, todo, enabled, remote, gone, crashes, failures>>

\* The user removes a completed archive between two jobs of the file.
UserDelete ==
    /\ pc \in {"down", "idle"} /\ incidents < MaxIncidents
    /\ ArchiveReady(saved) /\ saved.evicted = None
    /\ archive' = NoFile /\ incidents' = incidents + 1
    /\ UNCHANGED <<rcv, part, raw, xzPart, sidecar, saved, mem, pc, seen, back, todo,
                   enabled, remote, gone, crashes, failures>>

\* Fault "place": the user puts an unrelated file under the archive's name.
\* Its size and mtime are its own, so it is never taken for an adopted one.
UserPlace ==
    /\ "place" \in Faults /\ archive = NoFile /\ saved.archive # Foreign
    /\ incidents < MaxIncidents /\ incidents' = incidents + 1
    /\ \E r \in Revs : archive' = [from |-> {r}, id |-> Foreign]
    /\ UNCHANGED <<rcv, part, raw, xzPart, sidecar, saved, mem, pc, seen, back, todo,
                   enabled, remote, gone, crashes, failures>>

Crash ==
    /\ pc # "down" /\ crashes < MaxCrashes
    /\ pc' = "down" /\ crashes' = crashes + 1
    /\ mem' = Blank /\ seen' = None /\ back' = "scan" /\ todo' = {}
    /\ UNCHANGED <<rcv, disk, saved, enabled, remote, gone, failures, incidents>>

(***************************************************************************)
(* Start: Mirror.__init__ completes an eviction whose intent is durable.   *)
(* Fault "retarget": the configuration names other targets on a restart.   *)
(***************************************************************************)
Boot ==
    /\ pc = "down"
    /\ enabled' \in (IF "retarget" \in Faults THEN SUBSET Destinations ELSE {enabled})
    /\ back' = "scan"
    /\ pc' = IF saved.evicting THEN "unlink" ELSE "scan"
    /\ UNCHANGED <<rcv, disk, saved, mem, seen, todo, remote, gone, budget>>

(***************************************************************************)
(* One cycle: inventory with tombstone collection, then plan.              *)
(***************************************************************************)
\* Mutants: the tombstone goes after one missed scan, or one scan too late.
CollectEarly == 1
CollectLate == 3

\* A tombstone is dropped once this many complete inventories missed the file.
CollectAfter == 2

\* inventory(): eligible is the date rule; ok says whether this directory was
\* read, complete whether every directory was.  gc_evicted() follows at once.
Scan(eligible, ok, complete) ==
    LET present == rcv.status # "absent"
        tomb == saved.evicted # None /\ archive = NoFile /\ ~JobFiles
        absent == IF present THEN 0 ELSE saved.absent + 1
    IN  /\ pc = "scan" /\ (complete => ok)
        /\ seen' = IF eligible /\ ok /\ rcv.status = "closed" THEN rcv.rev ELSE None
        /\ saved' = CASE ~(complete /\ tomb) -> saved
                      [] complete /\ tomb /\ absent < CollectAfter -> [saved EXCEPT !.absent = absent]
                      [] OTHER -> Blank
        /\ gone' = [r \in Revs |->
                      IF ~complete \/ gone[r] \in {-1, 2} THEN gone[r]
                      ELSE IF present THEN 0 ELSE gone[r] + 1]
        /\ pc' = "discover"
        /\ UNCHANGED <<rcv, disk, mem, back, todo, enabled, remote, budget>>

NewRecord == [Blank EXCEPT !.known = TRUE, !.adopt = archive # NoFile]

\* plan(), first loop: the record of a found file is created or revised.
Discover ==
    LET rec == IF saved.known THEN saved ELSE NewRecord
    IN  /\ pc = "discover" /\ pc' = "assign"
        /\ saved' = IF seen = None THEN saved ELSE [rec EXCEPT !.expected = seen]
        /\ UNCHANGED <<rcv, disk, mem, seen, back, todo, enabled, remote, gone, budget>>

\* Mutant: an archive that is ready hides the raw copy left beside it.
StageArchiveFirst(rec) ==
    IF seen # None /\ (~ArchiveReady(rec) \/ rec.archSrc # seen)
    THEN IF ArchiveReady(rec) /\ ~Delivered(rec) THEN "push" ELSE "download"
    ELSE IF rec.archive # None THEN "push"
    ELSE IF rec.raw # None /\ raw # NoFile THEN "compress" ELSE "idle"

\* plan(), second loop: a new revision lifts the tombstone, then the file gets
\* exactly one initial stage.
StageOf(rec) ==
    IF seen # None /\ (~ArchiveReady(rec) \/ rec.archSrc # seen)
    THEN IF ArchiveReady(rec) /\ ~Delivered(rec) THEN "push" ELSE "download"
    ELSE IF rec.raw # None /\ raw # NoFile THEN "compress"
    ELSE IF rec.archive # None THEN "push" ELSE "idle"

Assign ==
    LET buried == saved.evicted # None /\ seen \in {None, saved.evicted}
        rec == IF saved.evicted = None THEN saved
               ELSE [saved EXCEPT !.evicted = None, !.absent = 0]
    IN  /\ pc = "assign"
        /\ IF ~saved.known \/ buried
           THEN pc' = "idle" /\ UNCHANGED <<mem, saved>>
           ELSE Save(rec) /\ pc' = StageOf(rec)
        /\ UNCHANGED <<rcv, disk, seen, back, todo, enabled, remote, gone, budget>>

\* The next cycle of the daemon.
Again ==
    /\ pc = "idle" /\ pc' = "scan" /\ mem' = Blank /\ seen' = None
    /\ UNCHANGED <<rcv, disk, saved, back, todo, enabled, remote, gone, budget>>

(***************************************************************************)
(* Download stage: download_job() and download().                          *)
(***************************************************************************)
\* An exception in the download stage records a retry for this revision.
FailDownload(rec) == Save([rec EXCEPT !.retry = rec.expected]) /\ pc' = "idle"

SourceUnchanged == rcv = [rev |-> mem.expected, status |-> "closed"]

\* retry_due(): the backoff of an earlier failure has not expired.
Defer ==
    /\ pc = "download" /\ mem.retry = mem.expected /\ pc' = "idle"
    /\ UNCHANGED <<rcv, disk, saved, mem, seen, back, todo, enabled, remote, gone, budget>>

\* Local data of a superseded revision goes; the record is not saved here.
StartDownload ==
    /\ pc = "download" /\ pc' = "admit"
    /\ IF mem.raw # mem.expected
       THEN raw' = NoFile /\ mem' = [mem EXCEPT !.raw = None]
       ELSE UNCHANGED <<raw, mem>>
    /\ part' = IF mem.partial # mem.expected THEN NoPart ELSE part
    /\ UNCHANGED <<rcv, xzPart, archive, sidecar, saved, seen, back, todo, enabled,
                   remote, gone, budget>>

\* reserve() for a download, and for a compression planned without one.
Admit ==
    /\ \/ pc = "admit" /\ pc' = "fetch"
       \/ pc = "compress" /\ pc' = "xz"
    /\ UNCHANGED <<rcv, disk, saved, mem, seen, back, todo, enabled, remote, gone, budget>>

\* StorageBlocked: the job ends, nothing is saved, no retry is recorded.
Block ==
    /\ pc \in {"admit", "compress"} /\ failures < MaxFailures
    /\ pc' = "idle" /\ failures' = failures + 1
    /\ UNCHANGED <<rcv, disk, saved, mem, seen, back, todo, enabled, remote, gone, crashes, incidents>>

FetchKept ==
    /\ pc = "fetch" /\ mem.raw = mem.expected /\ raw.id = mem.raw
    /\ Save([mem EXCEPT !.retry = None]) /\ pc' = "xz"
    /\ UNCHANGED <<rcv, disk, seen, back, todo, enabled, remote, gone, budget>>

FetchPartial ==
    LET fresh == mem.partial # mem.expected
        rec == IF fresh THEN [mem EXCEPT !.partial = mem.expected, !.noRest = FALSE] ELSE mem
    IN  /\ pc = "fetch" /\ pc' = "open"
        /\ ~(mem.raw = mem.expected /\ raw.id = mem.raw)
        /\ part' = IF fresh \/ rec.noRest \/ part.len > Size[mem.expected] THEN NoPart ELSE part
        /\ IF fresh THEN Save(rec) ELSE UNCHANGED <<saved, mem>>
        /\ UNCHANGED <<rcv, raw, xzPart, archive, sidecar, seen, back, todo, enabled,
                       remote, gone, budget>>

\* The receiver is asked again before RETR; a complete partial is not resent.
Open ==
    /\ pc = "open" /\ SourceUnchanged
    /\ IF part.len < Size[mem.expected]
       THEN pc' = "recv" /\ part' = IF part = NoPart THEN [from |-> {}, len |-> 0] ELSE part
       ELSE pc' = "verify" /\ UNCHANGED part
    /\ UNCHANGED <<rcv, raw, xzPart, archive, sidecar, saved, mem, seen, back, todo,
                   enabled, remote, gone, budget>>

\* The receiver refuses REST: the next attempt starts at zero.
RestRejected ==
    /\ pc = "open" /\ SourceUnchanged /\ failures < MaxFailures
    /\ part.len > 0 /\ part.len < Size[mem.expected]
    /\ FailDownload([mem EXCEPT !.noRest = TRUE]) /\ failures' = failures + 1
    /\ UNCHANGED <<rcv, disk, seen, back, todo, enabled, remote, gone, crashes, incidents>>

\* What RETR may be serving: the revision it opened or any later one.
Served == mem.expected..rcv.rev

Recv ==
    /\ pc = "recv" /\ part.len < Size[mem.expected]
    /\ \E r \in Served : /\ part.len < Size[r]
                         /\ part' = [from |-> part.from \cup {r}, len |-> part.len + 1]
    /\ UNCHANGED <<rcv, raw, xzPart, archive, sidecar, saved, mem, pc, seen, back, todo,
                   enabled, remote, gone, budget>>

\* InvalidPartial: more bytes than the advertised size.
Overflow ==
    /\ pc = "recv" /\ part.len = Size[mem.expected]
    /\ \E r \in Served : part.len < Size[r]
    /\ part' = NoPart /\ FailDownload([mem EXCEPT !.partial = None])
    /\ UNCHANGED <<rcv, raw, xzPart, archive, sidecar, seen, back, todo, enabled,
                   remote, gone, budget>>

Eof ==
    /\ pc = "recv" /\ pc' = "verify"
    /\ \E r \in Served : part.len >= Size[r]
    /\ UNCHANGED <<rcv, disk, saved, mem, seen, back, todo, enabled, remote, gone, budget>>

\* Connection lost, stall watchdog, or no completion reply: the part stays.
Drop ==
    /\ pc = "recv" /\ failures < MaxFailures
    /\ FailDownload(mem) /\ failures' = failures + 1
    /\ UNCHANGED <<rcv, disk, seen, back, todo, enabled, remote, gone, crashes, incidents>>

\* Mutant: the identity is not read again after the transfer.
VerifiedSize == part.len = Size[mem.expected]

\* Size, identity and the closed state are checked again, then the hash is taken.
Verified == part.len = Size[mem.expected] /\ SourceUnchanged

Verify ==
    /\ pc = "verify" /\ Verified /\ pc' = "rename"
    /\ UNCHANGED <<rcv, disk, saved, mem, seen, back, todo, enabled, remote, gone, budget>>

\* The source moved on, or the size is short, before or after the transfer.
SourceChanged ==
    /\ \/ pc = "open" /\ ~SourceUnchanged
       \/ pc = "verify" /\ ~Verified
    /\ FailDownload(mem)
    /\ UNCHANGED <<rcv, disk, seen, back, todo, enabled, remote, gone, budget>>

RenameRaw ==
    /\ pc = "rename" /\ pc' = "commitRaw"
    /\ raw' = [from |-> part.from, id |-> mem.expected] /\ part' = NoPart
    /\ UNCHANGED <<rcv, xzPart, archive, sidecar, saved, mem, seen, back, todo, enabled,
                   remote, gone, budget>>

\* The record is saved, then saved again without the retry entry.
CommitRaw ==
    /\ pc = "commitRaw" /\ pc' = "xz"
    /\ Save([mem EXCEPT !.raw = mem.expected, !.partial = None, !.retry = None])
    /\ UNCHANGED <<rcv, disk, seen, back, todo, enabled, remote, gone, budget>>

(***************************************************************************)
(* Compression stage: compress_job(), compress(), remove_raw().            *)
(***************************************************************************)
\* Mutant: the record alone decides.
CompressedByRecord == mem.archSrc = mem.raw

Compressed == mem.archSrc = mem.raw /\ ArchiveReady(mem)

\* Interrupted after the archive was committed: only the raw copy is left over.
SkipXz ==
    /\ pc = "xz" /\ Compressed /\ pc' = "unlinkRaw"
    /\ UNCHANGED <<rcv, disk, saved, mem, seen, back, todo, enabled, remote, gone, budget>>

\* The raw copy is missing or changed, or an unmanaged archive differs from it.
RefuseXz ==
    /\ pc = "xz" /\ ~Compressed /\ pc' = "idle"
    /\ \/ raw.id # mem.raw
       \/ mem.adopt /\ archive # NoFile /\ archive.from # raw.from
    /\ UNCHANGED <<rcv, disk, saved, mem, seen, back, todo, enabled, remote, gone, budget>>

CommitArchive(id) ==
    /\ Save([mem EXCEPT !.archive = id, !.archSrc = mem.raw, !.adopt = FALSE])
    /\ pc' = "sidecar"

\* An archive that was there first decompresses to the downloaded bytes.
Adopt ==
    /\ pc = "xz" /\ ~Compressed /\ raw.id = mem.raw
    /\ mem.adopt /\ archive # NoFile /\ archive.from = raw.from
    /\ CommitArchive(archive.id)
    /\ UNCHANGED <<rcv, disk, seen, back, todo, enabled, remote, gone, budget>>

StartXz ==
    /\ pc = "xz" /\ ~Compressed /\ raw.id = mem.raw
    /\ ~(mem.adopt /\ archive # NoFile)
    /\ xzPart' = TRUE /\ pc' = "publish"
    /\ UNCHANGED <<rcv, part, raw, archive, sidecar, saved, mem, seen, back, todo,
                   enabled, remote, gone, budget>>

\* xz fails, exceeds its budget, or its output does not decompress to raw.
FailXz ==
    /\ pc = "publish" /\ failures < MaxFailures
    /\ xzPart' = FALSE /\ pc' = "idle" /\ failures' = failures + 1
    /\ UNCHANGED <<rcv, part, raw, archive, sidecar, saved, mem, seen, back, todo,
                   enabled, remote, gone, crashes, incidents>>

Publish ==
    /\ pc = "publish" /\ pc' = "commitArchive"
    /\ archive' = [from |-> raw.from, id |-> mem.raw] /\ xzPart' = FALSE
    /\ UNCHANGED <<rcv, part, raw, sidecar, saved, mem, seen, back, todo, enabled,
                   remote, gone, budget>>

CommitPublished ==
    /\ pc = "commitArchive" /\ CommitArchive(mem.raw)
    /\ UNCHANGED <<rcv, disk, seen, back, todo, enabled, remote, gone, budget>>

\* checksum(): refuses an archive the record does not describe.
Sidecar ==
    /\ pc = "sidecar"
    /\ IF ArchiveReady(mem) THEN sidecar' = mem.archSrc /\ pc' = "unlinkRaw"
                            ELSE pc' = "idle" /\ UNCHANGED sidecar
    /\ UNCHANGED <<rcv, part, raw, xzPart, archive, saved, mem, seen, back, todo,
                   enabled, remote, gone, budget>>

FailSidecar ==
    /\ pc = "sidecar" /\ failures < MaxFailures
    /\ pc' = "idle" /\ failures' = failures + 1
    /\ UNCHANGED <<rcv, disk, saved, mem, seen, back, todo, enabled, remote, gone, crashes, incidents>>

UnlinkRaw ==
    /\ pc = "unlinkRaw" /\ raw' = NoFile /\ pc' = "dropRaw"
    /\ UNCHANGED <<rcv, part, xzPart, archive, sidecar, saved, mem, seen, back, todo,
                   enabled, remote, gone, budget>>

DropRaw ==
    /\ pc = "dropRaw" /\ Save([mem EXCEPT !.raw = None]) /\ pc' = "push"
    /\ UNCHANGED <<rcv, disk, seen, back, todo, enabled, remote, gone, budget>>

(***************************************************************************)
(* Push stage: push_file() over the enabled targets.  MosaicUpload models  *)
(* one upload(); here it either completes or leaves its receipt pending.   *)
(***************************************************************************)
StartPush ==
    /\ pc = "push"
    /\ IF ArchiveReady(mem)
       THEN sidecar' = mem.archSrc /\ todo' = enabled /\ pc' = "send"
       ELSE pc' = "idle" /\ UNCHANGED <<sidecar, todo>>
    /\ UNCHANGED <<rcv, part, raw, xzPart, archive, saved, mem, seen, back, enabled,
                   remote, gone, budget>>

Send(d) ==
    /\ pc = "send" /\ d \in todo /\ ArchiveReady(mem)
    /\ remote' = [remote EXCEPT ![d] = archive.from]
    /\ Save([mem EXCEPT !.uploads[d] = <<mem.archive, mem.archSrc>>])
    /\ todo' = todo \ {d}
    /\ UNCHANGED <<rcv, disk, pc, seen, back, enabled, gone, budget>>

\* A failed target never suppresses the next one.
FailSend(d) ==
    /\ pc = "send" /\ d \in todo /\ failures < MaxFailures
    /\ todo' = todo \ {d} /\ failures' = failures + 1
    /\ UNCHANGED <<rcv, disk, saved, mem, pc, seen, back, enabled, remote, gone, crashes, incidents>>

EndPush ==
    /\ pc = "send" /\ todo = {} /\ pc' = "idle"
    /\ UNCHANGED <<rcv, disk, saved, mem, seen, back, todo, enabled, remote, gone, budget>>

(***************************************************************************)
(* Eviction by reserve() for another file or by trim(): the durable intent,*)
(* the two unlinks, the tombstone.  The file is not pinned before its job  *)
(* starts and after it ends.                                               *)
(***************************************************************************)
EvictBegin ==
    /\ Limited /\ pc \in {"download", "compress", "idle"} /\ SafeToEvict(saved)
    /\ saved' = [saved EXCEPT !.evicting = TRUE]
    /\ back' = pc /\ pc' = "unlink"
    /\ UNCHANGED <<rcv, disk, mem, seen, todo, enabled, remote, gone, budget>>

\* During start-up the error ends the daemon, otherwise only the other job.
EvictAborted == pc' = IF back = "scan" THEN "down" ELSE back

EvictRefuse ==
    /\ pc = "unlink" /\ archive.id \notin {None, saved.archive}
    /\ EvictAborted
    /\ UNCHANGED <<rcv, disk, saved, mem, seen, back, todo, enabled, remote, gone, budget>>

\* Fault "unlink": the file system refuses an unlink; the intent stays.
EvictError ==
    /\ "unlink" \in Faults /\ pc \in {"unlink", "unlinkSidecar"} /\ failures < MaxFailures
    /\ EvictAborted /\ failures' = failures + 1
    /\ UNCHANGED <<rcv, disk, saved, mem, seen, back, todo, enabled, remote, gone, crashes, incidents>>

EvictArchive ==
    /\ pc = "unlink" /\ archive.id \in {None, saved.archive}
    /\ archive' = NoFile /\ pc' = "unlinkSidecar"
    /\ gone' = [gone EXCEPT ![saved.archSrc] = IF archive = NoFile THEN @ ELSE 0]
    /\ UNCHANGED <<rcv, part, raw, xzPart, sidecar, saved, mem, seen, back, todo,
                   enabled, remote, budget>>

EvictSidecar ==
    /\ pc = "unlinkSidecar" /\ sidecar' = None /\ pc' = "bury"
    /\ UNCHANGED <<rcv, part, raw, xzPart, archive, saved, mem, seen, back, todo,
                   enabled, remote, gone, budget>>

Bury ==
    /\ pc = "bury" /\ pc' = back
    /\ saved' = [saved EXCEPT !.evicting = FALSE, !.evicted = saved.archSrc]
    /\ UNCHANGED <<rcv, disk, mem, seen, back, todo, enabled, remote, gone, budget>>

(***************************************************************************)
(* Specification.                                                          *)
(***************************************************************************)
Environment == Reopen \/ Close \/ Expire \/ Reappear \/ UserDelete \/ UserPlace \/ Crash

Cycle == (\E eligible, ok, complete \in BOOLEAN : Scan(eligible, ok, complete))
         \/ Discover \/ Assign \/ Again

DownloadStage == Defer \/ StartDownload \/ Admit \/ Block \/ FetchKept \/ FetchPartial
                 \/ Open \/ RestRejected \/ Recv \/ Overflow \/ Eof \/ Drop
                 \/ Verify \/ SourceChanged \/ RenameRaw \/ CommitRaw

CompressStage == SkipXz \/ RefuseXz \/ Adopt \/ StartXz \/ FailXz \/ Publish
                 \/ CommitPublished \/ Sidecar \/ FailSidecar \/ UnlinkRaw \/ DropRaw

PushStage == StartPush \/ EndPush \/ \E d \in Destinations : Send(d) \/ FailSend(d)

Eviction == EvictBegin \/ EvictRefuse \/ EvictError \/ EvictArchive \/ EvictSidecar \/ Bury

Next == Environment \/ Boot \/ Cycle \/ DownloadStage \/ CompressStage \/ PushStage \/ Eviction

Spec == Init /\ [][Next]_vars

\* Everything the daemon does short of beginning an eviction.
Progress == Boot \/ Cycle \/ DownloadStage \/ CompressStage \/ PushStage
            \/ EvictArchive \/ EvictSidecar \/ Bury

\* systemd restarts the daemon (Restart=on-failure), every stage keeps running,
\* a scan that reads every directory happens again and again, and a retry
\* backoff (at most an hour) expires between scans.
FairSpec == Spec /\ WF_vars(Progress) /\ SF_vars(Scan(TRUE, TRUE, TRUE)) /\ SF_vars(StartDownload)

(***************************************************************************)
(* Properties.                                                             *)
(***************************************************************************)
Steps == {"down", "scan", "discover", "assign", "idle", "download", "admit", "fetch",
          "open", "recv", "verify", "rename", "commitRaw", "compress", "xz", "publish",
          "commitArchive", "sidecar", "unlinkRaw", "dropRaw", "push", "send",
          "unlink", "unlinkSidecar", "bury"}

\* Files and records only ever take values the code can write: in particular no
\* tombstone survives its second absence, and no record names an unknown revision.
TypeOK ==
    /\ rcv \in [rev : Revs, status : {"closed", "active", "absent"}]
    /\ part \in [from : SUBSET Revs, len : Nat] \cup {NoPart}
    /\ raw \in [from : SUBSET Revs, id : Revs] \cup {NoFile}
    /\ archive \in [from : SUBSET Revs, id : 1..Foreign] \cup {NoFile}
    /\ xzPart \in BOOLEAN /\ sidecar \in 0..MaxRev
    /\ saved \in Records /\ mem \in Records
    /\ pc \in Steps /\ seen \in 0..MaxRev
    /\ back \in {"scan", "idle", "download", "compress"}
    /\ todo \subseteq Destinations /\ enabled \subseteq Destinations
    /\ remote \in [Destinations -> SUBSET Revs]
    /\ gone \in [Revs -> -1..2]
    /\ crashes \in Nat /\ failures \in Nat /\ incidents \in Nat

\* A record never vouches for bytes it does not hold: whenever the file on disk
\* has the recorded identity, its content is exactly the recorded source
\* revision, whatever the receiver did during the transfers that produced it.
RecordTruthful ==
    /\ ArchiveReady(saved) => archive.from = {saved.archSrc}
    /\ raw # NoFile /\ raw.id = saved.raw => raw.from = {saved.raw}

\* A verified download is only discarded when its archive is committed and on
\* disk, or when the source has moved on (remove_raw, download_job).
VerifiedRawKept ==
    [][raw # NoFile /\ raw.id = saved.raw /\ raw' = NoFile =>
         \/ mem.expected # raw.id
         \/ saved.archSrc = raw.id /\ ArchiveReady(saved)]_vars

\* Eviction only removes an archive that every enabled target holds, even when
\* the unlink happens at a restart that completes an interrupted eviction.
EvictionDelivered ==
    [][pc = "unlink" /\ archive # NoFile /\ archive' = NoFile =>
         \A d \in enabled : remote[d] = archive.from]_vars

\* An evicted revision is not fetched again until two complete inventories in a
\* row have missed it, across crashes at any point of the eviction.
NoRefetch == [][pc = "open" /\ pc' = "recv" => gone[mem.expected] \in {-1, 2}]_vars

\* What stops the mirror for good: an unmanaged archive that differs from the
\* source, and an eviction intent that is met with another archive at the start.
Stuck ==
    \/ saved.adopt /\ archive # NoFile
    \/ saved.evicting /\ archive.id \notin {None, saved.archive}

\* The receiver's revision is where it belongs.
Mirrored ==
    \/ saved.evicted = rcv.rev
    \/ /\ ArchiveReady(saved) /\ saved.archSrc = rcv.rev /\ Delivered(saved)
       /\ sidecar = rcv.rev /\ raw = NoFile

\* Once the receiver's file is closed and stays, it ends up verified, forwarded
\* and without scratch files, or evicted after that, whatever failed on the way.
Settles == <>[](rcv.status = "closed" => Mirrored \/ Stuck)

=============================================================================
