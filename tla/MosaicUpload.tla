---------------------------- MODULE MosaicUpload ----------------------------
(***************************************************************************)
(* Forwarding one daily file to one FTPS target (mosaic_push.py, upload()):*)
(* SIZE check, resumable STOR under a temporary name, rename, checksum by  *)
(* a second temporary and rename, receipt.  Every FTP command is a step,   *)
(* its reply can be lost after it took effect, and the daemon can crash    *)
(* between any two steps.  The targets of a file are visited one after the *)
(* other and share nothing but the archive, so one target is modelled.     *)
(*                                                                         *)
(* Abstractions.  A revision stands for the archive's identity (size and   *)
(* mtime), its SHA-512 and its bytes; the content of a remote file is the  *)
(* set of revisions that contributed bytes, and its length in blocks.  rec *)
(* is the record in state.json: upload() saves it at each of its changes.  *)
(* A failure's backoff only delays the next attempt and is not modelled.   *)
(***************************************************************************)
EXTENDS Integers

CONSTANTS
    MaxRev,         \* revisions of the archive the mirror may hold in turn
    Size,           \* Size[r]: length of revision r in blocks of one send
    StrangerSizes,  \* lengths of an unrelated file found under the final name
    RestModes,      \* subset of BOOLEAN: servers with and without REST for STOR
    MaxDays,        \* bound on the days that pass
    MaxDamages,     \* bound on the times the user harms the local archive
    MaxFailures,    \* bound on lost connections and refused commands
    MaxCrashes      \* bound on crashes of the daemon

Revs == 1..MaxRev
Foreign == MaxRev + 1
None == 0

ASSUME UploadAssumption ==
    /\ MaxRev \in Nat \ {0}
    /\ Size \in [1..Foreign -> Nat \ {0}]
    /\ StrangerSizes \subseteq Nat
    /\ RestModes \subseteq BOOLEAN /\ MaxDays \in Nat
    /\ MaxDamages \in Nat /\ MaxFailures \in Nat /\ MaxCrashes \in Nat

VARIABLES
    local,    \* what the local archive holds: a revision, Foreign, None if removed
    rec,      \* record in state.json: archive, receipt, pending upload
    pc,       \* next step of the upload
    offset,   \* where this attempt's STOR starts
    stamp,    \* checked_date of this attempt's receipt
    day,      \* UTC day
    rest,     \* the target's server supports REST for STOR
    final,    \* <name>.xz on the target: [from, len], len = -1 if absent
    temp,     \* <name>.xz.ngo-mosaic-push.part on the target
    sum,      \* <name>.sha512 on the target: revision, None if absent
    sumTemp,  \* its temporary: revision, None if absent, Broken if cut short
    damages, failures, crashes,
    \* History, which only the properties read:
    doubt,    \* of "temp" and "final", the files that may hold bytes of another
              \* archive than the one they are taken for
    placed    \* the revision whose publication was last put on record

target == <<rest, final, temp, sum, sumTemp>>
attempt == <<offset, stamp>>
uploadHistory == <<doubt, placed>>
uploadVars == <<local, rec, pc, offset, stamp, day, rest, final, temp, sum, sumTemp,
                damages, failures, crashes, doubt, placed>>

Absent == [from |-> {}, len |-> -1]
Broken == -1
NoReceipt == [archive |-> None, day |-> 0]
NoPending == [id |-> None, published |-> FALSE, noRest |-> FALSE]

\* archive, and the one target's entries in uploads and pending_uploads.
Records == [archive : Revs,
            receipt : [archive : 0..MaxRev, day : 0..MaxDays],
            pending : [id : 0..MaxRev, published : BOOLEAN, noRest : BOOLEAN]]

Contents == [from : SUBSET (1..Foreign), len : Nat] \cup {Absent}

Receipt == [archive |-> rec.archive, day |-> stamp]

\* A mirror that has just compressed revision 1, and a target where an unrelated
\* file may lie under the final name.
UploadInit ==
    /\ local = 1 /\ rec = [archive |-> 1, receipt |-> NoReceipt, pending |-> NoPending]
    /\ pc = "idle" /\ offset = 0 /\ stamp = 0 /\ day = 0
    /\ rest \in RestModes
    /\ final \in {Absent} \cup [from : {{Foreign}}, len : StrangerSizes]
    /\ temp = Absent /\ sum = None /\ sumTemp = None
    /\ damages = 0 /\ failures = 0 /\ crashes = 0
    /\ doubt = {} /\ placed = None

(***************************************************************************)
(* Around the upload.                                                      *)
(***************************************************************************)
\* delivered(): the receipt's date does not count.
Delivered == rec.receipt.archive = rec.archive

\* The receiver's file changed and compress() publishes the next revision.  plan()
\* lets it wait for the delivery of this one, but only while the archive is intact.
Revise ==
    /\ pc = "idle" /\ rec.archive < MaxRev
    /\ Delivered \/ local # rec.archive
    /\ local' = rec.archive + 1 /\ rec' = [rec EXCEPT !.archive = @ + 1]
    /\ UNCHANGED <<pc, attempt, day, target, damages, failures, crashes, uploadHistory>>

\* A harmed archive is downloaded and compressed again: the same content, the same
\* mtime and so the same identity.  Bytes sent of the harmed one become the claim's.
Repair ==
    /\ pc = "idle" /\ local # rec.archive /\ local' = rec.archive
    /\ doubt' = IF Foreign \in temp.from THEN doubt \cup {"temp"} ELSE doubt
    /\ UNCHANGED <<rec, pc, attempt, day, target, damages, failures, crashes, placed>>

NextDay ==
    /\ day < MaxDays /\ day' = day + 1
    /\ UNCHANGED <<local, rec, pc, attempt, target, damages, failures, crashes, uploadHistory>>

\* The user overwrites or removes the local archive, at any moment.
Tamper ==
    /\ local = rec.archive /\ damages < MaxDamages
    /\ local' \in {Foreign, None} /\ damages' = damages + 1
    /\ UNCHANGED <<rec, pc, attempt, day, target, failures, crashes, uploadHistory>>

\* The attempt ends between the saved claim on the temporary and the STOR that
\* would have truncated it, and what lies there is not of the claimed archive.
Unfounded == pc = "stor" /\ offset = 0 /\ ~(temp.from \subseteq {rec.archive})

Doubt == doubt' = IF Unfounded THEN doubt \cup {"temp"} ELSE doubt

Crash ==
    /\ pc # "idle" /\ crashes < MaxCrashes
    /\ pc' = "idle" /\ offset' = 0 /\ stamp' = 0 /\ crashes' = crashes + 1 /\ Doubt
    /\ UNCHANGED <<local, rec, day, target, damages, failures, placed>>

(***************************************************************************)
(* The upload.                                                             *)
(***************************************************************************)
\* An exception ends the attempt; push_file() retries at a later scan.
Abandon == pc' = "idle" /\ offset' = 0 /\ stamp' = 0

\* The receipt is compared with today's, so each target is asked once a day.
Begin ==
    /\ pc = "idle" /\ local = rec.archive
    /\ rec.receipt # [archive |-> rec.archive, day |-> day]
    /\ stamp' = day /\ pc' = "probe"
    /\ UNCHANGED <<local, rec, offset, day, target, damages, failures, crashes, uploadHistory>>

\* Mutant: the published mark is not looked at.
ReplaceUnmarked ==
    \/ final.len # Size[rec.archive]
    \/ rec.receipt.archive \notin {None, rec.archive}

\* Mutant: an equal size is always enough.
ReplaceBySize == final.len # Size[rec.archive]

\* Whether the archive has to be sent: another size, or a known older revision,
\* unless this very archive was already renamed into place.
Replace ==
    \/ final.len # Size[rec.archive]
    \/ /\ rec.receipt.archive \notin {None, rec.archive}
       /\ ~(rec.pending.id = rec.archive /\ rec.pending.published)

\* Mutant: a server without REST is asked again and again.
ResumeInsisting ==
    IF rec.pending.id # rec.archive \/ temp = Absent \/ temp.len > Size[rec.archive] THEN 0
    ELSE temp.len

\* Where the transfer starts: only an owned, plausible partial is resumed.
Resume ==
    IF rec.pending.id # rec.archive \/ temp = Absent \/ rec.pending.noRest
       \/ temp.len > Size[rec.archive]
    THEN 0 ELSE temp.len

\* The final SIZE, then the temporary's; ownership of the temporary is saved.
Probe ==
    /\ pc = "probe" /\ Replace
    /\ offset' = Resume
    /\ rec' = [rec EXCEPT !.pending = [id |-> rec.archive, published |-> FALSE,
                                       noRest |-> rec.pending.noRest]]
    /\ pc' = IF Resume < Size[rec.archive] THEN "stor" ELSE "check"
    /\ UNCHANGED <<local, stamp, day, target, damages, failures, crashes, uploadHistory>>

SkipArchive ==
    /\ pc = "probe" /\ ~Replace /\ pc' = "sum"
    /\ UNCHANGED <<local, rec, attempt, day, target, damages, failures, crashes, uploadHistory>>

\* STOR without REST truncates.
Stored == IF offset = 0 THEN [from |-> {}, len |-> 0] ELSE temp

Stor ==
    /\ pc = "stor" /\ (offset = 0 \/ rest)
    /\ pc' = "data" /\ temp' = Stored
    /\ doubt' = IF offset = 0 THEN doubt \ {"temp"} ELSE doubt
    /\ UNCHANGED <<local, rec, attempt, day, rest, final, sum, sumTemp, damages, failures, crashes, placed>>

\* The server refuses REST; the next attempt starts at zero.
RestRejected ==
    /\ pc = "stor" /\ offset > 0 /\ ~rest
    /\ rec' = [rec EXCEPT !.pending.noRest = TRUE] /\ Abandon
    /\ UNCHANGED <<local, day, target, damages, failures, crashes, uploadHistory>>

\* send() reads the file it opened, also after the user removed the name.
Stream == IF local = None THEN rec.archive ELSE local

Data ==
    /\ pc = "data" /\ temp.len < Size[Stream]
    /\ temp' = [from |-> temp.from \cup {Stream}, len |-> temp.len + 1]
    /\ UNCHANGED <<local, rec, pc, attempt, day, rest, final, sum, sumTemp, damages, failures, crashes, uploadHistory>>

\* 226 from the server; "short": it stored less than it was sent.
Complete(short) ==
    /\ pc = "data" /\ pc' = "check"
    /\ IF short THEN failures < MaxFailures /\ failures' = failures + 1
                ELSE temp.len >= Size[Stream] /\ UNCHANGED failures
    /\ UNCHANGED <<local, rec, attempt, day, target, damages, crashes, uploadHistory>>

\* Mutant: only the SIZE of the temporary is checked.
CheckedSize == temp.len = Size[rec.archive]

Checked == local = rec.archive /\ temp.len = Size[rec.archive]

Check ==
    /\ pc = "check" /\ Checked /\ pc' = "rename"
    /\ UNCHANGED <<local, rec, attempt, day, target, damages, failures, crashes, uploadHistory>>

\* The local archive changed under the transfer, or SIZE disagrees.
Mismatch ==
    /\ \/ pc = "check" /\ ~Checked
       \/ pc = "confirm" /\ final.len # Size[rec.archive]
    /\ Abandon
    /\ UNCHANGED <<local, rec, day, target, damages, failures, crashes, uploadHistory>>

\* RNFR/RNTO take effect; the reply may not arrive.
Rename(lost) ==
    /\ pc = "rename" /\ final' = temp /\ temp' = Absent
    /\ IF lost THEN Abandon /\ failures < MaxFailures /\ failures' = failures + 1
               ELSE pc' = "confirm" /\ UNCHANGED <<attempt, failures>>
    /\ doubt' = IF "temp" \in doubt THEN {"final"} ELSE {}
    /\ UNCHANGED <<local, rec, day, rest, sum, sumTemp, damages, crashes, placed>>

\* Final SIZE; publication is saved apart from the checksum's.
Confirm ==
    /\ pc = "confirm" /\ final.len = Size[rec.archive] /\ pc' = "sum"
    /\ rec' = [rec EXCEPT !.pending.published = TRUE] /\ placed' = rec.archive
    /\ UNCHANGED <<local, attempt, day, target, damages, failures, crashes, doubt>>

\* checksum() refuses a changed archive.
SumRefused ==
    /\ pc = "sum" /\ local # rec.archive /\ Abandon
    /\ UNCHANGED <<local, rec, day, target, damages, failures, crashes, uploadHistory>>

SendSum(lost) ==
    /\ pc = "sum" /\ local = rec.archive
    /\ IF lost THEN Abandon /\ failures < MaxFailures /\ failures' = failures + 1
                    /\ sumTemp' \in {rec.archive, Broken}
               ELSE pc' = "sumRename" /\ sumTemp' = rec.archive
                    /\ UNCHANGED <<attempt, failures>>
    /\ UNCHANGED <<local, rec, day, rest, final, temp, sum, damages, crashes, uploadHistory>>

RenameSum(lost) ==
    /\ pc = "sumRename" /\ sum' = sumTemp /\ sumTemp' = None
    /\ IF lost THEN Abandon /\ failures < MaxFailures /\ failures' = failures + 1
               ELSE pc' = "receipt" /\ UNCHANGED <<attempt, failures>>
    /\ UNCHANGED <<local, rec, day, rest, final, temp, damages, crashes, uploadHistory>>

\* The receipt, then once more without the retry entry.
Settle ==
    /\ pc = "receipt" /\ pc' = "idle" /\ offset' = 0 /\ stamp' = 0
    /\ rec' = [rec EXCEPT !.pending = NoPending, !.receipt = Receipt]
    /\ UNCHANGED <<local, day, target, damages, failures, crashes, uploadHistory>>

\* Connection lost, stall watchdog or refused command before the next effect.
Drop ==
    /\ pc \notin {"idle", "receipt"} /\ failures < MaxFailures
    /\ Abandon /\ failures' = failures + 1 /\ Doubt
    /\ UNCHANGED <<local, rec, day, target, damages, crashes, placed>>

(***************************************************************************)
(* Specification.                                                          *)
(***************************************************************************)
Environment == Revise \/ Repair \/ NextDay \/ Tamper \/ Crash

Upload ==
    \/ Begin \/ Probe \/ SkipArchive \/ Stor \/ Data \/ Complete(FALSE) \/ Check \/ Mismatch
    \/ Confirm \/ SumRefused \/ Settle \/ RestRejected
    \/ Rename(FALSE) \/ SendSum(FALSE) \/ RenameSum(FALSE)

Trouble == Drop \/ Complete(TRUE) \/ Rename(TRUE) \/ SendSum(TRUE) \/ RenameSum(TRUE)

UploadNext == Environment \/ Upload \/ Trouble

UploadSpec == UploadInit /\ [][UploadNext]_uploadVars

\* Every scan queues an undelivered archive again and its backoff is at most an
\* hour; systemd restarts a crashed daemon.
UploadFairSpec == UploadSpec /\ WF_uploadVars(Upload)

(***************************************************************************)
(* Properties.                                                             *)
(***************************************************************************)
\* The record and the target keep their types: a resume offset is never negative
\* and no partial, torn or unknown checksum is renamed into place.
UploadTypeOK ==
    /\ local \in {None} \cup 1..Foreign /\ rec \in Records
    /\ pc \in {"idle", "probe", "stor", "data", "check", "rename", "confirm", "sum",
               "sumRename", "receipt"}
    /\ offset \in Nat /\ stamp \in 0..MaxDays /\ day \in 0..MaxDays
    /\ rest \in BOOLEAN /\ final \in Contents /\ temp \in Contents
    /\ sum \in 0..MaxRev /\ sumTemp \in {Broken} \cup 0..MaxRev
    /\ damages \in Nat /\ failures \in Nat /\ crashes \in Nat
    /\ doubt \subseteq {"temp", "final"} /\ placed \in 0..MaxRev

Whole(file, r) == file = [from |-> {r}, len |-> Size[r]]

\* The final name never shows a mixture, a torn prefix, or the bytes of an archive
\* that was changed while it was being sent: each attempt's resume decision,
\* the size checks and the rename together see to it across every loss and crash.
Untorn ==
    \/ final = Absent
    \/ final.from = {Foreign} /\ final.len \in StrangerSizes
    \/ \E r \in Revs : Whole(final, r)

\* Untorn, unless the partial that was renamed had come by its claim in one of two
\* ways: its own claim was saved but not acted upon, or the archive it is of was
\* harmed while it was sent and rebuilt with the identity it had.
PublishedWhole == "final" \in doubt \/ Untorn

\* What the mirror tells the rest of the system, and on which eviction relies:
\* the target moves from whole revision to whole revision, archive before
\* checksum, and is only acknowledged with both in place.
Delivery == INSTANCE MosaicDelivery WITH
    want <- rec.archive,
    shown <- IF \E r \in Revs : Whole(final, r) THEN CHOOSE r \in Revs : Whole(final, r) ELSE 0,
    length <- final.len,
    sum <- sum,
    acked <- rec.receipt.archive,
    harmed <- damages > 0

ImplementsDelivery == Delivery!Spec

\* Once a publication is on record the archive is not sent again, through lost
\* checksums, crashes, later days and repairs, until there is a new revision ("so
\* a checksum retry does not retransmit the xz").
SentOnce ==
    [][placed = rec.archive /\ rec'.archive = rec.archive => UNCHANGED <<final, temp>>]_uploadVars

\* Each archive reaches the target and is acknowledged, with a server that
\* refuses REST, after oversized partials, lost replies and crashes; only an
\* archive the user harmed may never be.
Delivers == <>[](Delivered \/ local # rec.archive)

=============================================================================
