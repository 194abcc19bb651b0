------------------------- MODULE MosaicArchiveProofs -------------------------
(***************************************************************************)
(* What the runs of MosaicArchive show on small instances, proved for any  *)
(* number of revisions, sizes, targets and crashes, under every fault of   *)
(* the module that a theorem does not exclude.                             *)
(***************************************************************************)
EXTENDS MosaicArchive, TLAPS

\* Bytes of the partial file come from the revision saved for it or a later one.
PartInv ==
    /\ part.from \subseteq saved.partial..rcv.rev
    /\ part.len > 0 => part.from # {}

\* A raw file is only created from a verified part; an archive with the
\* identity of a revision is only created from such a raw file.
FileInv ==
    /\ raw # NoFile => raw.from = {raw.id}
    /\ archive.id \in Revs => archive.from = {archive.id}

\* The record names the revision of an archive the mirror wrote, and the
\* content of one it adopted.
RecordInv ==
    /\ saved.archive \in Revs => saved.archSrc = saved.archive
    /\ saved.archive = Foreign /\ archive.id = Foreign => archive.from = {saved.archSrc}

\* The job's copy of the record agrees with the saved one, except that the
\* download stage may have dropped a superseded raw copy from it.
Outside == {"down", "scan", "discover", "assign", "idle"}
Evicting == {"unlink", "unlinkSidecar", "bury"}
Fetching == {"admit", "fetch", "open", "recv", "verify", "rename", "commitRaw"}
WithRecord == Steps \ (Outside \cup Evicting)
Resumable == pc \in Evicting /\ back \in {"download", "compress"}

MemInv ==
    /\ pc \in {"down", "scan", "discover", "assign"} => mem = Blank
    /\ pc \in Evicting /\ back = "scan" => mem = Blank
    /\ (pc \in WithRecord \/ Resumable) => mem.known
    /\ mem.known => /\ mem.archive = saved.archive /\ mem.archSrc = saved.archSrc
                    /\ mem.partial = saved.partial
    /\ pc \in WithRecord \ Fetching \/ Resumable => mem.raw = saved.raw

\* What each step of a job has already established.
StepInv ==
    /\ pc \in {"download"} \cup Fetching \/ (pc \in Evicting /\ back = "download")
         => mem.expected \in Revs
    /\ pc \in {"compress", "xz", "publish", "commitArchive"} \/ (pc \in Evicting /\ back = "compress")
         => mem.raw \in Revs
    /\ pc \in {"open", "recv", "verify", "rename"} => mem.partial = mem.expected
    /\ pc = "recv" => part # NoPart
    /\ pc = "rename" => part # NoPart /\ part.from = {mem.expected}
    /\ pc = "commitRaw" => raw.id = mem.expected /\ part = NoPart
    /\ pc = "publish" => raw.id = mem.raw
    /\ pc = "commitArchive" => archive.id = mem.raw
    /\ pc = "sidecar" => mem.archSrc = mem.raw
    /\ pc = "unlinkRaw" => mem.archSrc = mem.raw /\ ArchiveReady(mem)
    /\ pc = "assign" /\ seen # None => saved.known /\ saved.expected = seen

IInv == TypeOK /\ PartInv /\ FileInv /\ RecordInv /\ MemInv /\ StepInv
(***************************************************************************)
(* Type correctness.                                                       *)
(***************************************************************************)
USE DEF None

LEMMA BlankTyped == Blank \in Records
  BY ConstantsAssumption DEF ConstantsAssumption, Blank, Records, Foreign

\* Updating several fields of a record within their types gives a record.
LEMMA PartialUpdate ==
  ASSUME NEW r \in Records, NEW v \in 0..MaxRev, NEW b \in BOOLEAN
  PROVE  [r EXCEPT !.partial = v, !.noRest = b] \in Records
  BY DEF Records

LEMMA FieldUpdate ==
  ASSUME NEW r \in Records, NEW v \in 0..MaxRev
  PROVE  /\ [r EXCEPT !.retry = r.expected] \in Records
         /\ [r EXCEPT !.partial = v] \in Records
         /\ [r EXCEPT !.noRest = TRUE] \in Records
         /\ [r EXCEPT !.retry = v] \in Records
         /\ [r EXCEPT !.raw = v] \in Records
         /\ [r EXCEPT !.expected = v] \in Records
  BY DEF Records

LEMMA RawUpdate ==
  ASSUME NEW r \in Records, NEW v \in 0..MaxRev, NEW w \in 0..MaxRev, NEW x \in 0..MaxRev
  PROVE  [r EXCEPT !.raw = v, !.partial = w, !.retry = x] \in Records
  BY DEF Records

LEMMA ArchiveUpdate ==
  ASSUME NEW r \in Records, NEW a \in 0..Foreign, NEW v \in 0..MaxRev, NEW b \in BOOLEAN
  PROVE  [r EXCEPT !.archive = a, !.archSrc = v, !.adopt = b] \in Records
  BY DEF Records

LEMMA EvictedUpdate ==
  ASSUME NEW r \in Records, NEW v \in 0..MaxRev, NEW c \in 0..1
  PROVE  /\ [r EXCEPT !.evicted = v, !.absent = c] \in Records
         /\ [r EXCEPT !.absent = c] \in Records
  BY DEF Records

\* What the tombstone being lifted leaves alone.
LEMMA LiftedFields ==
  ASSUME NEW r \in Records, NEW q, q = [r EXCEPT !.evicted = None, !.absent = 0]
  PROVE  /\ q.archive = r.archive /\ q.archSrc = r.archSrc
         /\ q.partial = r.partial /\ q.raw = r.raw
         /\ q.expected = r.expected /\ q.known = r.known
  BY DEF Records

\* What the download stage's saves leave alone.
LEMMA FetchedFields ==
  ASSUME NEW r \in Records, NEW q, NEW v,
         q = [r EXCEPT !.raw = v, !.partial = None, !.retry = None]
  PROVE  q.archive = r.archive /\ q.archSrc = r.archSrc /\ q.raw = v
  BY DEF Records

\* What a fresh partial's save leaves alone.
LEMMA PartialFields ==
  ASSUME NEW r \in Records, NEW q,
         q = [r EXCEPT !.partial = r.expected, !.noRest = FALSE]
  PROVE  /\ q.archive = r.archive /\ q.archSrc = r.archSrc
         /\ q.partial = r.expected /\ q.expected = r.expected
         /\ q.raw = r.raw /\ q.known = r.known /\ q.noRest = FALSE
  BY DEF Records

LEMMA RecordFields ==
  ASSUME NEW r \in Records
  PROVE  /\ r.expected \in 0..MaxRev /\ r.partial \in 0..MaxRev /\ r.raw \in 0..MaxRev
         /\ r.archive \in 0..Foreign /\ r.archSrc \in 0..MaxRev /\ r.absent \in 0..1
         /\ r.evicted \in 0..MaxRev /\ None \in 0..MaxRev /\ 0 \in 0..1
         /\ r.uploads \in [Destinations -> (0..Foreign) \X (0..MaxRev)]
  BY ConstantsAssumption DEF Records, ConstantsAssumption

\* Every action keeps every variable in its type; a job that reads or writes
\* file contents needs StepInv for the revision it works on.
LEMMA TypeStep == TypeOK /\ StepInv /\ [Next]_vars => TypeOK'
<1> SUFFICES ASSUME TypeOK, StepInv, [Next]_vars PROVE TypeOK'
  OBVIOUS
<1> USE ConstantsAssumption DEF ConstantsAssumption
<1>1. CASE Reopen
  BY <1>1 DEF Reopen, TypeOK, Steps, disk, budget
<1>2. CASE Close
  BY <1>2 DEF Close, TypeOK, Steps, disk, budget, Revs
<1>3. CASE Expire
  BY <1>3 DEF Expire, TypeOK, Steps, disk, budget
<1>4. CASE Reappear
  BY <1>4 DEF Reappear, TypeOK, Steps, disk, budget
<1>5. CASE UserDelete
  BY <1>5 DEF UserDelete, TypeOK, Steps, disk, budget
<1>6. CASE UserPlace
  BY <1>6 DEF UserPlace, TypeOK, Steps, disk, budget, Foreign, Revs
<1>7. CASE Crash
  <2>1. saved' \in Records /\ mem' \in Records
    BY <1>7, BlankTyped DEF Crash, TypeOK, Records
  <2> QED
    BY <1>7, <2>1 DEF Crash, TypeOK, Steps, disk, budget
<1>8. CASE Boot
  BY <1>8 DEF Boot, TypeOK, Steps, disk, budget
<1>9. CASE Discover
  <2>1. saved' \in Records /\ mem' \in Records
    BY <1>9, BlankTyped DEF Discover, TypeOK, NewRecord, Records
  <2> QED
    BY <1>9, <2>1 DEF Discover, TypeOK, Steps, disk, budget
<1>10. CASE Assign
  <2>1. saved \in Records /\ mem \in Records
    BY DEF TypeOK
  <2>2. [saved EXCEPT !.evicted = None, !.absent = 0] \in Records
    BY <2>1, RecordFields, EvictedUpdate
  <2>3. saved' \in Records /\ mem' \in Records
    BY <1>10, <2>1, <2>2 DEF Assign, Save
  <2> QED
    BY <1>10, <2>3 DEF Assign, TypeOK, Steps, disk, budget, StageOf
<1>11. CASE Again
  <2>1. saved' \in Records /\ mem' \in Records
    BY <1>11, BlankTyped DEF Again, TypeOK, Records
  <2> QED
    BY <1>11, <2>1 DEF Again, TypeOK, Steps, disk, budget
<1>12. CASE Defer
  BY <1>12 DEF Defer, TypeOK, Steps, disk, budget
<1>13. CASE StartDownload
  <2>1. saved' \in Records /\ mem' \in Records
    <3>1. saved \in Records /\ mem \in Records
      BY DEF TypeOK
    <3>2. [mem EXCEPT !.raw = None] \in Records
      BY <3>1, RecordFields, FieldUpdate
    <3> QED
      BY <1>13, <3>1, <3>2 DEF StartDownload
  <2> QED
    BY <1>13, <2>1 DEF StartDownload, TypeOK, Steps, disk, budget
<1>14. CASE Admit
  BY <1>14 DEF Admit, TypeOK, Steps, disk, budget
<1>15. CASE Block
  BY <1>15 DEF Block, TypeOK, Steps, disk, budget
<1>16. CASE FetchKept
  <2>1. saved' \in Records /\ mem' \in Records
    BY <1>16, RecordFields, FieldUpdate DEF FetchKept, TypeOK, Save
  <2> QED
    BY <1>16, <2>1 DEF FetchKept, TypeOK, Steps, disk, budget, Save
<1>17. CASE FetchPartial
  <2>1. saved \in Records /\ mem \in Records
    BY DEF TypeOK
  <2>2. [mem EXCEPT !.partial = mem.expected, !.noRest = FALSE] \in Records
    BY <2>1, RecordFields, PartialUpdate
  <2>3. saved' \in Records /\ mem' \in Records
    BY <1>17, <2>1, <2>2 DEF FetchPartial, Save
  <2> QED
    BY <1>17, <2>3 DEF FetchPartial, TypeOK, Steps, disk, budget, NoPart
<1>18. CASE Open
  BY <1>18 DEF Open, TypeOK, Steps, disk, budget, NoPart
<1>19. CASE RestRejected
  <2>1. saved' \in Records /\ mem' \in Records
    BY <1>19 DEF RestRejected, TypeOK, FailDownload, Save, Records
  <2> QED
    BY <1>19, <2>1 DEF RestRejected, TypeOK, Steps, disk, budget, FailDownload
<1>20. CASE Recv
  <2>1. part' \in [from : SUBSET Revs, len : Nat]
    <3>1. part.from \subseteq Revs /\ part.len + 1 \in Nat /\ mem.expected \in Revs /\ rcv.rev \in Revs
      BY <1>20 DEF TypeOK, NoPart, StepInv, Fetching, Recv
    <3>2. PICK r \in Served : part' = [from |-> part.from \cup {r}, len |-> part.len + 1]
      BY <1>20 DEF Recv
    <3>3. r \in Revs
      BY <3>1, <3>2 DEF Served, Revs
    <3> QED
      BY <3>1, <3>2, <3>3
  <2> QED
    BY <1>20, <2>1 DEF Recv, TypeOK, Steps, disk, budget
<1>21. CASE Overflow
  <2>1. [mem EXCEPT !.partial = None] \in Records
    BY RecordFields, FieldUpdate DEF TypeOK
  <2>2. [[mem EXCEPT !.partial = None] EXCEPT !.retry = [mem EXCEPT !.partial = None].expected] \in Records
    <3> DEFINE rr == [mem EXCEPT !.partial = None]
    <3>1. rr \in Records
      BY <2>1
    <3> HIDE DEF rr
    <3>2. [rr EXCEPT !.retry = rr.expected] \in Records
      BY <3>1, RecordFields, FieldUpdate
    <3> QED
      BY <3>2 DEF rr
  <2>3. saved' \in Records /\ mem' \in Records
    BY <1>21, <2>2 DEF Overflow, FailDownload, Save
  <2> QED
    BY <1>21, <2>3 DEF Overflow, TypeOK, Steps, disk, budget, FailDownload
<1>22. CASE Eof
  BY <1>22 DEF Eof, TypeOK, Steps, disk, budget
<1>23. CASE Drop
  <2>1. saved' \in Records /\ mem' \in Records
    BY <1>23, RecordFields, FieldUpdate DEF Drop, TypeOK, FailDownload, Save
  <2> QED
    BY <1>23, <2>1 DEF Drop, TypeOK, Steps, disk, budget, FailDownload
<1>24. CASE Verify
  BY <1>24 DEF Verify, TypeOK, Steps, disk, budget
<1>25. CASE SourceChanged
  <2>1. saved' \in Records /\ mem' \in Records
    BY <1>25, RecordFields, FieldUpdate DEF SourceChanged, TypeOK, FailDownload, Save
  <2> QED
    BY <1>25, <2>1 DEF SourceChanged, TypeOK, Steps, disk, budget, FailDownload
<1>26. CASE RenameRaw
  <2>1. raw' \in [from : SUBSET Revs, id : Revs]
    <3>1. part.from \subseteq Revs /\ mem.expected \in Revs
      BY <1>26 DEF TypeOK, NoPart, StepInv, Fetching, RenameRaw
    <3> QED
      BY <1>26, <3>1 DEF RenameRaw
  <2> QED
    BY <1>26, <2>1 DEF RenameRaw, TypeOK, Steps, disk, budget
<1>27. CASE CommitRaw
  <2>1. saved' \in Records /\ mem' \in Records
    BY <1>27, RecordFields, RawUpdate DEF CommitRaw, TypeOK, Save
  <2> QED
    BY <1>27, <2>1 DEF CommitRaw, TypeOK, Steps, disk, budget
<1>28. CASE SkipXz
  BY <1>28 DEF SkipXz, TypeOK, Steps, disk, budget
<1>29. CASE RefuseXz
  BY <1>29 DEF RefuseXz, TypeOK, Steps, disk, budget
<1>30. CASE Adopt
  <2>1. archive.id \in 0..Foreign /\ mem \in Records
    BY DEF TypeOK, Foreign, NoFile
  <2>2. saved' \in Records /\ mem' \in Records
    BY <1>30, <2>1, RecordFields, ArchiveUpdate DEF Adopt, CommitArchive, Save
  <2> QED
    BY <1>30, <2>2 DEF Adopt, TypeOK, Steps, disk, budget, CommitArchive
<1>31. CASE StartXz
  <2>1. xzPart' \in BOOLEAN
    BY <1>31, Zenon DEF StartXz
  <2> QED
    BY <1>31, <2>1 DEF StartXz, TypeOK, Steps, disk, budget
<1>32. CASE FailXz
  <2>1. xzPart' \in BOOLEAN
    BY <1>32, Zenon DEF FailXz
  <2> QED
    BY <1>32, <2>1 DEF FailXz, TypeOK, Steps, disk, budget
<1>33. CASE Publish
  <2>1. archive' \in [from : SUBSET Revs, id : 1..Foreign]
    <3>1. raw.from \subseteq Revs /\ mem.raw \in Revs
      BY <1>33 DEF TypeOK, NoFile, StepInv, Publish
    <3> QED
      BY <1>33, <3>1 DEF Publish, Revs, Foreign
  <2>2. xzPart' \in BOOLEAN
    BY <1>33, Zenon DEF Publish
  <2> QED
    BY <1>33, <2>1, <2>2 DEF Publish, TypeOK, Steps, disk, budget
<1>34. CASE CommitPublished
  <2>1. mem.raw \in 0..Foreign /\ mem \in Records
    BY RecordFields DEF TypeOK, Foreign
  <2>2. saved' \in Records /\ mem' \in Records
    BY <1>34, <2>1, RecordFields, ArchiveUpdate DEF CommitPublished, CommitArchive, Save
  <2> QED
    BY <1>34, <2>2 DEF CommitPublished, TypeOK, Steps, disk, budget, CommitArchive
<1>35. CASE Sidecar
  BY <1>35 DEF Sidecar, TypeOK, Steps, disk, budget, Records
<1>36. CASE FailSidecar
  BY <1>36 DEF FailSidecar, TypeOK, Steps, disk, budget
<1>37. CASE UnlinkRaw
  BY <1>37 DEF UnlinkRaw, TypeOK, Steps, disk, budget
<1>38. CASE DropRaw
  <2>1. saved' \in Records /\ mem' \in Records
    BY <1>38, RecordFields, FieldUpdate DEF DropRaw, TypeOK, Save
  <2> QED
    BY <1>38, <2>1 DEF DropRaw, TypeOK, Steps, disk, budget
<1>39. CASE StartPush
  BY <1>39 DEF StartPush, TypeOK, Steps, disk, budget, Records
<1>40. CASE EndPush
  BY <1>40 DEF EndPush, TypeOK, Steps, disk, budget
<1>41. CASE EvictBegin
  <2>1. saved' \in Records /\ mem' \in Records
    BY <1>41 DEF EvictBegin, TypeOK, Records
  <2> QED
    BY <1>41, <2>1 DEF EvictBegin, TypeOK, Steps, disk, budget
<1>42. CASE EvictRefuse
  BY <1>42 DEF EvictRefuse, TypeOK, Steps, disk, budget, EvictAborted
<1>43. CASE EvictError
  BY <1>43 DEF EvictError, TypeOK, Steps, disk, budget, EvictAborted
<1>44. CASE EvictArchive
  <2>1. gone' \in [Revs -> -1..2]
    <3>1. gone[saved.archSrc] \in -1..2 \/ saved.archSrc \notin Revs
      BY DEF TypeOK
    <3>2. 0 \in -1..2
      OBVIOUS
    <3> QED
      BY <1>44, <3>1, <3>2 DEF EvictArchive, TypeOK
  <2> QED
    BY <1>44, <2>1 DEF EvictArchive, TypeOK, Steps, disk, budget
<1>45. CASE EvictSidecar
  BY <1>45 DEF EvictSidecar, TypeOK, Steps, disk, budget
<1>46. CASE Bury
  <2>1. saved' \in Records /\ mem' \in Records
    BY <1>46 DEF Bury, TypeOK, Records
  <2> QED
    BY <1>46, <2>1 DEF Bury, TypeOK, Steps, disk, budget
<1>47. ASSUME NEW eligible \in BOOLEAN, NEW ok \in BOOLEAN, NEW complete \in BOOLEAN,
             Scan(eligible, ok, complete)
      PROVE  TypeOK'
  <2>1. saved' \in Records
    <3>1. saved \in Records /\ Blank \in Records
      BY BlankTyped DEF TypeOK
    <3>2. \A c \in 0..1 : [saved EXCEPT !.absent = c] \in Records
      BY <3>1, RecordFields, EvictedUpdate
    <3>3. saved.absent \in 0..1
      BY <3>1, RecordFields
    <3> DEFINE absent == IF rcv.status # "absent" THEN 0 ELSE saved.absent + 1
    <3>4. \/ saved' = saved \/ saved' = Blank
          \/ absent < 2 /\ saved' = [saved EXCEPT !.absent = absent]
      BY <1>47 DEF Scan, CollectAfter
    <3>5. absent < 2 => absent \in 0..1
      BY <3>3
    <3> QED
      BY <3>1, <3>2, <3>4, <3>5
  <2>2. gone' \in [Revs -> -1..2]
    BY <1>47 DEF Scan, TypeOK
  <2> QED
    BY <1>47, <2>1, <2>2 DEF Scan, TypeOK, Steps, disk, budget, Revs
<1>48. ASSUME NEW d \in Destinations, Send(d) PROVE TypeOK'
  <2>1. saved' \in Records /\ mem' \in Records
    BY <1>48 DEF Send, Save, TypeOK, Records
  <2>2. remote' \in [Destinations -> SUBSET Revs]
    BY <1>48 DEF Send, TypeOK, NoFile
  <2> QED
    BY <1>48, <2>1, <2>2 DEF Send, TypeOK, Steps, disk, budget
<1>49. ASSUME NEW d \in Destinations, FailSend(d) PROVE TypeOK'
  BY <1>49 DEF FailSend, TypeOK, Steps, disk, budget
<1>50. CASE UNCHANGED vars
  BY <1>50 DEF vars, TypeOK, Steps, disk, budget
<1> QED
  BY <1>1, <1>2, <1>3, <1>4, <1>5, <1>6, <1>7, <1>8, <1>9, <1>10, <1>11, <1>12, <1>13, <1>14, <1>15, <1>16, <1>17, <1>18, <1>19, <1>20, <1>21, <1>22, <1>23, <1>24, <1>25, <1>26, <1>27, <1>28, <1>29, <1>30, <1>31, <1>32, <1>33, <1>34, <1>35, <1>36, <1>37, <1>38, <1>39, <1>40, <1>41, <1>42, <1>43, <1>44, <1>45, <1>46, <1>47, <1>48, <1>49, <1>50
  DEF Next, Environment, Cycle, DownloadStage, CompressStage, PushStage, Eviction

(***************************************************************************)
(* The inductive invariant, one conjunct at a time.                        *)
(***************************************************************************)
\* A job saves its own copy of the record: what it did not change is as saved.
LEMMA PartStep == IInv /\ [Next]_vars => PartInv'
<1> SUFFICES ASSUME IInv, [Next]_vars PROVE PartInv'
  OBVIOUS
<1> USE ConstantsAssumption DEF ConstantsAssumption
<1>0. /\ saved.partial \in 0..MaxRev /\ mem.partial \in 0..MaxRev /\ mem.expected \in 0..MaxRev
      /\ rcv.rev \in Revs /\ rcv.rev \in Nat /\ NoPart.from = {} /\ NoPart.len = -1
      /\ mem.known => mem.partial = saved.partial
      /\ PartInv /\ part.len \in Nat \cup {-1}
  BY RecordFields DEF IInv, TypeOK, MemInv, Revs, NoPart
<1>1. ASSUME part' = part, saved'.partial = saved.partial, rcv'.rev \in Nat, rcv'.rev >= rcv.rev
      PROVE  PartInv'
  BY <1>0, <1>1 DEF PartInv
<1>2. ASSUME part' = NoPart PROVE PartInv'
  BY <1>0, <1>2 DEF PartInv
<1>3. CASE Reopen \/ Close \/ Expire \/ Reappear
  <2>1. rcv'.rev = rcv.rev \/ rcv'.rev = rcv.rev + 1
    BY <1>3 DEF Reopen, Close, Expire, Reappear, IInv, TypeOK
  <2>2. part' = part /\ saved' = saved
    BY <1>3 DEF Reopen, Close, Expire, Reappear, disk
  <2> QED
    BY <1>0, <1>1, <2>1, <2>2
<1>4. CASE UserDelete \/ UserPlace \/ Crash \/ Boot \/ Again
  BY <1>0, <1>1, <1>4 DEF UserDelete, UserPlace, Crash, Boot, Again, disk, budget
<1>5. ASSUME NEW eligible \in BOOLEAN, NEW ok \in BOOLEAN, NEW complete \in BOOLEAN,
             Scan(eligible, ok, complete)
      PROVE  PartInv'
  <2>1. CASE saved'.partial = saved.partial
    BY <1>0, <1>1, <1>5, <2>1 DEF Scan, disk, budget
  <2>2. CASE saved'.partial # saved.partial
    <3>1. ~JobFiles
      BY <1>5, <2>2 DEF Scan
    <3> QED
      BY <1>0, <1>2, <1>5, <3>1 DEF Scan, JobFiles, disk
  <2> QED
    BY <2>1, <2>2
<1>6. CASE Discover
  <2>1. saved'.partial = saved.partial \/ saved'.partial = None
    BY <1>6 DEF Discover, NewRecord, Blank, IInv, TypeOK, Records
  <2> QED
    BY <1>0, <1>1, <1>6, <2>1 DEF Discover, disk, budget, PartInv
<1>7. CASE Assign
  <2>1. saved'.partial = saved.partial
    <3>1. saved' = saved \/ saved' = [saved EXCEPT !.evicted = None, !.absent = 0]
      BY <1>7 DEF Assign, Save
    <3>2. saved \in Records
      BY DEF IInv, TypeOK
    <3> QED
      BY <3>1, <3>2, LiftedFields
  <2> QED
    BY <1>0, <1>1, <1>7, <2>1 DEF Assign, disk, budget
<1>8. CASE Defer \/ Admit \/ Block \/ Eof \/ Verify
  BY <1>0, <1>1, <1>8 DEF Defer, Admit, Block, Eof, Verify, disk, budget
<1>9. CASE StartDownload
  BY <1>0, <1>1, <1>2, <1>9 DEF StartDownload, budget
<1>10. CASE FetchKept \/ RestRejected \/ Drop \/ SourceChanged
  <2>1. mem.known
    BY <1>10 DEF IInv, MemInv, WithRecord, Steps, Outside, Evicting, FetchKept, RestRejected, Drop, SourceChanged
  <2>2. saved'.partial = mem.partial
    <3>1. mem \in Records
      BY DEF IInv, TypeOK
    <3> QED
      BY <1>10, <3>1 DEF FetchKept, RestRejected, Drop, SourceChanged, FailDownload, Save, Records
  <2> QED
    BY <1>0, <1>1, <1>10, <2>1, <2>2 DEF FetchKept, RestRejected, Drop, SourceChanged, disk, budget
<1>11. CASE FetchPartial
  <2>1. CASE part' = NoPart
    BY <1>2, <2>1
  <2>2. CASE part' # NoPart
    BY <1>0, <1>1, <1>11, <2>2 DEF FetchPartial
  <2> QED
    BY <2>1, <2>2
<1>12. CASE Open
  BY <1>0, <1>1, <1>12 DEF Open, PartInv
<1>13. CASE Recv
  <2>1. mem.known /\ mem.expected = mem.partial /\ mem.expected \in Revs
    BY <1>13 DEF IInv, MemInv, StepInv, WithRecord, Steps, Outside, Evicting, Fetching, Recv
  <2>2. PICK r \in Served : part' = [from |-> part.from \cup {r}, len |-> part.len + 1]
    BY <1>13 DEF Recv
  <2>3. r \in saved.partial..rcv.rev
    BY <1>0, <2>1, <2>2 DEF Served
  <2>4. UNCHANGED <<saved, rcv>>
    BY <1>13 DEF Recv
  <2> QED
    BY <1>0, <2>2, <2>3, <2>4 DEF PartInv
<1>14. CASE Overflow \/ RenameRaw
  BY <1>2, <1>14 DEF Overflow, RenameRaw
<1>15. CASE CommitRaw
  <2>1. part = NoPart
    BY <1>15 DEF CommitRaw, IInv, StepInv
  <2> QED
    BY <1>2, <1>15, <2>1 DEF CommitRaw, disk
<1>16. CASE SkipXz \/ RefuseXz \/ StartXz \/ FailXz \/ Publish \/ Sidecar \/ FailSidecar \/ UnlinkRaw
  BY <1>0, <1>1, <1>16 DEF SkipXz, RefuseXz, StartXz, FailXz, Publish, Sidecar, FailSidecar, UnlinkRaw, disk, budget
<1>17. CASE Adopt \/ CommitPublished \/ DropRaw
  <2>1. mem.known
    BY <1>17 DEF IInv, MemInv, WithRecord, Steps, Outside, Evicting, Adopt, CommitPublished, DropRaw
  <2>2. saved'.partial = mem.partial
    <3>1. mem \in Records
      BY DEF IInv, TypeOK
    <3> QED
      BY <1>17, <3>1 DEF Adopt, CommitPublished, DropRaw, CommitArchive, Save, Records
  <2> QED
    BY <1>0, <1>1, <1>17, <2>1, <2>2 DEF Adopt, CommitPublished, DropRaw, disk, budget
<1>18. CASE StartPush \/ EndPush \/ \E d \in Destinations : FailSend(d)
  BY <1>0, <1>1, <1>18 DEF StartPush, EndPush, FailSend, disk, budget
<1>19. ASSUME NEW d \in Destinations, Send(d) PROVE PartInv'
  <2>1. mem.known
    BY <1>19 DEF IInv, MemInv, WithRecord, Steps, Outside, Evicting, Send
  <2>2. saved'.partial = mem.partial
    BY <1>19 DEF Send, Save, IInv, TypeOK, Records
  <2> QED
    BY <1>0, <1>1, <1>19, <2>1, <2>2 DEF Send, disk, budget
<1>20. CASE Eviction
  <2>1. saved'.partial = saved.partial
    <3>1. saved \in Records
      BY DEF IInv, TypeOK
    <3> QED
      BY <1>20, <3>1 DEF Eviction, EvictBegin, EvictRefuse, EvictError, EvictArchive, EvictSidecar, Bury, Records
  <2> QED
    BY <1>0, <1>1, <1>20, <2>1
    DEF Eviction, EvictBegin, EvictRefuse, EvictError, EvictArchive, EvictSidecar, Bury, disk, budget
<1>21. CASE UNCHANGED vars
  BY <1>0, <1>1, <1>21 DEF vars
<1> QED
  BY <1>3, <1>4, <1>5, <1>6, <1>7, <1>8, <1>9, <1>10, <1>11, <1>12, <1>13, <1>14, <1>15, <1>16,
     <1>17, <1>18, <1>19, <1>20, <1>21
  DEF Next, Environment, Cycle, DownloadStage, CompressStage, PushStage

\* Raw files and archives are only written from verified content.
LEMMA FileStep == IInv /\ [Next]_vars => FileInv'
<1> SUFFICES ASSUME IInv, [Next]_vars PROVE FileInv'
  OBVIOUS
<1> USE ConstantsAssumption DEF ConstantsAssumption
<1>0. FileInv /\ TypeOK /\ StepInv
  BY DEF IInv
<1>1. ASSUME raw' = raw, archive' = archive PROVE FileInv'
  BY <1>0, <1>1 DEF FileInv
<1>2. CASE StartDownload \/ UnlinkRaw
  BY <1>0, <1>2 DEF StartDownload, UnlinkRaw, FileInv
<1>3. CASE RenameRaw
  BY <1>0, <1>3 DEF RenameRaw, StepInv, FileInv
<1>4. CASE UserDelete \/ UserPlace \/ EvictArchive
  <2>1. raw' = raw /\ (archive' = archive \/ archive'.id \in {None, Foreign})
    BY <1>4 DEF UserDelete, UserPlace, EvictArchive, NoFile
  <2>2. None \notin Revs /\ Foreign \notin Revs
    BY DEF Revs, Foreign
  <2> QED
    BY <1>0, <2>1, <2>2 DEF FileInv
<1>5. CASE Publish
  <2>1. raw.from = {mem.raw} /\ mem.raw \in Revs
    <3>1. raw.id = mem.raw /\ mem.raw \in Revs
      BY <1>0, <1>5 DEF StepInv, Publish
    <3>2. raw # NoFile
      BY <3>1 DEF NoFile, Revs
    <3> QED
      BY <1>0, <3>1, <3>2 DEF FileInv
  <2>2. raw' = raw /\ archive' = [from |-> raw.from, id |-> mem.raw]
    BY <1>5 DEF Publish
  <2> QED
    BY <1>0, <2>1, <2>2 DEF FileInv
<1>6. ASSUME NEW eligible \in BOOLEAN, NEW ok \in BOOLEAN, NEW complete \in BOOLEAN,
             Scan(eligible, ok, complete)
      PROVE  FileInv'
  BY <1>1, <1>6 DEF Scan, disk
<1>7. CASE Reopen \/ Close \/ Expire \/ Reappear \/ Crash \/ Boot \/ Discover \/ Assign \/ Again
  BY <1>1, <1>7 DEF Reopen, Close, Expire, Reappear, Crash, Boot, Discover, Assign, Again, disk
<1>8. CASE Defer \/ Admit \/ Block \/ FetchKept \/ FetchPartial \/ Open \/ RestRejected
           \/ Recv \/ Overflow \/ Eof \/ Drop \/ Verify \/ SourceChanged \/ CommitRaw
  BY <1>1, <1>8 DEF Defer, Admit, Block, FetchKept, FetchPartial, Open, RestRejected, Recv, Overflow, Eof, Drop, Verify, SourceChanged, CommitRaw, disk
<1>9. CASE SkipXz \/ RefuseXz \/ Adopt \/ StartXz \/ FailXz \/ CommitPublished \/ Sidecar \/ FailSidecar
           \/ DropRaw \/ StartPush \/ EndPush \/ EvictBegin \/ EvictRefuse \/ EvictError \/ EvictSidecar \/ Bury
  BY <1>1, <1>9 DEF SkipXz, RefuseXz, Adopt, StartXz, FailXz, CommitPublished, Sidecar, FailSidecar, DropRaw, StartPush, EndPush, EvictBegin, EvictRefuse, EvictError, EvictSidecar, Bury, disk
<1>10. CASE \E d \in Destinations : Send(d) \/ FailSend(d)
  BY <1>1, <1>10 DEF Send, FailSend, disk
<1>11. CASE UNCHANGED vars
  BY <1>1, <1>11 DEF vars
<1> QED
  BY <1>2, <1>3, <1>4, <1>5, <1>6, <1>7, <1>8, <1>9, <1>10, <1>11
  DEF Next, Environment, Cycle, DownloadStage, CompressStage, PushStage, Eviction

\* What the record says of the archive changes only when an archive is
\* committed; every other save writes back what the job read.
LEMMA RecordStep == IInv /\ [Next]_vars => RecordInv'
<1> SUFFICES ASSUME IInv, [Next]_vars PROVE RecordInv'
  OBVIOUS
<1> USE ConstantsAssumption DEF ConstantsAssumption
<1>0. RecordInv /\ FileInv /\ TypeOK /\ StepInv /\ MemInv
  BY DEF IInv
<1>1. ASSUME saved'.archive = saved.archive, saved'.archSrc = saved.archSrc,
             archive' = archive \/ archive'.id # Foreign
      PROVE  RecordInv'
  BY <1>0, <1>1 DEF RecordInv
<1>2. ASSUME saved'.archive = None PROVE RecordInv'
  BY <1>2 DEF RecordInv, Revs, Foreign
<1>3. ASSUME mem.known, saved'.archive = mem.archive, saved'.archSrc = mem.archSrc, archive' = archive
      PROVE  RecordInv'
  BY <1>0, <1>1, <1>3 DEF MemInv
<1>4. CASE Reopen \/ Close \/ Expire \/ Reappear \/ UserDelete \/ Crash \/ Boot \/ Again \/ Defer \/ StartDownload
           \/ Admit \/ Block \/ Open \/ Recv \/ Eof \/ Verify \/ RenameRaw \/ SkipXz \/ RefuseXz \/ StartXz
           \/ FailXz \/ Publish \/ Sidecar \/ FailSidecar \/ UnlinkRaw \/ StartPush \/ EndPush
  <2>1. saved' = saved
    BY <1>4 DEF Reopen, Close, Expire, Reappear, UserDelete, Crash, Boot, Again, Defer, StartDownload, Admit, Block, Open, Recv, Eof, Verify, RenameRaw, SkipXz, RefuseXz, StartXz, FailXz, Publish, Sidecar, FailSidecar, UnlinkRaw, StartPush, EndPush
  <2>2. archive' = archive \/ archive'.id # Foreign
    BY <1>0, <1>4 DEF Reopen, Close, Expire, Reappear, UserDelete, Crash, Boot, Again, Defer, StartDownload, Admit, Block, Open, Recv, Eof, Verify, RenameRaw, SkipXz, RefuseXz, StartXz, FailXz, Publish, Sidecar, FailSidecar, UnlinkRaw, StartPush, EndPush, disk, NoFile, Foreign, StepInv, Revs
  <2> QED
    BY <1>1, <2>1, <2>2
<1>5. CASE UserPlace
  BY <1>0, <1>5 DEF UserPlace, RecordInv
<1>6. CASE Discover
  <2>1. \/ saved'.archive = None
        \/ saved'.archive = saved.archive /\ saved'.archSrc = saved.archSrc
    <3>1. NewRecord.archive = None /\ NewRecord \in Records
      BY BlankTyped DEF NewRecord, Blank, Records
    <3>2. /\ [NewRecord EXCEPT !.expected = seen].archive = None
          /\ [saved EXCEPT !.expected = seen].archive = saved.archive
          /\ [saved EXCEPT !.expected = seen].archSrc = saved.archSrc
      BY <1>0, <3>1 DEF TypeOK, Records
    <3>3. \/ saved' = saved
          \/ saved' = [saved EXCEPT !.expected = seen]
          \/ saved' = [NewRecord EXCEPT !.expected = seen]
      BY <1>6 DEF Discover
    <3> QED
      BY <3>2, <3>3
  <2> QED
    BY <1>1, <1>2, <1>6, <2>1 DEF Discover, disk
<1>7. CASE Assign
  <2>1. saved'.archive = saved.archive /\ saved'.archSrc = saved.archSrc
    <3>1. saved' = saved \/ saved' = [saved EXCEPT !.evicted = None, !.absent = 0]
      BY <1>7 DEF Assign, Save
    <3>2. saved \in Records
      BY <1>0 DEF TypeOK
    <3> QED
      BY <3>1, <3>2, LiftedFields
  <2> QED
    BY <1>1, <1>7, <2>1 DEF Assign, disk
<1>8. ASSUME NEW eligible \in BOOLEAN, NEW ok \in BOOLEAN, NEW complete \in BOOLEAN,
             Scan(eligible, ok, complete)
      PROVE  RecordInv'
  <2>1. \/ saved'.archive = None
        \/ saved'.archive = saved.archive /\ saved'.archSrc = saved.archSrc
    BY <1>0, <1>8 DEF Scan, Blank, TypeOK, Records
  <2> QED
    BY <1>1, <1>2, <1>8, <2>1 DEF Scan, disk
<1>9. CASE FetchKept \/ FetchPartial \/ RestRejected \/ Overflow \/ Drop \/ SourceChanged \/ CommitRaw \/ DropRaw
  <2>1. mem.known
    BY <1>0, <1>9 DEF MemInv, WithRecord, Steps, Outside, Evicting, FetchKept, FetchPartial, RestRejected, Overflow, Drop, SourceChanged, CommitRaw, DropRaw
  <2>2. mem \in Records
    BY <1>0 DEF TypeOK
  <2>3. CASE FetchKept
    BY <1>3, <2>1, <2>2, <2>3 DEF FetchKept, Save, Records, disk
  <2>4. CASE FetchPartial
    <3>1. \/ saved' = saved
          \/ saved' = [mem EXCEPT !.partial = mem.expected, !.noRest = FALSE]
      BY <2>4 DEF FetchPartial, Save
    <3>2. archive' = archive
      BY <2>4 DEF FetchPartial
    <3> QED
      BY <1>1, <1>3, <2>1, <2>2, <3>1, <3>2, PartialFields
  <2>5. CASE RestRejected
    BY <1>3, <2>1, <2>2, <2>5 DEF RestRejected, FailDownload, Save, Records, disk
  <2>6. CASE Overflow
    BY <1>3, <2>1, <2>2, <2>6 DEF Overflow, FailDownload, Save, Records
  <2>7. CASE Drop \/ SourceChanged
    BY <1>3, <2>1, <2>2, <2>7 DEF Drop, SourceChanged, FailDownload, Save, Records, disk
  <2>8. CASE CommitRaw
    <3>1. saved' = [mem EXCEPT !.raw = mem.expected, !.partial = None, !.retry = None]
      BY <2>8 DEF CommitRaw, Save
    <3>2. archive' = archive
      BY <2>8 DEF CommitRaw, disk
    <3> QED
      BY <1>3, <2>1, <2>2, <3>1, <3>2, FetchedFields
  <2>9. CASE DropRaw
    BY <1>3, <2>1, <2>2, <2>9 DEF DropRaw, Save, Records, disk
  <2> QED
    BY <1>9, <2>3, <2>4, <2>5, <2>6, <2>7, <2>8, <2>9
<1>10. CASE Adopt
  <2>1. raw.from = {mem.raw} /\ mem.raw \in Revs
    <3>1. raw.id = mem.raw /\ mem.raw \in Revs
      BY <1>0, <1>10 DEF StepInv, Adopt
    <3>2. raw # NoFile
      BY <3>1 DEF NoFile, Revs
    <3> QED
      BY <1>0, <3>1, <3>2 DEF FileInv
  <2>2. archive' = archive /\ archive.from = {mem.raw}
    BY <1>10, <2>1 DEF Adopt, disk
  <2>3. saved'.archive = archive.id /\ saved'.archSrc = mem.raw
    BY <1>0, <1>10 DEF Adopt, CommitArchive, Save, TypeOK, Records
  <2> QED
    BY <1>0, <2>1, <2>2, <2>3 DEF RecordInv, FileInv
<1>11. CASE CommitPublished
  <2>1. mem.raw \in Revs
    BY <1>0, <1>11 DEF StepInv, CommitPublished
  <2>2. saved'.archive = mem.raw /\ saved'.archSrc = mem.raw
    BY <1>0, <1>11 DEF CommitPublished, CommitArchive, Save, TypeOK, Records
  <2> QED
    BY <2>1, <2>2 DEF RecordInv, Revs, Foreign
<1>12. ASSUME NEW d \in Destinations, Send(d) PROVE RecordInv'
  <2>1. mem.known
    BY <1>0, <1>12 DEF MemInv, WithRecord, Steps, Outside, Evicting, Send
  <2>2. saved'.archive = mem.archive /\ saved'.archSrc = mem.archSrc
    BY <1>0, <1>12 DEF Send, Save, TypeOK, Records
  <2> QED
    BY <1>3, <1>12, <2>1, <2>2 DEF Send, disk
<1>13. CASE \E d \in Destinations : FailSend(d)
  BY <1>1, <1>13 DEF FailSend, disk
<1>14. CASE Eviction
  <2>1. saved'.archive = saved.archive /\ saved'.archSrc = saved.archSrc
    <3>1. saved \in Records
      BY <1>0 DEF TypeOK
    <3> QED
      BY <1>14, <3>1 DEF Eviction, EvictBegin, EvictRefuse, EvictError, EvictArchive, EvictSidecar, Bury, Records
  <2>2. archive' = archive \/ archive'.id # Foreign
    BY <1>14 DEF Eviction, EvictBegin, EvictRefuse, EvictError, EvictArchive, EvictSidecar, Bury, disk, NoFile, Foreign
  <2> QED
    BY <1>1, <2>1, <2>2
<1>15. CASE UNCHANGED vars
  BY <1>1, <1>15 DEF vars
<1> QED
  BY <1>4, <1>5, <1>6, <1>7, <1>8, <1>9, <1>10, <1>11, <1>12, <1>13, <1>14, <1>15
  DEF Next, Environment, Cycle, DownloadStage, CompressStage, PushStage

\* The job's copy of the record and the saved one stay in step.
LEMMA MemStep == IInv /\ [Next]_vars => MemInv'
<1> SUFFICES ASSUME IInv, [Next]_vars PROVE MemInv'
  OBVIOUS
<1>0. MemInv /\ saved \in Records /\ mem \in Records /\ pc \in Steps /\ Blank.known = FALSE
      /\ back \in {"scan", "idle", "download", "compress"}
  BY DEF IInv, TypeOK, Blank
<1> USE <1>0 DEF Steps, Outside, Evicting, Fetching, WithRecord, Resumable, MemInv
<1>1. CASE Reopen
  BY <1>1 DEF Reopen
<1>2. CASE Close
  BY <1>2 DEF Close
<1>3. CASE Expire
  BY <1>3 DEF Expire
<1>4. CASE Reappear
  BY <1>4 DEF Reappear
<1>5. CASE UserDelete
  BY <1>5 DEF UserDelete
<1>6. CASE UserPlace
  BY <1>6 DEF UserPlace
<1>7. CASE Crash
  BY <1>7 DEF Crash
<1>8. CASE Boot
  BY <1>8 DEF Boot
<1>9. CASE Discover
  BY <1>9 DEF Discover
<1>10. CASE Assign
  <2>1. /\ pc = "assign" /\ pc' \in {"idle", "push", "download", "compress"}
        /\ \/ pc' = "idle" /\ mem' = mem /\ saved' = saved
           \/ /\ mem' = saved' /\ saved.known
              /\ \/ mem' = saved
                 \/ mem' = [saved EXCEPT !.evicted = None, !.absent = 0]
    BY <1>10 DEF Assign, Save, StageOf
  <2>2. pc' # "idle" => mem'.known
    BY <2>1, LiftedFields
  <2> QED
    BY <2>1, <2>2
<1>11. CASE Again
  BY <1>11 DEF Again
<1>12. CASE Defer
  BY <1>12 DEF Defer
<1>13. CASE StartDownload
  BY <1>13 DEF StartDownload, Records
<1>14. CASE Admit
  BY <1>14 DEF Admit
<1>15. CASE Block
  BY <1>15 DEF Block
<1>16. CASE FetchKept
  BY <1>16 DEF FetchKept, Save, Records
<1>17. CASE FetchPartial
  <2>1. /\ pc = "fetch" /\ pc' = "open"
        /\ \/ mem' = mem /\ saved' = saved
           \/ /\ mem' = [mem EXCEPT !.partial = mem.expected, !.noRest = FALSE]
              /\ saved' = mem'
    BY <1>17 DEF FetchPartial, Save
  <2>2. mem'.known
    BY <2>1, PartialFields
  <2> QED
    BY <2>1, <2>2
<1>18. CASE Open
  BY <1>18 DEF Open
<1>19. CASE RestRejected
  BY <1>19 DEF RestRejected, FailDownload, Save, Records
<1>20. CASE Recv
  BY <1>20 DEF Recv
<1>21. CASE Overflow
  BY <1>21 DEF Overflow, FailDownload, Save, Records
<1>22. CASE Eof
  BY <1>22 DEF Eof
<1>23. CASE Drop
  BY <1>23 DEF Drop, FailDownload, Save, Records
<1>24. CASE Verify
  BY <1>24 DEF Verify
<1>25. CASE SourceChanged
  BY <1>25 DEF SourceChanged, FailDownload, Save, Records
<1>26. CASE RenameRaw
  BY <1>26 DEF RenameRaw
<1>27. CASE CommitRaw
  BY <1>27 DEF CommitRaw, Save, Records
<1>28. CASE SkipXz
  BY <1>28 DEF SkipXz
<1>29. CASE RefuseXz
  BY <1>29 DEF RefuseXz
<1>30. CASE Adopt
  BY <1>30 DEF Adopt, CommitArchive, Save, Records
<1>31. CASE StartXz
  BY <1>31 DEF StartXz
<1>32. CASE FailXz
  BY <1>32 DEF FailXz
<1>33. CASE Publish
  BY <1>33 DEF Publish
<1>34. CASE CommitPublished
  BY <1>34 DEF CommitPublished, CommitArchive, Save, Records
<1>35. CASE Sidecar
  BY <1>35 DEF Sidecar
<1>36. CASE FailSidecar
  BY <1>36 DEF FailSidecar
<1>37. CASE UnlinkRaw
  BY <1>37 DEF UnlinkRaw
<1>38. CASE DropRaw
  BY <1>38 DEF DropRaw, Save, Records
<1>39. CASE StartPush
  BY <1>39 DEF StartPush
<1>40. CASE EndPush
  BY <1>40 DEF EndPush
<1>41. CASE EvictBegin
  BY <1>41 DEF EvictBegin, Records
<1>42. CASE EvictRefuse
  BY <1>42 DEF EvictRefuse, EvictAborted
<1>43. CASE EvictError
  BY <1>43 DEF EvictError, EvictAborted
<1>44. CASE EvictArchive
  BY <1>44 DEF EvictArchive
<1>45. CASE EvictSidecar
  BY <1>45 DEF EvictSidecar
<1>46. CASE Bury
  BY <1>46 DEF Bury, Records
<1>47. ASSUME NEW eligible \in BOOLEAN, NEW ok \in BOOLEAN, NEW complete \in BOOLEAN,
             Scan(eligible, ok, complete)
      PROVE  MemInv'
  BY <1>47 DEF Scan
<1>48. ASSUME NEW d \in Destinations, Send(d) PROVE MemInv'
  BY <1>48 DEF Send, Save, Records
<1>49. ASSUME NEW d \in Destinations, FailSend(d) PROVE MemInv'
  BY <1>49 DEF FailSend
<1>50. CASE UNCHANGED vars
  BY <1>50 DEF vars
<1> QED
  BY <1>1, <1>2, <1>3, <1>4, <1>5, <1>6, <1>7, <1>8, <1>9, <1>10, <1>11, <1>12, <1>13, <1>14, <1>15, <1>16, <1>17, <1>18, <1>19, <1>20, <1>21, <1>22, <1>23, <1>24, <1>25, <1>26, <1>27, <1>28, <1>29, <1>30, <1>31, <1>32, <1>33, <1>34, <1>35, <1>36, <1>37, <1>38, <1>39, <1>40, <1>41, <1>42, <1>43, <1>44, <1>45, <1>46, <1>47, <1>48, <1>49, <1>50
  DEF Next, Environment, Cycle, DownloadStage, CompressStage, PushStage, Eviction

\* What a step of a job relies on was established by the steps before it.
LEMMA StepStep == IInv /\ [Next]_vars => StepInv'
<1> SUFFICES ASSUME IInv, [Next]_vars PROVE StepInv'
  OBVIOUS
<1>0. /\ StepInv /\ saved \in Records /\ mem \in Records /\ pc \in Steps
      /\ back \in {"scan", "idle", "download", "compress"}
      /\ seen \in 0..MaxRev /\ MaxRev \in Nat
  BY ConstantsAssumption DEF IInv, TypeOK, ConstantsAssumption
<1> USE <1>0 DEF Evicting, Fetching, StepInv, disk, budget
<1>1. CASE Reopen
  BY <1>1 DEF Reopen, ArchiveReady
<1>2. CASE Close
  BY <1>2 DEF Close, ArchiveReady
<1>3. CASE Expire
  BY <1>3 DEF Expire, ArchiveReady
<1>4. CASE Reappear
  BY <1>4 DEF Reappear, ArchiveReady
<1>5. CASE UserDelete
  BY <1>5 DEF UserDelete
<1>6. CASE UserPlace
  BY <1>6 DEF UserPlace, NoFile, ArchiveReady, Revs
<1>7. CASE Crash
  BY <1>7 DEF Crash
<1>8. CASE Boot
  BY <1>8 DEF Boot
<1>9. CASE Discover
  <2>1. /\ [NewRecord EXCEPT !.expected = seen].known
        /\ [NewRecord EXCEPT !.expected = seen].expected = seen
    BY BlankTyped DEF NewRecord, Blank, Records
  <2>2. /\ [saved EXCEPT !.expected = seen].known = saved.known
        /\ [saved EXCEPT !.expected = seen].expected = seen
    BY DEF Records
  <2> QED
    BY <1>9, <2>1, <2>2 DEF Discover
<1>10. CASE Assign
  <2>1. CASE pc' = "idle"
    BY <2>1
  <2>2. CASE pc' # "idle"
    <3>1. /\ mem' = saved \/ mem' = [saved EXCEPT !.evicted = None, !.absent = 0]
          /\ pc' = StageOf(mem') /\ pc = "assign"
      BY <1>10, <2>2 DEF Assign, Save
    <3>2. mem'.raw = saved.raw /\ mem'.expected = saved.expected /\ saved.raw \in 0..MaxRev
      <4> HIDE DEF StepInv
      <4>1. saved.raw \in 0..MaxRev
        BY <1>0, RecordFields
      <4>2. CASE mem' = saved
        BY <4>1, <4>2
      <4>3. CASE mem' = [saved EXCEPT !.evicted = None, !.absent = 0]
        BY <1>0, <4>1, <4>3, LiftedFields
      <4> QED
        BY <3>1, <4>2, <4>3
    <3>3. pc' \in {"push", "download", "compress", "idle"}
      BY <3>1 DEF StageOf
    <3>4. pc' = "download" => mem'.expected \in Revs
      BY <3>1, <3>2 DEF StageOf, Revs
    <3>5. pc' = "compress" => mem'.raw \in Revs
      BY <3>1, <3>2 DEF StageOf, Revs
    <3> QED
      BY <3>3, <3>4, <3>5
  <2> QED
    BY <2>1, <2>2
<1>11. CASE Again
  BY <1>11 DEF Again
<1>12. CASE Defer
  BY <1>12 DEF Defer
<1>13. CASE StartDownload
  BY <1>13 DEF StartDownload, Records
<1>14. CASE Admit
  BY <1>14 DEF Admit
<1>15. CASE Block
  BY <1>15 DEF Block
<1>16. CASE FetchKept
  BY <1>16 DEF FetchKept, Save, Records
<1>17. CASE FetchPartial
  <2>1. /\ pc = "fetch" /\ pc' = "open"
        /\ \/ mem' = mem /\ mem.partial = mem.expected
           \/ mem' = [mem EXCEPT !.partial = mem.expected, !.noRest = FALSE]
    BY <1>17 DEF FetchPartial, Save
  <2>2. mem.expected \in Revs
    BY <2>1
  <2>3. mem'.expected = mem.expected /\ mem'.partial = mem.expected
    <3> HIDE DEF StepInv
    <3>1. CASE mem' = mem /\ mem.partial = mem.expected
      BY <3>1
    <3>2. CASE mem' = [mem EXCEPT !.partial = mem.expected, !.noRest = FALSE]
      BY <3>2, PartialFields
    <3> QED
      BY <2>1, <3>1, <3>2
  <2> QED
    BY <2>1, <2>2, <2>3
<1>18. CASE Open
  BY <1>18 DEF Open, NoPart
<1>19. CASE RestRejected
  BY <1>19 DEF RestRejected, FailDownload, Save, Records
<1>20. CASE Recv
  <2>1. part.len \in Nat \cup {-1}
    BY DEF IInv, TypeOK, NoPart
  <2>2. PICK r \in Served : part' = [from |-> part.from \cup {r}, len |-> part.len + 1]
    BY <1>20 DEF Recv
  <2>3. part' # NoPart
    BY <2>1, <2>2 DEF NoPart
  <2> QED
    BY <1>20, <2>3 DEF Recv
<1>21. CASE Overflow
  BY <1>21 DEF Overflow, FailDownload, Save, Records
<1>22. CASE Eof
  BY <1>22 DEF Eof
<1>23. CASE Drop
  BY <1>23 DEF Drop, FailDownload, Save, Records
<1>24. CASE Verify
  <2>1. /\ part.from \subseteq mem.expected..mem.expected /\ part.len > 0 /\ part.from # {}
        /\ mem.expected \in Revs
    <3>1. /\ mem.expected \in Revs /\ rcv.rev = mem.expected /\ mem.known
          /\ mem.partial = mem.expected /\ part.len = Size[mem.expected]
      BY <1>24 DEF Verify, Verified, SourceUnchanged, IInv, MemInv, WithRecord, Steps, Outside
    <3>2. saved.partial = mem.expected /\ Size[mem.expected] \in Nat \ {0}
      BY <3>1, ConstantsAssumption DEF IInv, MemInv, ConstantsAssumption
    <3> QED
      BY <3>1, <3>2 DEF IInv, PartInv
  <2>2. part.from = {mem.expected} /\ part # NoPart
    BY <2>1 DEF Revs, NoPart
  <2> QED
    BY <1>24, <2>2 DEF Verify
<1>25. CASE SourceChanged
  BY <1>25 DEF SourceChanged, FailDownload, Save, Records
<1>26. CASE RenameRaw
  BY <1>26 DEF RenameRaw
<1>27. CASE CommitRaw
  BY <1>27 DEF CommitRaw, Save, Records
<1>28. CASE SkipXz
  BY <1>28 DEF SkipXz, Compressed, ArchiveReady
<1>29. CASE RefuseXz
  BY <1>29 DEF RefuseXz
<1>30. CASE Adopt
  BY <1>30 DEF Adopt, CommitArchive, Save, Records
<1>31. CASE StartXz
  BY <1>31 DEF StartXz
<1>32. CASE FailXz
  BY <1>32 DEF FailXz
<1>33. CASE Publish
  BY <1>33 DEF Publish
<1>34. CASE CommitPublished
  BY <1>34 DEF CommitPublished, CommitArchive, Save, Records
<1>35. CASE Sidecar
  BY <1>35 DEF Sidecar, ArchiveReady
<1>36. CASE FailSidecar
  BY <1>36 DEF FailSidecar
<1>37. CASE UnlinkRaw
  BY <1>37 DEF UnlinkRaw
<1>38. CASE DropRaw
  BY <1>38 DEF DropRaw, Save, Records
<1>39. CASE StartPush
  BY <1>39 DEF StartPush
<1>40. CASE EndPush
  BY <1>40 DEF EndPush
<1>41. CASE EvictBegin
  BY <1>41 DEF EvictBegin, Records
<1>42. CASE EvictRefuse
  BY <1>42 DEF EvictRefuse, EvictAborted
<1>43. CASE EvictError
  BY <1>43 DEF EvictError, EvictAborted
<1>44. CASE EvictArchive
  BY <1>44 DEF EvictArchive
<1>45. CASE EvictSidecar
  BY <1>45 DEF EvictSidecar
<1>46. CASE Bury
  BY <1>46 DEF Bury, Records
<1>47. ASSUME NEW eligible \in BOOLEAN, NEW ok \in BOOLEAN, NEW complete \in BOOLEAN,
             Scan(eligible, ok, complete)
      PROVE  StepInv'
  BY <1>47 DEF Scan
<1>48. ASSUME NEW d \in Destinations, Send(d) PROVE StepInv'
  BY <1>48 DEF Send, Save
<1>49. ASSUME NEW d \in Destinations, FailSend(d) PROVE StepInv'
  BY <1>49 DEF FailSend
<1>50. CASE UNCHANGED vars
  BY <1>50 DEF vars, ArchiveReady
<1> QED
  BY <1>1, <1>2, <1>3, <1>4, <1>5, <1>6, <1>7, <1>8, <1>9, <1>10, <1>11, <1>12, <1>13, <1>14, <1>15, <1>16, <1>17, <1>18, <1>19, <1>20, <1>21, <1>22, <1>23, <1>24, <1>25, <1>26, <1>27, <1>28, <1>29, <1>30, <1>31, <1>32, <1>33, <1>34, <1>35, <1>36, <1>37, <1>38, <1>39, <1>40, <1>41, <1>42, <1>43, <1>44, <1>45, <1>46, <1>47, <1>48, <1>49, <1>50
  DEF Next, Environment, Cycle, DownloadStage, CompressStage, PushStage, Eviction

LEMMA InitIInv == Init => IInv
<1> SUFFICES ASSUME Init PROVE IInv
  OBVIOUS
<1> USE ConstantsAssumption, BlankTyped DEF ConstantsAssumption, Init
<1>1. TypeOK
  <2>1. rcv \in [rev : Revs, status : {"closed", "active", "absent"}]
    BY DEF Revs
  <2>2. archive \in [from : SUBSET Revs, id : 1..Foreign] \cup {NoFile}
    BY DEF Revs, Foreign
  <2>3. gone \in [Revs -> -1..2] /\ remote \in [Destinations -> SUBSET Revs] /\ enabled \subseteq Destinations
    OBVIOUS
  <2>4. part \in [from : SUBSET Revs, len : Nat] \cup {NoPart} /\ raw \in [from : SUBSET Revs, id : Revs] \cup {NoFile}
    OBVIOUS
  <2>5. sidecar \in 0..MaxRev /\ seen \in 0..MaxRev /\ saved \in Records /\ mem \in Records
    OBVIOUS
  <2>6. xzPart \in BOOLEAN
    BY Zenon
  <2> QED
    BY <2>1, <2>2, <2>3, <2>4, <2>5, <2>6 DEF TypeOK, Steps
<1>2. PartInv
  BY DEF PartInv, NoPart
<1>3. FileInv
  BY DEF FileInv, NoFile, Revs, Foreign
<1>4. RecordInv
  BY DEF RecordInv, Blank, Revs, Foreign
<1>5. MemInv /\ StepInv
  BY DEF MemInv, StepInv, Blank, Steps, Outside, Evicting, Fetching, WithRecord, Resumable
<1> QED
  BY <1>1, <1>2, <1>3, <1>4, <1>5 DEF IInv

LEMMA InvariantStep == IInv /\ [Next]_vars => IInv'
<1>1. IInv /\ [Next]_vars => TypeOK'
  BY TypeStep DEF IInv
<1> QED
  BY <1>1, PartStep, FileStep, RecordStep, MemStep, StepStep DEF IInv

\* The inductive invariant: what a record, the files it names and the copy a job
\* works on have to do with each other at every step of the mirror, crashes included.
THEOREM Invariant == Spec => []IInv
  BY InvariantStep, InitIInv, PTL DEF Spec

(***************************************************************************)
(* The theorems.                                                           *)
(***************************************************************************)
\* Every variable keeps its type, in every configuration and under every fault.
THEOREM TypeCorrect == Spec => []TypeOK
  BY Invariant, PTL DEF IInv

LEMMA Truthful == IInv => RecordTruthful
<1> SUFFICES ASSUME IInv PROVE RecordTruthful
  OBVIOUS
<1>1. ArchiveReady(saved) => archive.from = {saved.archSrc}
  <2> SUFFICES ASSUME ArchiveReady(saved) PROVE archive.from = {saved.archSrc}
    OBVIOUS
  <2>1. archive.id = saved.archive /\ archive.id \in Revs \cup {Foreign}
    BY ConstantsAssumption DEF ArchiveReady, IInv, TypeOK, NoFile, Revs, Foreign, ConstantsAssumption
  <2> QED
    BY <2>1 DEF IInv, FileInv, RecordInv
<1>2. raw # NoFile /\ raw.id = saved.raw => raw.from = {saved.raw}
  BY DEF IInv, FileInv
<1> QED
  BY <1>1, <1>2 DEF RecordTruthful

\* state.json never vouches for bytes the disk does not hold.
THEOREM RecordsAreTruthful == Spec => []RecordTruthful
  BY Truthful, Invariant, PTL

\* Only three actions touch the raw copy.
LEMMA RawFrame == Next => StartDownload \/ UnlinkRaw \/ RenameRaw \/ UNCHANGED raw
  BY DEF Next, Environment, Cycle, DownloadStage, CompressStage, PushStage, Eviction, disk,
         Reopen, Close, Expire, Reappear, UserDelete, UserPlace, Crash, Boot, Discover, Assign, Again, Defer, Admit,
         Block, FetchKept, FetchPartial, Open, RestRejected, Recv, Overflow, Eof, Drop, Verify, SourceChanged, CommitRaw, SkipXz,
         RefuseXz, Adopt, StartXz, FailXz, Publish, CommitPublished, Sidecar, FailSidecar, DropRaw, StartPush, EndPush, EvictBegin, EvictRefuse, EvictError, EvictArchive, EvictSidecar, Bury, Scan, Send, FailSend

\* A verified download is discarded only behind its committed archive or once
\* the source has moved on: no crash or failure in between loses it.
THEOREM RawIsKept == Spec => VerifiedRawKept
<1> DEFINE Kept == raw # NoFile /\ raw.id = saved.raw /\ raw' = NoFile =>
                     \/ mem.expected # raw.id
                     \/ saved.archSrc = raw.id /\ ArchiveReady(saved)
<1>1. IInv /\ [Next]_vars => [Kept]_vars
  <2> SUFFICES ASSUME IInv, Next, raw # NoFile, raw.id = saved.raw, raw' = NoFile
               PROVE  \/ mem.expected # raw.id
                      \/ saved.archSrc = raw.id /\ ArchiveReady(saved)
    BY DEF Kept
  <2>1. CASE StartDownload
    <3>1. mem.raw # mem.expected /\ mem.raw = saved.raw
      BY <2>1 DEF StartDownload, IInv, MemInv, WithRecord, Fetching, Steps, Outside, Evicting
    <3> QED
      BY <3>1
  <2>2. CASE UnlinkRaw
    <3>1. /\ mem.archSrc = mem.raw /\ ArchiveReady(mem) /\ mem.raw = saved.raw
          /\ mem.archive = saved.archive /\ mem.archSrc = saved.archSrc
      BY <2>2 DEF UnlinkRaw, IInv, MemInv, StepInv, WithRecord, Fetching, Steps, Outside, Evicting
    <3> QED
      BY <3>1 DEF ArchiveReady
  <2>3. CASE RenameRaw
    BY <2>3 DEF RenameRaw, NoFile, IInv, StepInv, Fetching, Revs
  <2>4. CASE UNCHANGED raw
    BY <2>4
  <2>5. StartDownload \/ UnlinkRaw \/ RenameRaw \/ UNCHANGED raw
    BY RawFrame
  <2> QED
    BY <2>1, <2>2, <2>3, <2>4, <2>5
<1> QED
  BY <1>1, Invariant, PTL DEF VerifiedRawKept, Spec

(***************************************************************************)
(* Eviction.  An unlink error leaves an intent behind that a later         *)
(* revision inherits (README, 6), so nothing here holds with that fault.   *)
(***************************************************************************)
\* Steps that run in a job of the file: what they may do to the record.
LEMMA JobSteps ==
  ASSUME IInv, DownloadStage \/ CompressStage \/ PushStage
  PROVE  /\ pc \in WithRecord /\ pc' \in (WithRecord \cup {"idle"}) \ {"download", "compress"}
         /\ saved' \in {saved, mem'}
         /\ mem'.known = mem.known /\ mem'.expected = mem.expected
         /\ mem'.evicting = mem.evicting /\ mem'.evicted = mem.evicted /\ mem'.absent = mem.absent
         /\ \/ mem'.uploads = mem.uploads /\ remote' = remote
            \/ \E d \in Destinations : Send(d)
         /\ UNCHANGED <<rcv, seen, back, enabled, gone>>
<1>m. mem \in Records
  BY DEF IInv, TypeOK
<1> DEFINE Fields == /\ mem'.known = mem.known /\ mem'.expected = mem.expected
                     /\ mem'.evicting = mem.evicting /\ mem'.evicted = mem.evicted /\ mem'.absent = mem.absent
           Kept == saved' \in {saved, mem'} /\ Fields /\ mem'.uploads = mem.uploads
<1>1. CASE DownloadStage
  <2>1. /\ pc \in WithRecord /\ pc' \in (WithRecord \cup {"idle"}) \ {"download", "compress"}
        /\ UNCHANGED <<rcv, seen, back, enabled, gone, remote>>
    BY <1>1 DEF DownloadStage, Defer, StartDownload, Admit, Block, FetchKept, FetchPartial, Open, RestRejected,
                Recv, Overflow, Eof, Drop, Verify, SourceChanged, RenameRaw, CommitRaw, FailDownload,
                WithRecord, Steps, Outside, Evicting, disk, budget
  <2>2. ASSUME Defer \/ Admit \/ Block \/ Open \/ Recv \/ Eof \/ Verify \/ RenameRaw PROVE Kept
    BY <2>2 DEF Defer, Admit, Block, Open, Recv, Eof, Verify, RenameRaw
  <2>3. ASSUME StartDownload PROVE Kept
    BY <1>m, <2>3 DEF StartDownload, Records
  <2>4. ASSUME FetchKept PROVE Kept
    BY <1>m, <2>4 DEF FetchKept, Save, Records
  <2>5. ASSUME FetchPartial PROVE Kept
    <3>1. \/ saved' = saved /\ mem' = mem
          \/ saved' = mem' /\ mem' = [mem EXCEPT !.partial = mem.expected, !.noRest = FALSE]
      BY <2>5 DEF FetchPartial, Save
    <3> QED
      BY <1>m, <3>1 DEF Records
  <2>6. ASSUME RestRejected PROVE Kept
    BY <1>m, <2>6 DEF RestRejected, FailDownload, Save, Records
  <2>7. ASSUME Overflow PROVE Kept
    BY <1>m, <2>7 DEF Overflow, FailDownload, Save, Records
  <2>8. ASSUME Drop \/ SourceChanged PROVE Kept
    BY <1>m, <2>8 DEF Drop, SourceChanged, FailDownload, Save, Records
  <2>9. ASSUME CommitRaw PROVE Kept
    BY <1>m, <2>9 DEF CommitRaw, Save, Records
  <2>10. Kept
    BY <1>1, <2>2, <2>3, <2>4, <2>5, <2>6, <2>7, <2>8, <2>9 DEF DownloadStage
  <2> QED
    BY <2>1, <2>10
<1>2. CASE CompressStage
  <2>1. /\ pc \in WithRecord /\ pc' \in (WithRecord \cup {"idle"}) \ {"download", "compress"}
        /\ UNCHANGED <<rcv, seen, back, enabled, gone, remote>>
    BY <1>2 DEF CompressStage, SkipXz, RefuseXz, Adopt, StartXz, FailXz, Publish, CommitPublished, Sidecar,
                FailSidecar, UnlinkRaw, DropRaw, CommitArchive, WithRecord, Steps, Outside, Evicting, disk, budget
  <2>2. ASSUME SkipXz \/ RefuseXz \/ StartXz \/ FailXz \/ Publish \/ Sidecar \/ FailSidecar \/ UnlinkRaw PROVE Kept
    BY <2>2 DEF SkipXz, RefuseXz, StartXz, FailXz, Publish, Sidecar, FailSidecar, UnlinkRaw
  <2>3. ASSUME Adopt \/ CommitPublished PROVE Kept
    BY <1>m, <2>3 DEF Adopt, CommitPublished, CommitArchive, Save, Records
  <2>4. ASSUME DropRaw PROVE Kept
    BY <1>m, <2>4 DEF DropRaw, Save, Records
  <2>5. Kept
    BY <1>2, <2>2, <2>3, <2>4 DEF CompressStage
  <2> QED
    BY <2>1, <2>5
<1>3. CASE PushStage
  <2>1. CASE StartPush \/ EndPush \/ \E d \in Destinations : FailSend(d)
    BY <2>1 DEF StartPush, EndPush, FailSend, WithRecord, Steps, Outside, Evicting, disk, budget
  <2>2. ASSUME NEW d \in Destinations, Send(d)
        PROVE  /\ pc \in WithRecord /\ pc' = pc /\ pc = "send" /\ saved' = mem' /\ Fields
               /\ UNCHANGED <<rcv, seen, back, enabled, gone>>
    BY <1>m, <2>2 DEF Send, Save, Records, WithRecord, Steps, Outside, Evicting, budget
  <2> QED
    BY <1>3, <2>1, <2>2 DEF PushStage
<1> QED
  BY <1>1, <1>2, <1>3

\* An eviction runs exactly while its intent is saved, a crash and the next start
\* apart, and no job's copy of the record holds an intent it could write back.
IntentInv ==
    /\ pc \in Evicting => saved.evicting
    /\ saved.evicting => pc \in Evicting \cup {"down"}
    /\ pc = "unlink" /\ back # "scan" => ArchiveReady(saved)
    /\ pc \in WithRecord \/ Resumable =>
         ~mem.evicting /\ mem.uploads = saved.uploads /\ mem.expected = saved.expected

LEMMA IntentInit == Init => IntentInv
BY DEF Init, IntentInv, Blank, WithRecord, Resumable, Steps, Outside, Evicting

LEMMA IntentStep ==
  ASSUME "unlink" \notin Faults, IInv, IntentInv, [Next]_vars PROVE IntentInv'
<1>m. mem \in Records /\ saved \in Records /\ Blank \in Records /\ ~Blank.evicting
  BY BlankTyped DEF IInv, TypeOK, Blank
<1> USE DEF IntentInv, WithRecord, Resumable, Steps, Outside, Evicting
<1>1. CASE Reopen \/ Close \/ Expire \/ Reappear \/ Boot \/ Again
  BY <1>1 DEF Reopen, Close, Expire, Reappear, Boot, Again, disk, ArchiveReady
<1>2. CASE UserDelete
  BY <1>2 DEF UserDelete
<1>3. CASE UserPlace
  BY <1>3 DEF UserPlace, ArchiveReady, NoFile
<1>4. CASE Crash
  BY <1>4 DEF Crash, disk
<1>5. ASSUME NEW e, NEW o, NEW c, Scan(e, o, c) PROVE IntentInv'
  <2>1. saved' \in {saved, Blank} \/ saved' = [saved EXCEPT !.absent = IF rcv.status # "absent" THEN 0 ELSE saved.absent + 1]
    BY <1>5 DEF Scan
  <2>2. saved'.evicting = saved.evicting \/ ~saved'.evicting
    BY <1>m, <2>1 DEF Records
  <2> QED
    BY <1>5, <2>2 DEF Scan
<1>6. CASE Discover
  <2>1. saved'.evicting = saved.evicting \/ ~saved'.evicting
    BY <1>6, <1>m DEF Discover, NewRecord, Records
  <2> QED
    BY <1>6, <2>1 DEF Discover
<1>7. CASE Assign
  <2>1. CASE pc' = "idle" /\ UNCHANGED <<mem, saved>>
    BY <1>7, <2>1 DEF Assign
  <2>2. CASE mem' = saved' /\ saved' \in {saved, [saved EXCEPT !.evicted = None, !.absent = 0]}
    BY <1>7, <1>m, <2>2 DEF Assign, StageOf, Records
  <2> QED
    BY <1>7, <2>1, <2>2 DEF Assign, Save
<1>8. CASE DownloadStage \/ CompressStage \/ PushStage
  <2>1. pc \in WithRecord /\ ~saved.evicting /\ ~mem'.evicting
    BY <1>8, JobSteps
  <2>2. ~saved'.evicting
    BY <1>8, <2>1, JobSteps
  <2> QED
    BY <1>8, <2>1, <2>2, JobSteps DEF Send, Save
<1>9. CASE EvictBegin
  BY <1>9, <1>m DEF EvictBegin, SafeToEvict, Records, ArchiveReady, disk
<1>10. CASE EvictRefuse
  BY <1>10 DEF EvictRefuse, EvictAborted, ArchiveReady
<1>11. CASE EvictError
  BY <1>11 DEF EvictError
<1>12. CASE EvictArchive \/ EvictSidecar
  BY <1>12 DEF EvictArchive, EvictSidecar
<1>13. CASE Bury
  BY <1>13, <1>m DEF Bury, Records, IInv, TypeOK
<1>14. CASE UNCHANGED vars
  BY <1>14 DEF vars, ArchiveReady
<1> QED
  BY <1>1, <1>2, <1>3, <1>4, <1>5, <1>6, <1>7, <1>8, <1>9, <1>10, <1>11, <1>12, <1>13, <1>14
  DEF Next, Environment, Cycle, Eviction

\* A receipt stands for what the target holds, and a saved intent for an archive
\* that every enabled target holds.
ReceiptInv ==
    /\ \A d \in Destinations : saved.uploads[d] # <<None, None>> => remote[d] = {saved.uploads[d][2]}
    /\ saved.evicting => Delivered(saved) /\ saved.archive # None

LEMMA ReceiptInit == Init => ReceiptInv
BY DEF Init, ReceiptInv, Blank

LEMMA ReceiptStep ==
  ASSUME "unlink" \notin Faults, "retarget" \notin Faults,
         IInv, IntentInv, IntentInv', ReceiptInv, [Next]_vars
  PROVE  ReceiptInv'
<1>m. mem \in Records /\ saved \in Records /\ enabled \subseteq Destinations
      /\ remote \in [Destinations -> SUBSET Revs]
  BY DEF IInv, TypeOK
<1>b. ~Blank.evicting /\ \A d \in Destinations : Blank.uploads[d] = <<None, None>>
  BY DEF Blank
<1>k. ASSUME UNCHANGED <<saved, remote, enabled>> PROVE ReceiptInv'
  BY <1>k DEF ReceiptInv, Delivered
<1>n. ASSUME remote' = remote, saved'.uploads = saved.uploads \/ saved'.uploads = Blank.uploads,
             ~saved'.evicting
      PROVE  ReceiptInv'
  BY <1>b, <1>n DEF ReceiptInv
<1>1. CASE Reopen \/ Close \/ Expire \/ Reappear \/ UserDelete \/ UserPlace \/ Crash \/ Boot \/ Again
  BY <1>k, <1>1 DEF Reopen, Close, Expire, Reappear, UserDelete, UserPlace, Crash, Boot, Again
<1>2. ASSUME NEW e, NEW o, NEW c, Scan(e, o, c) PROVE ReceiptInv'
  <2>1. saved' \in {saved, Blank} \/ saved' = [saved EXCEPT !.absent = IF rcv.status # "absent" THEN 0 ELSE saved.absent + 1]
    BY <1>2 DEF Scan
  <2>2. saved'.uploads = saved.uploads \/ saved'.uploads = Blank.uploads
    BY <1>m, <2>1 DEF Records
  <2>3. pc' = "discover" /\ remote' = remote
    BY <1>2 DEF Scan
  <2> QED
    BY <1>n, <2>2, <2>3 DEF IntentInv, Evicting
<1>3. CASE Discover
  <2>1. saved'.uploads = saved.uploads \/ saved'.uploads = Blank.uploads
    <3>1. NewRecord \in Records /\ NewRecord.uploads = Blank.uploads
      BY BlankTyped DEF NewRecord, Records
    <3> QED
      BY <1>3, <1>m, <3>1 DEF Discover, Records
  <2>2. pc' = "assign" /\ remote' = remote
    BY <1>3 DEF Discover
  <2> QED
    BY <1>n, <2>1, <2>2 DEF IntentInv, Evicting
<1>4. CASE Assign
  <2>1. saved' \in {saved, [saved EXCEPT !.evicted = None, !.absent = 0]}
    BY <1>4 DEF Assign, Save
  <2>2. saved'.uploads = saved.uploads
    BY <1>m, <2>1 DEF Records
  <2>3. pc' \in {"push", "download", "compress", "idle"} /\ remote' = remote
    BY <1>4 DEF Assign, StageOf
  <2> QED
    BY <1>n, <2>2, <2>3 DEF IntentInv, Evicting
<1>5. CASE DownloadStage \/ CompressStage \/ PushStage
  <2>1. pc \in WithRecord /\ mem.uploads = saved.uploads /\ saved' \in {saved, mem'}
        /\ pc' \in WithRecord \cup {"idle"} /\ enabled' = enabled
    BY <1>5, JobSteps DEF IntentInv
  <2>2. ~saved'.evicting
    BY <2>1 DEF IntentInv, WithRecord, Outside, Evicting, Steps
  <2>3. CASE mem'.uploads = mem.uploads /\ remote' = remote
    BY <1>n, <2>1, <2>2, <2>3
  <2>4. ASSUME NEW d \in Destinations, Send(d) PROVE ReceiptInv'
    <3>1. /\ saved'.uploads = [saved.uploads EXCEPT ![d] = <<mem.archive, mem.archSrc>>]
          /\ remote' = [remote EXCEPT ![d] = archive.from] /\ ArchiveReady(mem)
      BY <1>m, <2>1, <2>4 DEF Send, Save, Records
    <3>2. mem.archive = saved.archive /\ mem.archSrc = saved.archSrc
      BY <2>4 DEF Send, IInv, MemInv, WithRecord, Steps, Outside, Evicting
    <3>3. archive.from = {mem.archSrc}
      BY <3>1, <3>2, Truthful DEF RecordTruthful, ArchiveReady
    <3>4. saved.uploads \in [Destinations -> (0..Foreign) \X (0..MaxRev)]
      BY <1>m DEF Records
    <3>5. ASSUME NEW t \in Destinations, saved'.uploads[t] # <<None, None>>
          PROVE  remote'[t] = {saved'.uploads[t][2]}
      <4>1. CASE t = d
        BY <1>m, <3>1, <3>3, <3>4, <4>1
      <4>2. CASE t # d
        <5>1. saved'.uploads[t] = saved.uploads[t] /\ remote'[t] = remote[t]
          BY <1>m, <3>1, <3>4, <4>2
        <5> QED
          BY <3>5, <5>1 DEF ReceiptInv
      <4> QED
        BY <4>1, <4>2
    <3> QED
      BY <2>2, <3>5 DEF ReceiptInv
  <2> QED
    BY <1>5, <2>3, <2>4, JobSteps
<1>6. CASE EvictBegin
  <2>1. /\ Delivered(saved) /\ saved.archive # None /\ UNCHANGED <<remote, enabled>>
        /\ saved' = [saved EXCEPT !.evicting = TRUE]
    BY <1>6 DEF EvictBegin, SafeToEvict, ArchiveReady
  <2>2. saved'.uploads = saved.uploads /\ saved'.archive = saved.archive /\ saved'.archSrc = saved.archSrc
    BY <1>m, <2>1 DEF Records
  <2> QED
    BY <2>1, <2>2 DEF ReceiptInv, Delivered
<1>7. CASE EvictRefuse \/ EvictArchive \/ EvictSidecar
  BY <1>k, <1>7 DEF EvictRefuse, EvictArchive, EvictSidecar
<1>8. CASE EvictError
  BY <1>8 DEF EvictError
<1>9. CASE Bury
  <2>1. saved'.uploads = saved.uploads /\ ~saved'.evicting /\ remote' = remote
    BY <1>9, <1>m DEF Bury, Records
  <2> QED
    BY <1>n, <2>1
<1>10. CASE UNCHANGED vars
  BY <1>k, <1>10 DEF vars
<1> QED
  BY <1>1, <1>2, <1>3, <1>4, <1>5, <1>6, <1>7, <1>8, <1>9, <1>10
  DEF Next, Environment, Cycle, Eviction

\* While an eviction is at its unlink, nothing else removes the archive.
LEMMA UnlinkFrame ==
  ASSUME IInv, [Next]_vars, pc = "unlink", archive # NoFile, archive' = NoFile PROVE EvictArchive
<1>1. CASE Environment
  BY <1>1 DEF Environment, Reopen, Close, Expire, Reappear, UserDelete, UserPlace, Crash, disk
<1>2. CASE Boot \/ Discover \/ Assign \/ Again
  BY <1>2 DEF Boot, Discover, Assign, Again
<1>3. ASSUME NEW e, NEW o, NEW c, Scan(e, o, c) PROVE FALSE
  BY <1>3 DEF Scan
<1>4. CASE DownloadStage \/ CompressStage \/ PushStage
  BY <1>4, JobSteps DEF WithRecord, Outside, Evicting
<1>5. CASE Eviction
  BY <1>5 DEF Eviction, EvictBegin, EvictRefuse, EvictError, EvictSidecar, Bury, disk
<1>6. CASE UNCHANGED vars
  BY <1>6 DEF vars
<1> QED
  BY <1>1, <1>2, <1>3, <1>4, <1>5, <1>6 DEF Next, Cycle

\* Eviction only deletes what every enabled target holds (Mirror.evict and
\* Mirror.__init__), also when a start completes it: as long as no unlink fails and
\* the configuration names the same targets as when the intent was saved.
THEOREM EvictsDelivered ==
  "unlink" \notin Faults /\ "retarget" \notin Faults => (Spec => EvictionDelivered)
<1> SUFFICES ASSUME "unlink" \notin Faults, "retarget" \notin Faults PROVE Spec => EvictionDelivered
  OBVIOUS
<1> DEFINE Inv == IInv /\ IntentInv /\ ReceiptInv
           Deleted == pc = "unlink" /\ archive # NoFile /\ archive' = NoFile =>
                        \A d \in enabled : remote[d] = archive.from
<1>1. Init => Inv
  BY InitIInv, IntentInit, ReceiptInit
<1>2. Inv /\ [Next]_vars => Inv'
  BY InvariantStep, IntentStep, ReceiptStep
<1>3. Inv /\ [Next]_vars => [Deleted]_vars
  <2> SUFFICES ASSUME Inv, [Next]_vars, pc = "unlink", archive # NoFile, archive' = NoFile,
                      NEW d \in enabled
               PROVE  remote[d] = archive.from
    OBVIOUS
  <2>1. archive.id # None
    BY ConstantsAssumption DEF IInv, TypeOK, NoFile, ConstantsAssumption, Foreign
  <2>2. archive.id = saved.archive
    BY <2>1, UnlinkFrame DEF EvictArchive
  <2>3. archive.from = {saved.archSrc}
    BY <2>1, <2>2, Truthful DEF RecordTruthful, ArchiveReady
  <2>4. saved.uploads[d] = <<saved.archive, saved.archSrc>> /\ saved.archive # None /\ d \in Destinations
    BY DEF IntentInv, Evicting, ReceiptInv, Delivered, IInv, TypeOK
  <2> QED
    BY <2>3, <2>4 DEF ReceiptInv
<1> QED
  BY <1>1, <1>2, <1>3, PTL DEF Spec, EvictionDelivered

(***************************************************************************)
(* A revision that was evicted is not fetched again.  A file put under the *)
(* archive's name ("place") would hide the tombstone from the collection.  *)
(***************************************************************************)
\* What the record says is no newer than the receiver's file.
NewestInv ==
    /\ saved.expected <= rcv.rev /\ saved.evicted <= rcv.rev /\ seen <= rcv.rev
    /\ pc \in {"discover", "assign"} /\ seen # None => seen >= saved.evicted
    /\ saved.evicting => saved.archSrc = saved.expected

\* A tombstone stands for a file of which nothing is left.
BuriedInv ==
    /\ saved.evicted # None => saved.known /\ archive = NoFile /\ ~JobFiles
    /\ saved.evicting => saved.known /\ saved.evicted = None /\ ~JobFiles
    /\ pc \in {"unlinkSidecar", "bury"} => archive = NoFile

\* Nothing is evicted for itself: a file that waits for its download has no
\* delivered archive of that revision, and one that waits for xz has a raw copy.
WorkInv ==
    /\ pc \in WithRecord => saved.evicted = None /\ mem.evicted = None /\ mem.absent = 0
    /\ pc = "download" => ~(ArchiveReady(saved) /\ saved.archSrc = saved.expected)
    /\ pc = "compress" => raw # NoFile
    /\ ~Resumable

\* While less than two complete inventories missed the receiver's newest revision
\* since its eviction, a tombstone or the saved intent says so.
Recent(r) == gone[r] \in {0, 1}

GoneInv ==
    /\ saved.evicted = None => saved.absent = 0
    /\ \A r \in Revs : Recent(r) /\ saved.evicted = r => saved.absent <= gone[r]
    /\ \A r \in Revs : Recent(r) /\ r >= rcv.rev =>
         saved.evicted = r \/ (saved.evicting /\ saved.archSrc = r)

TombInv == NewestInv /\ BuriedInv /\ WorkInv /\ GoneInv

\* The record after each step that is not part of a job.
LEMMA ScanRecord ==
  ASSUME IInv, NEW e, NEW o, NEW c, Scan(e, o, c)
  PROVE  LET absent == IF rcv.status # "absent" THEN 0 ELSE saved.absent + 1
         IN  \/ saved' = saved /\ ~(c /\ saved.evicted # None /\ archive = NoFile /\ ~JobFiles)
             \/ /\ c /\ saved.evicted # None /\ absent < 2 /\ saved'.absent = absent
                /\ saved'.known = saved.known /\ saved'.expected = saved.expected
                /\ saved'.evicted = saved.evicted /\ saved'.evicting = saved.evicting
                /\ saved'.archSrc = saved.archSrc
             \/ c /\ saved.evicted # None /\ absent >= 2 /\ saved' = Blank
<1>1. saved \in Records
  BY DEF IInv, TypeOK
<1>2. saved.absent \in 0..1
  BY <1>1, RecordFields
<1> QED
  BY <1>1, <1>2 DEF Scan, CollectAfter, Records

LEMMA DiscoverRecord ==
  ASSUME IInv, Discover
  PROVE  \/ saved' = saved /\ seen = None
         \/ /\ seen # None /\ saved'.known /\ saved'.expected = seen
            /\ IF saved.known THEN /\ saved'.evicted = saved.evicted /\ saved'.evicting = saved.evicting
                                   /\ saved'.absent = saved.absent
                              ELSE saved'.evicted = None /\ ~saved'.evicting /\ saved'.absent = 0
<1>1. saved \in Records /\ NewRecord \in Records
  BY BlankTyped DEF IInv, TypeOK, NewRecord, Records
<1>2. NewRecord.evicted = None /\ ~NewRecord.evicting /\ NewRecord.absent = 0 /\ NewRecord.known
  BY BlankTyped DEF NewRecord, Blank, Records
<1>3. CASE saved.known
  BY <1>1, <1>3 DEF Discover, Records
<1>4. CASE ~saved.known
  <2>1. \/ saved' = saved /\ seen = None
        \/ saved' = [NewRecord EXCEPT !.expected = seen] /\ seen # None
    BY <1>4 DEF Discover
  <2> HIDE DEF NewRecord
  <2> QED
    BY <1>1, <1>2, <1>4, <2>1 DEF Records
<1> QED
  BY <1>3, <1>4

\* plan() either leaves the file alone, or starts a job without a tombstone.
LEMMA AssignRecord ==
  ASSUME IInv, Assign
  PROVE  /\ saved'.known = saved.known /\ saved'.expected = saved.expected
         /\ saved'.evicting = saved.evicting /\ saved'.archSrc = saved.archSrc
         /\ saved'.archive = saved.archive
         /\ \/ pc' = "idle" /\ UNCHANGED <<saved, mem>>
            \/ /\ saved.known /\ pc' \in {"push", "download", "compress", "idle"}
               /\ saved.evicted # None => seen \notin {None, saved.evicted}
               /\ mem' = saved' /\ saved'.evicted = None
               /\ saved'.absent = IF saved.evicted = None THEN saved.absent ELSE 0
               /\ pc' = "download" => seen # None /\ (~ArchiveReady(saved) \/ saved.archSrc # seen)
               /\ pc' = "compress" => raw # NoFile
<1>1. saved \in Records
  BY DEF IInv, TypeOK
<1>2. CASE pc' = "idle" /\ UNCHANGED <<saved, mem>>
  BY <1>2
<1>3. CASE saved.known /\ ~(saved.evicted # None /\ seen \in {None, saved.evicted})
  <2> DEFINE rec == IF saved.evicted = None THEN saved ELSE [saved EXCEPT !.evicted = None, !.absent = 0]
  <2>1. mem' = rec /\ saved' = rec /\ pc' = StageOf(rec)
    BY <1>3 DEF Assign, Save
  <2>2. /\ rec.known = saved.known /\ rec.expected = saved.expected /\ rec.evicting = saved.evicting
        /\ rec.archSrc = saved.archSrc /\ rec.archive = saved.archive /\ rec.evicted = None
        /\ rec.absent = IF saved.evicted = None THEN saved.absent ELSE 0
    BY <1>1 DEF Records
  <2> HIDE DEF rec
  <2>3. /\ pc' \in {"push", "download", "compress", "idle"}
        /\ pc' = "download" => seen # None /\ (~ArchiveReady(rec) \/ rec.archSrc # seen)
        /\ pc' = "compress" => raw # NoFile
    BY <2>1 DEF StageOf
  <2> QED
    BY <1>3, <2>1, <2>2, <2>3 DEF ArchiveReady
<1> QED
  BY <1>2, <1>3 DEF Assign

LEMMA EvictRecord ==
  ASSUME IInv, EvictBegin \/ Bury
  PROVE  /\ saved'.known = saved.known /\ saved'.expected = saved.expected /\ saved'.absent = saved.absent
         /\ saved'.archSrc = saved.archSrc /\ saved'.archive = saved.archive
         /\ EvictBegin => saved'.evicting /\ saved'.evicted = saved.evicted
         /\ Bury => ~saved'.evicting /\ saved'.evicted = saved.archSrc
<1>1. saved \in Records
  BY DEF IInv, TypeOK
<1> QED
  BY <1>1 DEF EvictBegin, Bury, Records

LEMMA TombInit == Init => TombInv
<1> SUFFICES ASSUME Init PROVE TombInv
  OBVIOUS
<1>1. NewestInv /\ BuriedInv /\ GoneInv
  BY DEF Init, NewestInv, BuriedInv, GoneInv, Recent, Blank, JobFiles
<1>2. WorkInv
  BY DEF Init, WorkInv, WithRecord, Resumable, Steps, Outside, Evicting
<1> QED
  BY <1>1, <1>2 DEF TombInv

\* A job works on the saved record or a copy of it without tombstone or intent.
LEMMA JobRecord ==
  ASSUME IInv, IntentInv, WorkInv, GoneInv, DownloadStage \/ CompressStage \/ PushStage
  PROVE  /\ pc \in WithRecord /\ pc' \in (WithRecord \cup {"idle"}) \ {"download", "compress"}
         /\ ~saved.evicting /\ ~saved'.evicting /\ ~mem.evicting
         /\ saved.evicted = None /\ saved'.evicted = None /\ mem'.evicted = None
         /\ saved'.absent = 0 /\ mem'.absent = 0
         /\ saved'.expected = saved.expected
         /\ UNCHANGED <<rcv, seen, back, gone>>
<1>1. /\ pc \in WithRecord /\ pc' \in (WithRecord \cup {"idle"}) \ {"download", "compress"}
      /\ saved' \in {saved, mem'} /\ mem'.expected = mem.expected /\ mem'.evicting = mem.evicting
      /\ mem'.evicted = mem.evicted /\ mem'.absent = mem.absent /\ UNCHANGED <<rcv, seen, back, gone>>
  BY JobSteps
<1>2. /\ saved.evicted = None /\ mem.evicted = None /\ mem.absent = 0 /\ saved.absent = 0
      /\ ~mem.evicting /\ mem.expected = saved.expected /\ ~saved.evicting
  BY <1>1 DEF WorkInv, IntentInv, GoneInv, WithRecord, Outside, Evicting
<1> QED
  BY <1>1, <1>2

LEMMA NewestStep ==
  ASSUME IInv, IntentInv, IntentInv', TombInv, [Next]_vars PROVE NewestInv'
<1>m. saved \in Records /\ saved.evicted \in Int /\ saved.expected \in Int /\ seen \in Nat /\ rcv.rev \in 1..MaxRev
      /\ MaxRev \in Nat /\ rcv \in [rev : Revs, status : {"closed", "active", "absent"}]
  BY ConstantsAssumption, RecordFields DEF IInv, TypeOK, Revs, ConstantsAssumption
<1>b. Blank.expected = 0 /\ Blank.evicted = 0 /\ ~Blank.evicting
  BY DEF Blank
<1> USE DEF NewestInv, TombInv
<1>1. CASE Reopen \/ Close \/ Expire \/ Reappear
  <2>1. rcv'.rev >= rcv.rev /\ rcv'.rev \in Int /\ UNCHANGED <<saved, seen, pc>>
    BY <1>1, <1>m DEF Reopen, Close, Expire, Reappear, Revs
  <2> QED
    BY <1>m, <2>1
<1>2. CASE UserDelete \/ UserPlace \/ Crash \/ Boot \/ Again
  BY <1>2, <1>m DEF UserDelete, UserPlace, Crash, Boot, Again
<1>3. ASSUME NEW e, NEW o, NEW c, Scan(e, o, c) PROVE NewestInv'
  <2>1. seen' \in {rcv.rev, None} /\ rcv' = rcv /\ pc' = "discover"
    BY <1>3 DEF Scan
  <2>2. /\ saved'.expected <= rcv.rev /\ saved'.evicted <= rcv.rev
        /\ saved'.evicting => saved'.archSrc = saved'.expected
    BY <1>3, <1>m, <1>b, ScanRecord
  <2> QED
    BY <1>m, <2>1, <2>2
<1>4. CASE Discover
  <2>1. seen' = seen /\ rcv' = rcv /\ pc = "discover" /\ pc' = "assign" /\ ~saved.evicting
    BY <1>4 DEF Discover, IntentInv, Evicting
  <2> QED
    BY <1>4, <1>m, <2>1, DiscoverRecord
<1>5. CASE Assign
  <2>1. seen' = seen /\ rcv' = rcv /\ pc = "assign"
    BY <1>5 DEF Assign
  <2> QED
    BY <1>5, <1>m, <2>1, AssignRecord
<1>6. CASE DownloadStage \/ CompressStage \/ PushStage
  BY <1>6, <1>m, JobRecord DEF WithRecord, Outside
<1>7. CASE EvictBegin
  <2>1. /\ seen' = seen /\ rcv' = rcv /\ pc' = "unlink" /\ saved.expected = saved.archSrc
    BY <1>7 DEF EvictBegin, SafeToEvict
  <2> QED
    BY <1>7, <1>m, <2>1, EvictRecord
<1>8. CASE EvictRefuse \/ EvictError \/ EvictArchive \/ EvictSidecar
  BY <1>8, <1>m DEF EvictRefuse, EvictError, EvictArchive, EvictSidecar, EvictAborted, IInv, TypeOK
<1>9. CASE Bury
  <2>1. seen' = seen /\ rcv' = rcv /\ pc' = back /\ saved.evicting /\ pc' \notin {"discover", "assign"}
    BY <1>9 DEF Bury, IInv, TypeOK, IntentInv, Evicting
  <2> QED
    BY <1>9, <1>m, <2>1, EvictRecord
<1>10. CASE UNCHANGED vars
  BY <1>10 DEF vars
<1> QED
  BY <1>1, <1>2, <1>3, <1>4, <1>5, <1>6, <1>7, <1>8, <1>9, <1>10
  DEF Next, Environment, Cycle, Eviction

LEMMA BuriedStep ==
  ASSUME "unlink" \notin Faults, "place" \notin Faults,
         IInv, IntentInv, IntentInv', TombInv, [Next]_vars
  PROVE  BuriedInv'
<1>b. Blank.evicted = None /\ ~Blank.evicting
  BY DEF Blank
<1> USE DEF BuriedInv, TombInv, JobFiles
<1>1. CASE Reopen \/ Close \/ Expire \/ Reappear \/ UserDelete \/ Crash \/ Again
  BY <1>1 DEF Reopen, Close, Expire, Reappear, UserDelete, Crash, Again, disk
<1>2. CASE UserPlace
  BY <1>2 DEF UserPlace
<1>3. CASE Boot
  BY <1>3 DEF Boot, disk
<1>4. ASSUME NEW e, NEW o, NEW c, Scan(e, o, c) PROVE BuriedInv'
  <2>1. pc' = "discover" /\ UNCHANGED <<part, raw, xzPart, archive>>
    BY <1>4 DEF Scan, disk
  <2> QED
    BY <1>4, <1>b, <2>1, ScanRecord
<1>5. CASE Discover
  <2>1. pc' = "assign" /\ UNCHANGED <<part, raw, xzPart, archive>>
    BY <1>5 DEF Discover, disk
  <2> QED
    BY <1>5, <2>1, DiscoverRecord
<1>6. CASE Assign
  <2>1. UNCHANGED <<part, raw, xzPart, archive>> /\ pc = "assign" /\ ~saved.evicting
    BY <1>6 DEF Assign, disk, IntentInv, Evicting
  <2> QED
    BY <1>6, <2>1, AssignRecord
<1>7. CASE DownloadStage \/ CompressStage \/ PushStage
  BY <1>7, JobRecord DEF WithRecord, Evicting
<1>8. CASE EvictBegin
  <2>1. pc' = "unlink" /\ saved.known /\ saved.evicted = None /\ ~JobFiles /\ UNCHANGED <<part, raw, xzPart>>
    BY <1>8 DEF EvictBegin, SafeToEvict, disk
  <2> QED
    BY <1>8, <2>1, EvictRecord
<1>9. CASE EvictRefuse
  BY <1>9 DEF EvictRefuse, EvictAborted, disk, IInv, TypeOK
<1>10. CASE EvictError
  BY <1>10 DEF EvictError
<1>11. CASE EvictArchive \/ EvictSidecar
  BY <1>11 DEF EvictArchive, EvictSidecar
<1>12. CASE Bury
  <2>1. saved.evicting /\ archive = NoFile /\ UNCHANGED <<part, raw, xzPart, archive>> /\ pc' = back
    BY <1>12 DEF Bury, IntentInv, Evicting, disk
  <2>2. saved.known
    BY <2>1
  <2> QED
    BY <1>12, <2>1, <2>2, EvictRecord DEF IInv, TypeOK
<1>13. CASE UNCHANGED vars
  BY <1>13 DEF vars
<1> QED
  BY <1>1, <1>2, <1>3, <1>4, <1>5, <1>6, <1>7, <1>8, <1>9, <1>10, <1>11, <1>12, <1>13
  DEF Next, Environment, Cycle, Eviction

LEMMA WorkStep ==
  ASSUME "unlink" \notin Faults, "place" \notin Faults,
         IInv, IntentInv, IntentInv', TombInv, [Next]_vars
  PROVE  WorkInv'
<1> USE DEF WorkInv, TombInv, Resumable, WithRecord, Steps, Outside, Evicting
<1>1. CASE Reopen \/ Close \/ Expire \/ Reappear
  BY <1>1 DEF Reopen, Close, Expire, Reappear, disk, ArchiveReady
<1>2. CASE UserDelete \/ UserPlace \/ Crash \/ Boot \/ Again
  BY <1>2 DEF UserDelete, UserPlace, Crash, Boot, Again
<1>3. ASSUME NEW e, NEW o, NEW c, Scan(e, o, c) PROVE WorkInv'
  BY <1>3 DEF Scan
<1>4. CASE Discover
  BY <1>4 DEF Discover
<1>5. CASE Assign
  <2>1. /\ pc = "assign" /\ UNCHANGED <<raw, archive>>
        /\ seen # None => saved.expected = seen
    BY <1>5 DEF Assign, disk, IInv, StepInv
  <2> QED
    BY <1>5, <2>1, AssignRecord DEF ArchiveReady, GoneInv
<1>6. CASE DownloadStage \/ CompressStage \/ PushStage
  BY <1>6, JobRecord
<1>7. CASE EvictBegin
  <2>1. back' = pc /\ pc' = "unlink" /\ pc = "idle"
    BY <1>7 DEF EvictBegin, SafeToEvict, JobFiles
  <2> QED
    BY <2>1
<1>8. CASE EvictRefuse \/ EvictError \/ EvictArchive \/ EvictSidecar
  BY <1>8 DEF EvictRefuse, EvictError, EvictArchive, EvictSidecar, EvictAborted, IInv, TypeOK
<1>9. CASE Bury
  BY <1>9 DEF Bury, IInv, TypeOK
<1>10. CASE UNCHANGED vars
  BY <1>10 DEF vars, ArchiveReady
<1> QED
  BY <1>1, <1>2, <1>3, <1>4, <1>5, <1>6, <1>7, <1>8, <1>9, <1>10
  DEF Next, Environment, Cycle, Eviction

LEMMA GoneStep ==
  ASSUME "unlink" \notin Faults, IInv, IntentInv, IntentInv', TombInv, [Next]_vars
  PROVE  GoneInv'
<1>m. /\ saved.absent \in 0..1 /\ saved.evicted \in 0..MaxRev /\ saved.archSrc \in 0..MaxRev
      /\ seen \in 0..MaxRev /\ rcv.rev \in 1..MaxRev /\ MaxRev \in Nat
      /\ gone \in [Revs -> -1..2] /\ rcv \in [rev : Revs, status : {"closed", "active", "absent"}]
  BY ConstantsAssumption, RecordFields DEF IInv, TypeOK, Revs, ConstantsAssumption
<1>k. ASSUME UNCHANGED <<saved, gone>>, rcv'.rev \in Int, rcv'.rev >= rcv.rev PROVE GoneInv'
  BY <1>m, <1>k DEF GoneInv, TombInv, Recent, Revs
<1>1. CASE Reopen \/ Close \/ Expire \/ Reappear
  BY <1>1, <1>m, <1>k DEF Reopen, Close, Expire, Reappear, Revs
<1>2. CASE UserDelete \/ UserPlace \/ Crash \/ Boot \/ Again \/ EvictRefuse \/ EvictSidecar
  BY <1>2, <1>m, <1>k DEF UserDelete, UserPlace, Crash, Boot, Again, EvictRefuse, EvictSidecar
<1>3. ASSUME NEW e, NEW o, NEW c \in BOOLEAN, Scan(e, o, c) PROVE GoneInv'
  <2>1. rcv' = rcv /\ ~saved.evicting
    BY <1>3 DEF Scan, IntentInv, Evicting
  <2>2. CASE ~c
    <3>1. gone' = gone
      BY <1>3, <1>m, <2>2 DEF Scan
    <3> QED
      BY <1>3, <1>k, <1>m, <2>1, <2>2, <3>1, ScanRecord
  <2>3. CASE c
    <3>1. ASSUME NEW r \in Revs, gone'[r] \in {0, 1}
          PROVE  /\ gone[r] \in {0, 1}
                 /\ gone'[r] = IF rcv.status # "absent" THEN 0 ELSE gone[r] + 1
      BY <1>3, <1>m, <2>3, <3>1 DEF Scan
    <3>2. CASE saved.evicted = None
      <4>1. saved' = saved
        BY <1>3, <3>2, ScanRecord
      <4> QED
        BY <1>m, <2>1, <3>1, <3>2, <4>1 DEF GoneInv, TombInv, Recent, Revs
    <3>3. CASE saved.evicted # None
      <4>1. archive = NoFile /\ ~JobFiles
        BY <3>3 DEF TombInv, BuriedInv
      <4> DEFINE absent == IF rcv.status # "absent" THEN 0 ELSE saved.absent + 1
      <4>2. CASE absent < 2 /\ saved'.absent = absent /\ saved'.evicted = saved.evicted
                 /\ saved'.evicting = saved.evicting
        BY <1>m, <2>1, <3>1, <3>3, <4>2 DEF GoneInv, TombInv, Recent, Revs
      <4>3. CASE absent >= 2 /\ saved' = Blank
        <5>1. rcv.status = "absent" /\ saved.absent = 1
          BY <1>m, <4>3
        <5>2. ASSUME NEW r \in Revs, Recent(r)', r >= rcv.rev PROVE FALSE
          <6>1. gone[r] \in {0, 1} /\ gone'[r] = gone[r] + 1 /\ gone'[r] \in {0, 1}
            BY <3>1, <5>1, <5>2 DEF Recent
          <6>2. saved.evicted = r
            BY <2>1, <5>2, <6>1 DEF GoneInv, TombInv, Recent
          <6>3. saved.absent <= gone[r]
            BY <6>1, <6>2 DEF GoneInv, TombInv, Recent
          <6> QED
            BY <5>1, <6>1, <6>3
        <5>3. Blank.evicted = None /\ Blank.absent = 0
          BY DEF Blank
        <5> QED
          BY <2>1, <4>3, <5>2, <5>3 DEF GoneInv, Revs
      <4> QED
        BY <1>3, <2>3, <3>3, <4>1, <4>2, <4>3, ScanRecord
    <3> QED
      BY <3>2, <3>3
  <2> QED
    BY <2>2, <2>3
<1>4. CASE Discover
  <2>1. UNCHANGED <<rcv, gone>> /\ ~saved.evicting
    BY <1>4 DEF Discover, IntentInv, Evicting
  <2>2. CASE saved' = saved
    BY <1>k, <1>m, <2>1, <2>2
  <2>3. CASE saved.known /\ saved'.evicted = saved.evicted /\ saved'.evicting = saved.evicting
             /\ saved'.absent = saved.absent
    BY <1>m, <2>1, <2>3 DEF GoneInv, TombInv, Recent
  <2>4. CASE ~saved.known /\ saved'.evicted = None /\ ~saved'.evicting /\ saved'.absent = 0
    <3>1. saved.evicted = None
      BY <2>4 DEF TombInv, BuriedInv
    <3> QED
      BY <1>m, <2>1, <2>4, <3>1 DEF GoneInv, TombInv, Recent, Revs
  <2> QED
    BY <1>4, <2>2, <2>3, <2>4, DiscoverRecord
<1>5. CASE Assign
  <2>1. UNCHANGED <<rcv, gone>> /\ ~saved.evicting /\ pc = "assign"
    BY <1>5 DEF Assign, IntentInv, Evicting
  <2>2. CASE UNCHANGED saved
    BY <1>k, <1>m, <2>1, <2>2
  <2>3. CASE saved'.evicted = None /\ saved'.absent = 0 /\ ~saved'.evicting
             /\ (saved.evicted # None => seen \notin {None, saved.evicted})
    <3>1. saved.evicted # None => saved.evicted < rcv.rev
      BY <1>m, <2>1, <2>3 DEF TombInv, NewestInv
    <3>2. ASSUME NEW r \in Revs, Recent(r), r >= rcv.rev PROVE FALSE
      BY <1>m, <2>1, <3>1, <3>2 DEF GoneInv, TombInv, Revs
    <3> QED
      BY <2>1, <2>3, <3>2 DEF GoneInv, Recent, Revs
  <2> QED
    BY <1>5, <2>1, <2>2, <2>3, AssignRecord DEF GoneInv, TombInv
<1>6. CASE DownloadStage \/ CompressStage \/ PushStage
  <2>1. /\ ~saved.evicting /\ saved.evicted = None /\ saved'.evicted = None /\ saved'.absent = 0
        /\ UNCHANGED <<rcv, gone>>
    BY <1>6, JobRecord DEF TombInv
  <2> QED
    BY <1>m, <2>1 DEF GoneInv, TombInv, Recent, Revs
<1>7. CASE EvictBegin
  <2>1. saved.evicted = None /\ UNCHANGED <<rcv, gone>>
    BY <1>7 DEF EvictBegin, SafeToEvict
  <2>2. saved'.evicted = saved.evicted /\ saved'.absent = saved.absent
    BY <1>7, EvictRecord
  <2>3. ASSUME NEW r \in Revs, Recent(r), r >= rcv.rev PROVE saved.evicting /\ saved.archSrc = r
    BY <2>1, <2>3 DEF GoneInv, TombInv, Revs
  <2>4. ~saved.evicting
    BY <1>7 DEF EvictBegin, IntentInv, Evicting
  <2> QED
    BY <2>1, <2>2, <2>3, <2>4 DEF GoneInv, TombInv, Recent, Revs
<1>8. CASE EvictError
  BY <1>8 DEF EvictError
<1>9. CASE EvictArchive
  <2>1. saved' = saved /\ rcv' = rcv /\ saved.evicting /\ saved.evicted = None
    BY <1>9 DEF EvictArchive, IntentInv, Evicting, TombInv, BuriedInv
  <2>2. \A r \in Revs : r # saved.archSrc => gone'[r] = gone[r]
    BY <1>9, <1>m DEF EvictArchive
  <2> QED
    BY <1>m, <2>1, <2>2 DEF GoneInv, TombInv, Recent, Revs
<1>10. CASE Bury
  <2>1. saved.evicting /\ saved.evicted = None /\ UNCHANGED <<rcv, gone>>
    BY <1>10 DEF Bury, IntentInv, Evicting, TombInv, BuriedInv
  <2>2. saved'.absent = 0 /\ saved'.evicted = saved.archSrc /\ ~saved'.evicting
    BY <1>10, <2>1, EvictRecord DEF GoneInv, TombInv
  <2> QED
    BY <1>m, <2>1, <2>2 DEF GoneInv, TombInv, Recent, Revs
<1>11. CASE UNCHANGED vars
  BY <1>m, <1>k, <1>11 DEF vars
<1> QED
  BY <1>1, <1>2, <1>3, <1>4, <1>5, <1>6, <1>7, <1>8, <1>9, <1>10, <1>11
  DEF Next, Environment, Cycle, Eviction

\* Only the open of a RETR leads from "open" to "recv".
LEMMA OpenFrame ==
  ASSUME IInv, [Next]_vars, pc = "open", pc' = "recv" PROVE Open
<1>1. CASE Environment
  BY <1>1 DEF Environment, Reopen, Close, Expire, Reappear, UserDelete, UserPlace, Crash
<1>2. CASE Boot \/ Discover \/ Assign \/ Again
  BY <1>2 DEF Boot, Discover, Assign, Again
<1>3. ASSUME NEW e, NEW o, NEW c, Scan(e, o, c) PROVE FALSE
  BY <1>3 DEF Scan
<1>4. CASE DownloadStage
  BY <1>4 DEF DownloadStage, Defer, StartDownload, Admit, Block, FetchKept, FetchPartial, RestRejected,
              Recv, Overflow, Eof, Drop, Verify, SourceChanged, RenameRaw, CommitRaw, FailDownload
<1>5. CASE CompressStage \/ PushStage
  BY <1>5 DEF CompressStage, SkipXz, RefuseXz, Adopt, StartXz, FailXz, Publish, CommitPublished, Sidecar,
              FailSidecar, UnlinkRaw, DropRaw, CommitArchive, PushStage, StartPush, EndPush, Send, FailSend
<1>6. CASE Eviction
  BY <1>6 DEF Eviction, EvictBegin, EvictRefuse, EvictError, EvictArchive, EvictSidecar, Bury
<1>7. CASE UNCHANGED vars
  BY <1>7 DEF vars
<1> QED
  BY <1>1, <1>2, <1>3, <1>4, <1>5, <1>6, <1>7 DEF Next, Cycle

\* A revision that was evicted is fetched again only after two complete inventories
\* in a row have missed it (gc_evicted, plan), whatever crashes, failures, restarts
\* with other targets and absences of the receiver's file there are: as long as no
\* unlink fails and nobody puts a file under the archive's name.
THEOREM NotRefetched ==
  "unlink" \notin Faults /\ "place" \notin Faults => (Spec => NoRefetch)
<1> SUFFICES ASSUME "unlink" \notin Faults, "place" \notin Faults PROVE Spec => NoRefetch
  OBVIOUS
<1> DEFINE Inv == IInv /\ IntentInv /\ TombInv
           Fetched == pc = "open" /\ pc' = "recv" => gone[mem.expected] \in {-1, 2}
<1>1. Init => Inv
  BY InitIInv, IntentInit, TombInit
<1>2. Inv /\ [Next]_vars => Inv'
  <2> SUFFICES ASSUME Inv, [Next]_vars PROVE Inv'
    OBVIOUS
  <2>1. IInv' /\ IntentInv'
    BY InvariantStep, IntentStep
  <2> QED
    BY <2>1, NewestStep, BuriedStep, WorkStep, GoneStep DEF TombInv
<1>3. Inv /\ [Next]_vars => [Fetched]_vars
  <2> SUFFICES ASSUME Inv, [Next]_vars, pc = "open", pc' = "recv"
               PROVE  gone[mem.expected] \in {-1, 2}
    OBVIOUS
  <2>1. mem.expected = rcv.rev
    BY OpenFrame DEF Open, SourceUnchanged
  <2>2. rcv.rev \in Revs /\ gone[rcv.rev] \in -1..2 /\ rcv.rev \in Int
    BY ConstantsAssumption DEF IInv, TypeOK, Revs, ConstantsAssumption
  <2>3. saved.evicted = None /\ ~saved.evicting
    BY DEF TombInv, WorkInv, IntentInv, WithRecord, Steps, Outside, Evicting
  <2>4. ~Recent(rcv.rev)
    BY <2>2, <2>3 DEF TombInv, GoneInv, Revs
  <2> QED
    BY <2>1, <2>2, <2>4 DEF Recent
<1> QED
  BY <1>1, <1>2, <1>3, PTL DEF Spec, NoRefetch

=============================================================================
