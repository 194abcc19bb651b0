--------------------------- MODULE MosaicPipeline ---------------------------
(***************************************************************************)
(* One scan of the mosaic mirror (mosaic_push.py, cycle()): a coordinator  *)
(* hands the planned files to three workers, download, compress and push,  *)
(* through their queues; a worker hands a file on to the next stage.  A    *)
(* storage limit lets one file at a time into the pipeline.  SIGTERM sets  *)
(* stop at any moment.                                                     *)
(*                                                                         *)
(* Abstractions.  What a stage does to its file is MosaicArchive's matter; *)
(* here it succeeds, fails, or is turned away by storage admission.  The   *)
(* timeouts of put, get and wait bring a thread back to its look at stop:  *)
(* a thread that polls either completes the operation, even if stop was    *)
(* set after its last look, or gives up because stop is set.  The look     *)
(* before the first attempt is part of the step that leads there.          *)
(***************************************************************************)
EXTENDS Naturals, Sequences, FiniteSets, SequencesExt

CONSTANTS
    MaxFiles,   \* files the plan of one scan holds
    Slots,      \* maxsize of the compression queue (2 in the code)
    LimitModes  \* subset of BOOLEAN: scans with and without storage.limit_gib

ASSUME ConstantsAssumption ==
    MaxFiles \in Nat /\ Slots \in Nat \ {0} /\ LimitModes \subseteq BOOLEAN

Files == 1..MaxFiles
Stages == {"download", "compress", "push"}
NoFile == 0

VARIABLES
    plan,      \* plan[f]: initial stage of file f; files are queued in order
    limited,   \* storage.limit_gib is set
    next,      \* first file not queued yet
    coord,     \* the coordinator's place in cycle()
    closing,   \* worker the coordinator ends, as an index of Order
    queue,     \* the three work queues; NoFile is the None that ends a worker
    at,        \* at[s]: where worker s is in consume() and its action
    work,      \* work[s]: the file worker s holds, NoFile if none
    pinned, reserved,  \* files no eviction may take, files with reserved space
    event,     \* job_finished
    stop,      \* shutdown requested
    dropped,   \* files a put gave up on because of stop
    kept,      \* raw copies downloaded by this scan and not compressed yet
    done       \* files whose job has ended

control == <<plan, limited, next, coord, closing>>
workers == <<queue, at, work>>
storage == <<pinned, reserved>>
history == <<dropped, kept, done>>
vars == <<plan, limited, next, coord, closing, queue, at, work, pinned, reserved, event, stop,
          dropped, kept, done>>

\* The order in which the coordinator ends the workers, upstream first.
Order == <<"download", "compress", "push">>

Downstream == [download |-> "compress", compress |-> "push"]

\* The queue in front of the compressor is bounded, the others are not.
Room(s) == s = "compress" => Len(queue[s]) < Slots

Init ==
    /\ plan \in {p \in [Files -> Stages] :
                   \A f, g \in Files : f < g /\ p[g] = "push" => p[f] = "push"}
    /\ limited \in LimitModes
    /\ next = 1 /\ coord = "next" /\ closing = 1
    /\ queue = [s \in Stages |-> <<>>]
    /\ at = [s \in Stages |-> "get"] /\ work = [s \in Stages |-> NoFile]
    /\ pinned = {} /\ reserved = {} /\ event = FALSE /\ stop = FALSE
    /\ dropped = {} /\ kept = {} /\ done = {}

Shutdown ==
    /\ ~stop /\ coord # "end" /\ stop' = TRUE
    /\ UNCHANGED <<control, workers, storage, event, history>>

(***************************************************************************)
(* The coordinator.                                                        *)
(***************************************************************************)

\* job_finished.clear() comes before the job can finish.
ClearedEvent == FALSE

NextJob ==
    /\ coord = "next" /\ next <= MaxFiles
    /\ event' = ClearedEvent /\ pinned' = pinned \cup {next}
    /\ coord' = IF stop THEN "close" ELSE "put"
    /\ UNCHANGED <<plan, limited, next, closing, workers, reserved, stop, history>>

NoMoreJobs ==
    /\ coord = "next" /\ next > MaxFiles /\ coord' = "close"
    /\ UNCHANGED <<plan, limited, next, closing, workers, storage, event, stop, history>>

\* With a limit the coordinator waits for the file to leave the pipeline.
Continue == IF limited THEN "wait" ELSE "next"

PutJob ==
    /\ coord = "put" /\ Room(plan[next])
    /\ queue' = [queue EXCEPT ![plan[next]] = Append(@, next)]
    /\ next' = next + 1 /\ coord' = Continue
    /\ UNCHANGED <<plan, limited, closing, at, work, storage, event, stop, history>>

GiveUpJob ==
    /\ coord = "put" /\ stop /\ coord' = "close"
    /\ UNCHANGED <<plan, limited, next, closing, workers, storage, event, stop, history>>

AwaitJob ==
    /\ coord = "wait" /\ (event \/ stop)
    /\ coord' = IF stop THEN "close" ELSE "next"
    /\ UNCHANGED <<plan, limited, next, closing, workers, storage, event, stop, history>>

\* Mutant: the consumers are ended before their producers.
ClosingReversed == Order[4 - closing]

Closing == Order[closing]

\* finally: enqueue(None) is given up when stop is set, then the join.
CloseQueue ==
    /\ coord = "close" /\ coord' = "join"
    /\ \/ stop /\ UNCHANGED queue
       \/ /\ ~stop /\ Room(Closing)
          /\ queue' = [queue EXCEPT ![Closing] = Append(@, NoFile)]
    /\ UNCHANGED <<plan, limited, next, closing, at, work, storage, event, stop, history>>

Join ==
    /\ coord = "join" /\ at[Closing] = "ended"
    /\ IF closing < 3 THEN closing' = closing + 1 /\ coord' = "close"
                      ELSE coord' = "end" /\ UNCHANGED closing
    /\ UNCHANGED <<plan, limited, next, workers, storage, event, stop, history>>

(***************************************************************************)
(* The workers: consume() around download_job, compress_job and push_file. *)
(***************************************************************************)
\* A worker that is done with a file looks at stop before it takes the next one.
Release(s) ==
    /\ at' = [at EXCEPT ![s] = IF stop THEN "ended" ELSE "get"]
    /\ work' = [work EXCEPT ![s] = NoFile]

\* finish_job(): the reservation and the pin go, the coordinator is woken.
FinishJob(s) ==
    /\ pinned' = pinned \ {work[s]} /\ reserved' = reserved \ {work[s]}
    /\ event' = TRUE /\ done' = done \cup {work[s]}
    /\ Release(s)

Rest(s) == Tail(queue[s])

Taken(s) == IF Head(queue[s]) = NoFile THEN "ended" ELSE "start"

Get(s) ==
    /\ at[s] = "get" /\ queue[s] # <<>>
    /\ queue' = [queue EXCEPT ![s] = Rest(s)]
    /\ work' = [work EXCEPT ![s] = Head(queue[s])]
    /\ at' = [at EXCEPT ![s] = Taken(s)]
    /\ UNCHANGED <<control, storage, event, stop, history>>

\* queue.Empty after a quarter of a second, and stop is set.
Quit(s) ==
    /\ at[s] = "get" /\ stop /\ at' = [at EXCEPT ![s] = "ended"]
    /\ UNCHANGED <<control, queue, work, storage, event, stop, history>>

\* reserve(); a file that comes from the downloader has its reservation already.
Reserve(s) ==
    /\ at[s] = "start" /\ at' = [at EXCEPT ![s] = "run"]
    /\ reserved' = IF s = "push" THEN reserved ELSE reserved \cup {work[s]}
    /\ UNCHANGED <<control, queue, work, pinned, event, stop, history>>

\* The retry backoff defers a download, or storage admission refuses the file.
TurnAway(s) ==
    /\ at[s] = "start" /\ s # "push"
    /\ s = "compress" => work[s] \notin reserved
    /\ FinishJob(s)
    /\ UNCHANGED <<control, queue, stop, dropped, kept>>

\* Mutant: a failed stage is only logged.
FailedForgotten(s) == Release(s) /\ UNCHANGED <<pinned, reserved, event, done>>

Failed(s) == FinishJob(s)

\* The action raises, the check of stop inside it included.
Fail(s) ==
    /\ at[s] = "run" /\ Failed(s)
    /\ UNCHANGED <<control, queue, stop, dropped, kept>>

\* push_file() returns, whether or not its targets took the file.
Pushed ==
    /\ at["push"] = "run" /\ FinishJob("push")
    /\ UNCHANGED <<control, queue, stop, dropped, kept>>

\* Mutant: each stage releases the file it hands on.
HandReleased(s) == pinned' = pinned \ {work[s]} /\ reserved' = reserved \ {work[s]}

\* Pin and reservation stay with the file on its way through the pipeline.
HandOn(s) == UNCHANGED storage

Succeed(s) ==
    /\ s # "push" /\ at[s] = "run"
    /\ kept' = IF s = "download" THEN kept \cup {work[s]} ELSE kept \ {work[s]}
    /\ HandOn(s)
    /\ IF stop THEN Release(s) /\ dropped' = dropped \cup {work[s]}
               ELSE at' = [at EXCEPT ![s] = "put"] /\ UNCHANGED <<work, dropped>>
    /\ UNCHANGED <<control, queue, event, stop, done>>

Put(s) ==
    /\ at[s] = "put" /\ Room(Downstream[s])
    /\ queue' = [queue EXCEPT ![Downstream[s]] = Append(@, work[s])]
    /\ Release(s)
    /\ UNCHANGED <<control, storage, event, stop, history>>

GiveUp(s) ==
    /\ at[s] = "put" /\ stop /\ Release(s) /\ dropped' = dropped \cup {work[s]}
    /\ UNCHANGED <<control, queue, storage, event, stop, kept, done>>

(***************************************************************************)
(* Specification.                                                          *)
(***************************************************************************)
Coordinator == NextJob \/ NoMoreJobs \/ PutJob \/ GiveUpJob \/ AwaitJob \/ CloseQueue \/ Join

Worker(s) == Get(s) \/ Quit(s) \/ Reserve(s) \/ TurnAway(s) \/ Fail(s)
             \/ (s = "push" /\ Pushed) \/ Succeed(s) \/ Put(s) \/ GiveUp(s)

Ended == coord = "end" /\ UNCHANGED vars

Next == Shutdown \/ Coordinator \/ (\E s \in Stages : Worker(s)) \/ Ended

Spec == Init /\ [][Next]_vars

\* Every thread keeps running: transfers end by their timeouts and by the watch
\* that closes their sockets, xz by its output bound.
FairSpec == Spec /\ WF_vars(Coordinator) /\ \A s \in Stages : WF_vars(Worker(s))

(***************************************************************************)
(* Properties.                                                             *)
(***************************************************************************)
\* Only files are worked on: the None that ends a worker is never taken for one,
\* pinned or reserved for.
TypeOK ==
    /\ plan \in [Files -> Stages] /\ limited \in BOOLEAN /\ next \in 1..(MaxFiles + 1)
    /\ coord \in {"next", "put", "wait", "close", "join", "end"} /\ closing \in 1..3
    /\ queue \in [Stages -> Seq({NoFile} \cup Files)]
    /\ at \in [Stages -> {"get", "start", "run", "put", "ended"}]
    /\ work \in [Stages -> {NoFile} \cup Files]
    /\ pinned \subseteq Files /\ reserved \subseteq Files
    /\ event \in BOOLEAN /\ stop \in BOOLEAN
    /\ dropped \subseteq Files /\ kept \subseteq Files /\ done \subseteq Files

Queued(s) == Range(queue[s]) \ {NoFile}
InFlight == (UNION {Queued(s) : s \in Stages}) \cup (Range(work) \ {NoFile})

\* A file that is queued or worked on is pinned, so that no eviction that another
\* file's admission starts can take its archive, at any hand-over and failure.
InFlightPinned == InFlight \subseteq pinned

\* With a storage limit a single file is in the pipeline: its reservation was
\* made against what the others had settled.
SerialUnderLimit == limited => Cardinality(InFlight) <= 1

\* "Backpressure bounds newly downloaded raw backlog": besides the downloader's
\* own, the raw copies in the pipeline are the active compression and a full queue.
BacklogBounded == Cardinality(kept \cap (InFlight \ {work["download"]})) <= Slots + 1

\* What the disk accounting counts on, in every interleaving of the coordinator
\* and the workers.
AdmissionSafe == InFlightPinned /\ SerialUnderLimit /\ BacklogBounded

\* A scan that is not shut down gives every planned file its turn and leaves no
\* pin or reservation behind.
Drained == coord = "end" /\ ~stop => done = Files /\ pinned = {} /\ reserved = {} /\ InFlight = {}

\* The scan ends, shut down or not: no thread waits forever for a place in a
\* queue, for the event or for a worker that has already gone.
Ends == <>(coord = "end")
=============================================================================
