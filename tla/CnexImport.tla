---------------------------- MODULE CnexImport ----------------------------
(***************************************************************************)
(* The publication of a CommonNEX import                                   *)
(* (python-src/neognss_observatory/cnex_import.py, run).  The main thread  *)
(* feeds chunks to the native reader, one writer thread partitions what    *)
(* comes out and publishes closed days, catalog threads compress.  Parts   *)
(* are staged, renamed into place one by one, and then named by a          *)
(* continuation state that a later invocation resumes from.                *)
(*                                                                         *)
(* A chunk stands for the records read out of it: CnexReader shows that    *)
(* they do not depend on where an import was continued.                    *)
(***************************************************************************)
EXTENDS Integers, Sequences, SequencesExt, FiniteSetsExt, Functions

CONSTANTS
    Catalogs,      \* sequence of the catalogs, in the order they are written
    Rows,          \* Rows[c]: the keys <<day, catalog>> chunk c has records of
    CursorDay,     \* CursorDay[c]: the latest day an axis has reached after c
    SafeDay,       \* SafeDay[c]: the day no earlier record can follow after c
    PoolSize,      \* open writers at a time (8)
    None,
    MaxRuns, MaxCrashes, MaxFailures     \* bounds

Chunks == DOMAIN Rows
Keys == UNION {Rows[c] : c \in Chunks}
Days == {k[1] : k \in Keys} \cup {CursorDay[c] : c \in Chunks}

ASSUME ImportAssumption ==
    /\ None \notin Int /\ None \notin Int \X Range(Catalogs)
    /\ Rows \in Seq(SUBSET (Int \X Range(Catalogs)))
    /\ CursorDay \in Seq(Int) /\ SafeDay \in Seq(Int)
    /\ Len(CursorDay) = Len(Rows) /\ Len(SafeDay) = Len(Rows)
    /\ PoolSize \in Nat \ {0}

VARIABLES
    \* The station directory.
    parts,         \* part name -> the chunks its records come from, in order
    states,        \* day -> continuation state
    tmp,           \* days whose directory holds a temporary state file
    \* The invocation.
    main,          \* "off", "feeding", "raised" or "final"
    fed,           \* last chunk fed
    last,          \* last chunk of the supplied inputs
    mode,          \* "new", "tail" or "rebuild"
    queue,         \* chunks handed to the writer thread, the one it works on first
    failure,       \* writer_failure
    step,          \* what the publishing thread does
    todo,          \* keys of the chunk still to be written
    busy,          \* catalog -> key its thread compresses, or None
    broken,        \* catalogs whose thread raised
    writers,       \* key -> [name, recs, open]
    closed,        \* parts closed by eviction: {[name, recs], ...}
    active,        \* open writers, least recently used first
    started,       \* keys this invocation has begun
    outputs,       \* closed parts still to be renamed
    published,     \* names the next state will list
    current,       \* day of the state this one continues, or None
    budget         \* runs, crashes and failures so far

disk == <<parts, states, tmp>>
thread == <<main, fed, last, mode, queue, failure>>
staging == <<todo, busy, broken, writers, closed, active, started>>
publication == <<outputs, published, current>>
vars == <<disk, thread, step, staging, publication, budget>>

-----------------------------------------------------------------------------
(* Names of parts.                                                         *)

Name(key, rev, part) == [key |-> key, rev |-> rev, part |-> part]

\* latest_parts: the parts of the highest revision.
PartsOf(key) == {p \in DOMAIN parts : p.key = key}
LatestParts(key) == {p \in PartsOf(key) : \A q \in PartsOf(key) : q.rev <= p.rev}

\* next_name, and the next part of a key this invocation has begun.
NextName(key, how) ==
    LET rev == Max({p.rev : p \in LatestParts(key)})
    IN  IF PartsOf(key) = {} THEN Name(key, 0, 0)
        ELSE IF how = "rebuild" THEN Name(key, rev + 1, 0)
        ELSE Name(key, rev, 1 + Max({p.part : p \in LatestParts(key)}))

Named(key) ==
    IF key \in DOMAIN writers
      THEN [writers[key].name EXCEPT !.part = @ + 1]
      ELSE NextName(key, IF key \in started THEN "tail" ELSE mode)

\* "new" refuses a catalog that exists, instead of guessing what is meant.
Refused(key) ==
    /\ key \notin DOMAIN writers /\ key \notin started
    /\ mode = "new" /\ PartsOf(key) # {}

\* Mutant: the chunk that was cut off is taken for a new one.
BeforeTailStrict(key, c) ==
    /\ mode = "tail" /\ key[2] = "observations"
    /\ \E p \in LatestParts(key) : \E i \in DOMAIN parts[p] : c < parts[p][i]

\* check_tail: a continuation never writes observations before published ones;
\* a chunk covers several epochs, so its own records count as before its end.
BeforeTail(key, c) ==
    /\ mode = "tail" /\ key[2] = "observations"
    /\ \E p \in LatestParts(key) : \E i \in DOMAIN parts[p] : c <= parts[p][i]

-----------------------------------------------------------------------------

Idle == \A k \in DOMAIN busy : busy[k] = None
NoWrites == [k \in Range(Catalogs) |-> None]

Init ==
    /\ parts = <<>> /\ states = <<>> /\ tmp = {}
    /\ main = "off" /\ fed = 0 /\ last = 0 /\ mode = "new" /\ queue = <<>> /\ failure = FALSE
    /\ step = "idle" /\ todo = {} /\ busy = NoWrites /\ broken = {}
    /\ writers = <<>> /\ closed = {} /\ active = <<>> /\ started = {}
    /\ outputs = {} /\ published = {} /\ current = None
    /\ budget = [runs |-> 0, crashes |-> 0, failures |-> 0]

Launch ==
    /\ main = "off"
    /\ budget.runs < MaxRuns /\ budget' = [budget EXCEPT !.runs = @ + 1]
    /\ main' = "feeding"
    /\ UNCHANGED <<disk, queue, failure, step, staging, outputs>>

\* What is not on disk ends with the process.
Gone ==
    /\ main' = "off" /\ fed' = 0 /\ last' = 0 /\ mode' = "new" /\ queue' = <<>> /\ failure' = FALSE
    /\ step' = "idle" /\ todo' = {} /\ busy' = NoWrites /\ broken' = {}
    /\ writers' = <<>> /\ closed' = {} /\ active' = <<>> /\ started' = {}
    /\ outputs' = {} /\ published' = {} /\ current' = None

\* No state to continue, or --rebuild from the complete input.
Begin ==
    /\ Launch /\ last' \in Chunks
    /\ fed' = 0 /\ published' = {} /\ current' = None
    /\ mode' \in {"new", "rebuild"}
    /\ mode' = "new" => \A d \in DOMAIN states : states[d].continued

\* A state not continued yet, the newest one or the one --resume-from names;
\* not when a part it names was superseded, nor when nothing new was supplied.
Resume ==
    /\ Launch
    /\ \E d \in DOMAIN states :
         /\ ~states[d].continued
         /\ \A p \in states[d].published : p \in LatestParts(p.key)
         /\ last' \in {c \in Chunks : c > states[d].next}
         /\ fed' = states[d].next /\ published' = states[d].published /\ current' = d
    /\ mode' = "tail"

-----------------------------------------------------------------------------
(* Main thread.                                                            *)

\* At most two chunks outstanding, the active one included.
Feed ==
    /\ main = "feeding" /\ ~failure /\ fed < last /\ Len(queue) < 2
    /\ fed' = fed + 1 /\ queue' = Append(queue, fed')
    /\ UNCHANGED <<disk, main, last, mode, failure, step, staging, publication, budget>>

Fails == budget.failures < MaxFailures /\ budget' = [budget EXCEPT !.failures = @ + 1]

\* The reader or the input raises; queued chunks are still written.
FeedFails ==
    /\ main = "feeding" /\ Fails
    /\ main' = "raised"
    /\ UNCHANGED <<disk, fed, last, mode, queue, failure, step, staging, publication>>

\* result() of a failed job raises in the main thread.
Notice ==
    /\ main = "feeding" /\ failure /\ main' = "raised"
    /\ UNCHANGED <<disk, fed, last, mode, queue, failure, step, staging, publication, budget>>

\* All jobs are done: the rest is published by the main thread.
Finish ==
    /\ main = "feeding" /\ ~failure /\ fed = last /\ queue = <<>> /\ step = "idle"
    /\ IF started = {} THEN main' = "raised" /\ UNCHANGED step
                       ELSE main' = "final" /\ step' = "close"
    /\ UNCHANGED <<disk, fed, last, mode, queue, failure, staging, publication, budget>>

\* The pools are drained before the command returns.
Exit ==
    /\ \/ main = "raised" /\ queue = <<>>
       \/ main = "final" /\ (failure \/ step = "idle")
    /\ Idle /\ Gone
    /\ UNCHANGED <<disk, budget>>

-----------------------------------------------------------------------------
(* Writer thread: write_batches and write_catalogs.                        *)

Job == queue[1]

\* The catalogs in order, each with its days in order.
Place(key) == CHOOSE n \in DOMAIN Catalogs : Catalogs[n] = key[2]
Upcoming(key) ==
    /\ key \in todo
    /\ \A other \in todo : \/ Place(key) < Place(other)
                           \/ Place(key) = Place(other) /\ key[1] <= other[1]

\* Mutant: the writer thread ends with its first failure.
TakeUnlessFailed ==
    /\ step = "idle" /\ queue # <<>> /\ main \in {"feeding", "raised"} /\ ~failure
    /\ step' = "write" /\ todo' = Rows[Job]
    /\ UNCHANGED <<disk, thread, busy, broken, writers, closed, active, started,
                   publication, budget>>

\* A chunk behind a failed one raises again instead of being written.
Take ==
    /\ step = "idle" /\ queue # <<>> /\ main \in {"feeding", "raised"}
    /\ IF failure THEN queue' = Tail(queue) /\ UNCHANGED <<step, todo>>
                  ELSE step' = "write" /\ todo' = Rows[Job] /\ UNCHANGED queue
    /\ UNCHANGED <<disk, main, fed, last, mode, failure, busy, broken, writers, closed,
                   active, started, publication, budget>>

\* An exception ends the job and poisons the ones behind it.
Poison ==
    /\ failure' = TRUE /\ step' = "idle" /\ todo' = {}
    /\ queue' = IF main = "final" THEN queue ELSE Tail(queue)
    /\ UNCHANGED <<disk, main, fed, last, mode, busy, broken, writers, closed, active,
                   started, publication>>

IsOpen(key) == key \in DOMAIN writers /\ writers[key].open
MustEvict(key) == ~IsOpen(key) /\ Len(active) >= PoolSize

\* check_tail or next_name raises, or the result of a catalog thread asked for:
\* its own one before the next batch, all of them before an eviction and at the end.
WriteRaises ==
    /\ step = "write"
    /\ \/ todo = {} /\ broken # {}
       \/ \E key \in todo :
            /\ Upcoming(key)
            /\ \/ BeforeTail(key, Job) \/ Refused(key) \/ key[2] \in broken
               \/ MustEvict(key) /\ broken # {}
    /\ Poison /\ UNCHANGED budget

\* Moved to the end of the least recently used.
Recent(key) ==
    LET at == CHOOSE i \in DOMAIN active : active[i] = key
    IN  IF key \in Range(active)
          THEN Append([i \in 1..Len(active) - 1 |-> active[IF i < at THEN i ELSE i + 1]], key)
          ELSE Append(active, key)
Opened(key) ==
    [k \in DOMAIN writers \cup {key} |->
        IF k = key THEN [name |-> Named(key), recs |-> <<>>, open |-> TRUE] ELSE writers[k]]

\* get_writer without eviction, and the batch handed to the catalog's thread.
Submit(key) ==
    /\ busy' = [busy EXCEPT ![key[2]] = key]
    /\ todo' = todo \ {key}
    /\ active' = Recent(key) /\ started' = started \cup {key}

Writable(key) ==
    /\ step = "write" /\ Upcoming(key)
    /\ busy[key[2]] = None /\ key[2] \notin broken
    /\ ~BeforeTail(key, Job) /\ ~Refused(key)

Write(key) ==
    /\ Writable(key) /\ ~MustEvict(key)
    /\ writers' = IF IsOpen(key) THEN writers ELSE Opened(key)
    /\ Submit(key)
    /\ UNCHANGED <<disk, thread, step, broken, closed, publication, budget>>

\* Mutant: an eviction does not wait for the catalog threads.
DrainedNot == broken = {}

\* drain_catalogs in get_writer: never close a writer still compressing.
Drained == Idle /\ broken = {}

Staged(key) == [name |-> writers[key].name, recs |-> writers[key].recs]

\* The least recently used writer makes room; its part is closed.
Evict(key) ==
    /\ Writable(key) /\ MustEvict(key) /\ Drained
    /\ LET victim == active[1]
       IN  /\ closed' = closed \cup {Staged(victim)}
           /\ writers' = [writers EXCEPT ![victim].open = FALSE]
           /\ active' = Tail(active)
    /\ UNCHANGED <<disk, thread, step, todo, busy, broken, started, publication, budget>>

\* A catalog thread ends its batch; the file holds the records then.
CatalogDone(k) ==
    /\ busy[k] # None
    /\ busy' = [busy EXCEPT ![k] = None]
    /\ writers' = IF step = "write" THEN [writers EXCEPT ![busy[k]].recs = Append(@, Job)]
                  ELSE writers
    /\ UNCHANGED <<disk, thread, step, todo, broken, closed, active, started, publication,
                   budget>>

CatalogFails(k) ==
    /\ busy[k] # None /\ Fails
    /\ busy' = [busy EXCEPT ![k] = None] /\ broken' = broken \cup {k}
    /\ UNCHANGED <<disk, thread, step, todo, writers, closed, active, started, publication>>

\* Days that can receive no more records are published with all that is open.
Due == {k \in DOMAIN writers : k[1] < SafeDay[Job]} # {}

EndJob ==
    /\ step = "write" /\ todo = {} /\ Idle /\ broken = {}
    /\ IF Due THEN step' = "close" /\ UNCHANGED queue
              ELSE step' = "idle" /\ queue' = Tail(queue)
    /\ UNCHANGED <<disk, main, fed, last, mode, failure, staging, publication, budget>>

-----------------------------------------------------------------------------
(* publish(snapshot), on the writer thread or, at the end, the main thread. *)

\* Mutant: the reader's position when the parts are published, not the chunk's.
SnapshotLate == IF main = "final" THEN last ELSE fed

Snapshot == IF main = "final" THEN last ELSE Job

\* A rebuilt day replaces every catalog it had, with nothing if need be.
Emptied ==
    IF mode # "rebuild" THEN {}
    ELSE {key \in {k[1] : k \in DOMAIN writers} \X Range(Catalogs) :
             key \notin started /\ PartsOf(key) # {}}

Close ==
    /\ step = "close"
    /\ LET all == closed \cup {Staged(key) : key \in {k \in DOMAIN writers : writers[k].open}}
                         \cup {[name |-> Named(key), recs |-> <<>>] : key \in Emptied}
       IN  IF \E o \in all : o.name \in DOMAIN parts
             THEN Poison
             ELSE /\ outputs' = all /\ step' = "rename"
                  /\ started' = started \cup Emptied
                  /\ UNCHANGED <<disk, thread, todo, busy, broken, writers, closed, active,
                                 published, current>>
    /\ UNCHANGED budget

\* Parts closed early come first, those that empty a catalog last; the rest of the
\* order, among keys, is left open.
Rank(o) == IF o \in closed THEN 0 ELSE IF o.name.key \in DOMAIN writers THEN 1 ELSE 2

Rename(o) ==
    /\ step = "rename" /\ o \in outputs
    /\ \A other \in outputs :
         /\ Rank(o) <= Rank(other)
         /\ other.name.key = o.name.key => o.name.part <= other.name.part
    /\ parts' = [p \in DOMAIN parts \cup {o.name} |-> IF p = o.name THEN o.recs ELSE parts[p]]
    /\ published' = published \cup {o.name}
    /\ outputs' = outputs \ {o}
    /\ UNCHANGED <<states, tmp, thread, step, staging, current, budget>>

RenameFails ==
    /\ step = "rename" /\ outputs # {} /\ Fails /\ Poison

\* write_json: an exclusive temporary file, then a rename over the state.
NextDay == CursorDay[Snapshot]

OpenState(day) ==
    IF day \in tmp THEN Poison
    ELSE /\ tmp' = tmp \cup {day}
         /\ UNCHANGED <<parts, states, thread, staging, publication>>

SaveBegin ==
    /\ step = "rename" /\ outputs = {}
    /\ OpenState(NextDay)
    /\ NextDay \notin tmp => step' = "save"
    /\ UNCHANGED budget

Put(day, state) == [d \in DOMAIN states \cup {day} |-> IF d = day THEN state ELSE states[d]]

Cleared ==
    /\ writers' = <<>> /\ closed' = {} /\ active' = <<>>
    /\ UNCHANGED <<busy, broken, started, todo, outputs, published>>

\* The job is done, or the command returns.
Published ==
    /\ step' = "idle" /\ queue' = IF main = "final" THEN queue ELSE Tail(queue)
    /\ Cleared

Save ==
    /\ step = "save"
    /\ tmp' = tmp \ {NextDay}
    /\ states' = Put(NextDay, [next |-> Snapshot, published |-> published,
                               continued |-> FALSE])
    /\ IF current \in {None, NextDay}
         THEN current' = NextDay /\ Published
         ELSE step' = "mark" /\ UNCHANGED <<current, queue, staging, outputs, published>>
    /\ UNCHANGED <<parts, main, fed, last, mode, failure, budget>>

\* The state this one continues is consumed.
MarkBegin ==
    /\ step = "mark"
    /\ OpenState(current)
    /\ current \notin tmp => step' = "marking"
    /\ UNCHANGED budget

Mark ==
    /\ step = "marking"
    /\ tmp' = tmp \ {current}
    /\ states' = [states EXCEPT ![current].continued = TRUE]
    /\ current' = NextDay /\ Published
    /\ UNCHANGED <<parts, main, fed, last, mode, failure, budget>>

-----------------------------------------------------------------------------

\* The process is killed: what is on disk stays, a temporary state included.
Crash ==
    /\ main # "off" /\ budget.crashes < MaxCrashes
    /\ budget' = [budget EXCEPT !.crashes = @ + 1]
    /\ Gone /\ UNCHANGED disk

\* The user removes a temporary state a crash left.
Tidy ==
    /\ main = "off" /\ tmp # {} /\ tmp' = {}
    /\ UNCHANGED <<parts, states, thread, step, staging, publication, budget>>

MainThread == Feed \/ Notice \/ Finish \/ Exit
WriterThread == Take \/ WriteRaises \/ EndJob \/ \E key \in todo : Write(key) \/ Evict(key)
Publication == Close \/ (\E o \in outputs : Rename(o)) \/ SaveBegin \/ Save \/ MarkBegin \/ Mark
CatalogThreads == \E k \in Range(Catalogs) : CatalogDone(k)
Failures == FeedFails \/ RenameFails \/ (\E k \in Range(Catalogs) : CatalogFails(k)) \/ Crash

Next == \/ Begin \/ Resume \/ MainThread \/ WriterThread \/ Publication
        \/ CatalogThreads \/ Failures \/ Tidy

Spec == Init /\ [][Next]_vars

\* Threads that can go on do; nobody is obliged to start an import.
FairSpec ==
    Spec /\ WF_vars(MainThread) /\ WF_vars(WriterThread) /\ WF_vars(Publication)
         /\ WF_vars(CatalogThreads)
-----------------------------------------------------------------------------
(* Properties.                                                             *)

\* In the order in which a reader goes through the parts of a key, each record comes
\* once and later than the ones before.
Precedes(p, q) == p.key = q.key /\ (p.rev < q.rev \/ (p.rev = q.rev /\ p.part < q.part))
Increasing(recs) == \A i, j \in 1..Len(recs) : i < j => recs[i] < recs[j]
InOrder(names) ==
    /\ \A p \in names : Increasing(parts[p])
    /\ \A p, q \in names : Precedes(p, q) =>
         \A i \in 1..Len(parts[p]), j \in 1..Len(parts[q]) : parts[p][i] < parts[q][j]

Contents(names, key) == UNION {Range(parts[p]) : p \in {n \in names : n.key = key}}

\* A continuation state found on disk, whatever crashed or failed before or after
\* it was written, names parts that hold every record up to its resume point once
\* and in order, and none after it (publish: parts first, then import-state.json).
StateHolds ==
    \A d \in DOMAIN states :
        /\ states[d].published \subseteq DOMAIN parts
        /\ InOrder(states[d].published)
        /\ \A key \in Keys : Contents(states[d].published, key)
                               = {c \in 1..states[d].next : key \in Rows[c]}

\* What a reader of a day finds, the parts of the highest revision, has no
\* observations twice or out of order, although an interrupted publication leaves
\* parts no state names and any state not yet consumed may be continued
\* (check_tail, next_name).
ObservationsOnce ==
    \A key \in Keys : key[2] = "observations" => InOrder(LatestParts(key))

\* A catalog thread never compresses into a writer that was evicted or closed for
\* publication under it (drain_catalogs in get_writer and publish).
NeverClosedBusy ==
    \A k \in DOMAIN busy : busy[k] # None => IsOpen(busy[k])

\* Every invocation returns: the main thread, the writer thread and the catalog
\* threads never wait on each other for ever, failures included.
Ends == main # "off" ~> main = "off"
=============================================================================
