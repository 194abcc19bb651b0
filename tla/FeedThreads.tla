---------------------------- MODULE FeedThreads ----------------------------
(***************************************************************************)
(* The threads behind one Reader of the CommonNEX engine: the decode pool  *)
(* and the two build lanes, driven by feed().                              *)
(*                                                                         *)
(* Every flush decodes a batch in the pool, consumes it in stream order    *)
(* and hands the finished rows to the observation lane and the RawBits     *)
(* lane.  A lane is one thread with a queue; feed() keeps at most two jobs *)
(* of a lane outstanding and collects them all before it returns arrays.   *)
(***************************************************************************)
EXTENDS DecodePool, Sequences

CONSTANTS Lanes,       \* build_lane and bits_lane, in the order they are flushed
          None,        \* no job
          MaxFlushes, MaxCalls, MaxThrows    \* bounds

VARIABLES call,        \* feed() calls made
          flushes,     \* flushes of this call
          todo,        \* lanes the current flush has not given its rows yet
          jobs,        \* jobs: the lane's queue
          running,     \* the job its thread runs, or None
          outstanding, \* builds / bit_builds: futures feed() holds
          given,       \* auxiliary: flushes of this call with rows for the lane
          built,       \* flushes whose rows are in the lane's array of this call
          failed,      \* lanes' jobs that stored an exception
          stage        \* where feed() is

feedVars == <<call, flushes, todo, jobs, running, outstanding, given, built, failed, stage>>
vars == <<poolVars, feedVars>>
Lane == {Lanes[i] : i \in 1..Len(Lanes)}

ASSUME LanesAssumption ==
    /\ Len(Lanes) \in Nat /\ \A i, j \in 1..Len(Lanes) : Lanes[i] = Lanes[j] => i = j
    /\ None \notin Lane \X Nat \X Nat

Init ==
    /\ PoolInit
    /\ call = 0 /\ flushes = 0 /\ todo = <<>> /\ stage = "out"
    /\ jobs = [l \in Lane |-> <<>>] /\ running = [l \in Lane |-> None]
    /\ outstanding = [l \in Lane |-> <<>>] /\ built = [l \in Lane |-> <<>>]
    /\ given = [l \in Lane |-> <<>>] /\ failed = {}

Job(l) == <<l, call, flushes>>
Settled(job) == \A l \in Lane : running[l] # job /\ \A i \in 1..Len(jobs[l]) : jobs[l][i] # job

----------------------------------------------------------------------------
Call ==
    /\ stage = "out" /\ pc[Feeder] = "idle" /\ call < MaxCalls
    /\ call' = call + 1 /\ flushes' = 0 /\ stage' = "feed"
    /\ given' = [l \in Lane |-> <<>>] /\ built' = [l \in Lane |-> <<>>]
    /\ UNCHANGED <<poolVars, todo, jobs, running, outstanding, failed>>

\* flush(): the batch goes through the pool.
Flush(n) ==
    /\ stage = "feed" /\ flushes < MaxFlushes
    /\ RunAlone(n) \/ Publish(n)
    /\ stage' = "decode"
    /\ UNCHANGED <<call, flushes, todo, jobs, running, outstanding, given, built, failed>>

\* consume() in stream order; each lane may have got rows.
Consume(ls) ==
    /\ stage = "decode" /\ pc[Feeder] = "idle"
    /\ flushes' = flushes + 1 /\ todo' = ls /\ stage' = "flush_build"
    /\ given' = [l \in Lane |-> IF \E i \in 1..Len(ls) : ls[i] = l
                                THEN Append(given[l], flushes') ELSE given[l]]
    /\ UNCHANGED <<poolVars, call, jobs, running, outstanding, built, failed>>

\* An exception of consume() leaves feed() with jobs in the lanes; they own
\* their rows and the array they write.
ConsumeFails ==
    /\ stage = "decode" /\ pc[Feeder] = "idle"
    /\ stage' = "error"
    /\ UNCHANGED <<poolVars, call, flushes, todo, jobs, running, outstanding, given, built, failed>>

\* bounded(): with two jobs outstanding the first is awaited; its exception
\* is feed()'s.
Bounded ==
    /\ stage = "flush_build" /\ todo # <<>>
    /\ LET l == Head(todo) IN
         /\ Len(outstanding[l]) >= 2 /\ Settled(Head(outstanding[l]))
         /\ IF Head(outstanding[l]) \in failed
              THEN stage' = "error" /\ UNCHANGED outstanding
              ELSE outstanding' = [outstanding EXCEPT ![l] = Tail(@)] /\ UNCHANGED stage
    /\ UNCHANGED <<poolVars, call, flushes, todo, jobs, running, given, built, failed>>

Submit ==
    /\ stage = "flush_build" /\ todo # <<>>
    /\ LET l == Head(todo) IN
         /\ Len(outstanding[l]) < 2
         /\ jobs' = [jobs EXCEPT ![l] = Append(@, Job(l))]
         /\ outstanding' = [outstanding EXCEPT ![l] = Append(@, Job(l))]
    /\ todo' = Tail(todo)
    /\ UNCHANGED <<poolVars, call, flushes, running, given, built, failed, stage>>

Flushed ==
    /\ stage = "flush_build" /\ todo = <<>>
    /\ stage' = "feed"
    /\ UNCHANGED <<poolVars, call, flushes, todo, jobs, running, outstanding, given, built, failed>>

\* The end of feed(): every future is collected, lane after lane, then the
\* arrays are finished.
\* Mutant: only the oldest job is awaited.
CollectOldest ==
    /\ stage = "feed" /\ flushes > 0
    /\ \A l \in Lane : outstanding[l] # <<>> => Settled(Head(outstanding[l]))
    /\ stage' = IF \E l \in Lane : \E i \in 1..Len(outstanding[l]) : outstanding[l][i] \in failed
                  THEN "error" ELSE "out"
    /\ outstanding' = [l \in Lane |-> <<>>]
    /\ UNCHANGED <<poolVars, call, flushes, todo, jobs, running, given, built, failed>>

Collect ==
    /\ stage = "feed" /\ flushes > 0
    /\ \A l \in Lane : \A i \in 1..Len(outstanding[l]) : Settled(outstanding[l][i])
    /\ stage' = IF \E l \in Lane : \E i \in 1..Len(outstanding[l]) : outstanding[l][i] \in failed
                  THEN "error" ELSE "out"
    /\ outstanding' = [l \in Lane |-> <<>>]
    /\ UNCHANGED <<poolVars, call, flushes, todo, jobs, running, given, built, failed>>

\* CnexBuildLane::run
TakeJob(l) ==
    /\ running[l] = None /\ jobs[l] # <<>>
    /\ running' = [running EXCEPT ![l] = Head(jobs[l])]
    /\ jobs' = [jobs EXCEPT ![l] = Tail(@)]
    /\ UNCHANGED <<poolVars, call, flushes, todo, outstanding, given, built, failed, stage>>

\* The job appends its rows to its own call's array, or throws.
RunJob(l) ==
    /\ running[l] # None
    /\ \/ /\ Cardinality(failed) < MaxThrows
          /\ failed' = failed \cup {running[l]} /\ UNCHANGED built
       \/ /\ built' = [built EXCEPT ![l] = Append(@, running[l][3])]
          /\ UNCHANGED failed
    /\ running' = [running EXCEPT ![l] = None]
    /\ UNCHANGED <<poolVars, call, flushes, todo, jobs, outstanding, given, stage>>

\* After an exception the owner gives the reader up; the lanes drain, then
\* the pool stops (members are destroyed in reverse order).
Destroy ==
    /\ stage \in {"out", "error"} /\ \A l \in Lane : jobs[l] = <<>> /\ running[l] = None
    /\ Stop
    /\ stage' = "gone"
    /\ UNCHANGED <<call, flushes, todo, jobs, running, outstanding, given, built, failed>>

PoolSteps ==
    /\ \/ \E w \in Workers : Spawn(w) \/ WorkerStep(w)
       \/ \E t \in Threads : Work(t)
       \/ Inside \/ Ending \/ Constructed
       \/ pc[Feeder] = "spawn" /\ Stop
    /\ UNCHANGED feedVars

\* Some of the lanes, in the order they are flushed.
InOrder(ls) == \A i, j \in 1..Len(ls) : i < j =>
    \E a, b \in 1..Len(Lanes) : a < b /\ ls[i] = Lanes[a] /\ ls[j] = Lanes[b]
Given == {ls \in UNION {[1..n -> Lane] : n \in 0..Len(Lanes)} : InOrder(ls)}
FeedSteps ==
    \/ Call \/ ConsumeFails \/ Bounded \/ Submit \/ Flushed \/ Collect \/ Destroy
    \/ \E n \in Sizes : Flush(n)
    \/ \E ls \in Given : Consume(ls)
LaneSteps == \E l \in Lane : TakeJob(l) \/ RunJob(l)

Next == PoolSteps \/ FeedSteps \/ LaneSteps

\* A started thread runs on; the caller of feed() need not call again.
Fairness ==
    /\ \A w \in Workers : WF_vars(WorkerStep(w) /\ UNCHANGED feedVars)
    /\ \A t \in Threads : WF_vars(Work(t) /\ UNCHANGED feedVars)
    /\ WF_vars((Inside \/ Ending \/ Constructed) /\ UNCHANGED feedVars)
    /\ WF_vars((\E n \in Sizes : Flush(n)) \/ Bounded \/ Submit \/ Flushed \/ Collect \/ \E ls \in Given : Consume(ls))
    /\ \A l \in Lane : WF_vars(TakeJob(l) \/ RunJob(l))
Spec == Init /\ [][Next]_vars /\ Fairness

----------------------------------------------------------------------------
\* Whatever feed() returns is whole: the array of each lane holds the rows of
\* every flush that had some, in stream order and once, and no lane thread
\* writes to it any more, whichever thread was slow.
ReturnedWhole == stage = "out" => built = given

\* A call of feed() comes back, with arrays or with the error of one of its
\* steps, whatever the threads are doing: nobody waits for a notification
\* that was sent before it slept, or for a job that will not run.  Destroying
\* the pool ends, also when it was only half built.
FeedReturns ==
    /\ stage \notin {"out", "error", "gone"} ~> stage \in {"out", "error"}
    /\ pc[Feeder] = "stop" ~> pc[Feeder] = "done"

=============================================================================
