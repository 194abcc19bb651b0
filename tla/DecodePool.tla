----------------------------- MODULE DecodePool -----------------------------
(***************************************************************************)
(* The decode pool of the CommonNEX reader (CnexDecodePool).               *)
(*                                                                         *)
(* The feeding thread publishes a batch of frames under the lock and then  *)
(* decodes like everybody else: each thread claims 32 frames (one chunk)   *)
(* at a time from an atomic counter.  A worker that finds the batch used   *)
(* up counts itself finished; the feeder returns when all have.  Waiting   *)
(* on a condition variable is explicit: a thread that finds its predicate  *)
(* false is asleep until somebody notifies it.                             *)
(***************************************************************************)
EXTENDS Integers, FiniteSets

CONSTANTS Workers,     \* threads besides the feeding one
          Feeder,      \* the thread that calls run()
          Threshold,   \* fewest chunks of a batch that is shared
          MaxChunks,   \* bound: most chunks of a batch
          Sizes,       \* bound: the batch sizes considered, in chunks
          MaxBatches   \* bound: batches handed to the pool

ASSUME WorkersAssumption == IsFiniteSet(Workers) /\ Feeder \notin Workers
ASSUME SizeAssumption ==
    Threshold \in Nat \ {0} /\ MaxChunks \in Nat /\ MaxBatches \in Nat /\ Sizes \subseteq 0..MaxChunks

VARIABLES frames,      \* frames: whether the pointer names a batch
          chunks,      \* chunks of the batch run() was last called with
          next,        \* next: the first chunk nobody has claimed
          generation,  \* generation: batches published
          finished,    \* finished: workers done with this generation
          stopping,    \* stopping
          seen,        \* worker()'s own copy of the generation
          pc,          \* where each thread is
          claim,       \* work()'s begin, in chunks
          decoded      \* how often each chunk of the batch was decoded

shared == <<frames, chunks, next, generation, finished, stopping>>
poolVars == <<shared, seen, pc, claim, decoded>>
Threads == Workers \cup {Feeder}
Chunk == 0..MaxChunks

PoolInit ==
    /\ frames = FALSE /\ chunks = 0 /\ next = 0
    /\ generation = 0 /\ finished = 0 /\ stopping = FALSE
    /\ seen = [w \in Workers |-> 0]
    /\ pc = [t \in Threads |-> IF t = Feeder THEN "spawn" ELSE "unborn"]
    /\ claim = [t \in Threads |-> 0]
    /\ decoded = [c \in Chunk |-> 0]

Goes(t, label) == pc' = [pc EXCEPT ![t] = label]

\* The threads a notification reaches wake up; only a sleeping one matters.
Wake(ts) == [t \in Threads |-> IF t \in ts /\ pc[t] = "asleep" THEN "wait" ELSE pc[t]]

----------------------------------------------------------------------------
(* CnexDecodePool and ~CnexDecodePool.                                     *)

Spawn(w) ==
    /\ pc[Feeder] = "spawn" /\ pc[w] = "unborn"
    /\ Goes(w, "wait")
    /\ UNCHANGED <<shared, seen, claim, decoded>>

Constructed ==
    /\ pc[Feeder] = "spawn" /\ \A w \in Workers : pc[w] # "unborn"
    /\ Goes(Feeder, "idle")
    /\ UNCHANGED <<shared, seen, claim, decoded>>

\* A thread cannot be created, or the owner is done with the pool.
Stop ==
    /\ \/ pc[Feeder] = "spawn" /\ \E w \in Workers : pc[w] = "unborn"
       \/ pc[Feeder] = "idle"
    /\ stopping' = TRUE
    /\ Goes(Feeder, "stop")
    /\ UNCHANGED <<frames, chunks, next, generation, finished, seen, claim, decoded>>

StopNotify ==
    /\ pc[Feeder] = "stop"
    /\ pc' = [Wake(Workers) EXCEPT ![Feeder] = "join"]
    /\ UNCHANGED <<shared, seen, claim, decoded>>

Joined ==
    /\ pc[Feeder] = "join"
    /\ \A w \in Workers : pc[w] \in {"unborn", "exit"}
    /\ Goes(Feeder, "done")
    /\ UNCHANGED <<shared, seen, claim, decoded>>

----------------------------------------------------------------------------
(* run()                                                                   *)

\* Without workers, or for a small batch, the feeder decodes alone.
RunAlone(n) ==
    /\ pc[Feeder] = "idle"
    /\ Workers = {} \/ n < Threshold
    /\ chunks' = n
    /\ decoded' = [c \in Chunk |-> IF c < n THEN 1 ELSE 0]
    /\ UNCHANGED <<frames, next, generation, finished, stopping, seen, pc, claim>>

\* Mutant: a batch is published with the counter of the one before.
PublishCounted(n) ==
    /\ pc[Feeder] = "idle" /\ generation < MaxBatches
    /\ Workers # {} /\ n >= Threshold
    /\ frames' = TRUE /\ chunks' = n
    /\ finished' = 0 /\ generation' = generation + 1
    /\ decoded' = [c \in Chunk |-> 0]
    /\ Goes(Feeder, "notify")
    /\ UNCHANGED <<next, stopping, seen, claim>>

Publish(n) ==
    /\ pc[Feeder] = "idle" /\ generation < MaxBatches
    /\ Workers # {} /\ n >= Threshold
    /\ frames' = TRUE /\ chunks' = n
    /\ next' = 0 /\ finished' = 0 /\ generation' = generation + 1
    /\ decoded' = [c \in Chunk |-> 0]
    /\ Goes(Feeder, "notify")
    /\ UNCHANGED <<stopping, seen, claim>>

Notify ==
    /\ pc[Feeder] = "notify"
    /\ pc' = [Wake(Workers) EXCEPT ![Feeder] = "claim"]
    /\ UNCHANGED <<shared, seen, claim, decoded>>

\* The wait for the workers, under the lock.
Return ==
    /\ pc[Feeder] = "wait" /\ finished = Cardinality(Workers)
    /\ frames' = FALSE
    /\ Goes(Feeder, "idle")
    /\ UNCHANGED <<chunks, next, generation, finished, stopping, seen, claim, decoded>>

FeederSleeps ==
    /\ pc[Feeder] = "wait" /\ finished # Cardinality(Workers)
    /\ Goes(Feeder, "asleep")
    /\ UNCHANGED <<shared, seen, claim, decoded>>

----------------------------------------------------------------------------
(* work(), run by the feeder and by the workers alike.                     *)

Claim(t) ==
    /\ pc[t] = "claim"
    /\ claim' = [claim EXCEPT ![t] = next]
    /\ next' = next + 1
    /\ Goes(t, "test")
    /\ UNCHANGED <<frames, chunks, generation, finished, stopping, seen, decoded>>

\* The batch's size is read through the pointer.
Begin(t) ==
    /\ pc[t] = "test" /\ claim[t] < chunks
    /\ decoded' = [decoded EXCEPT ![claim[t]] = @ + 1]
    /\ Goes(t, "decode")
    /\ UNCHANGED <<shared, seen, claim>>

Decoded(t) ==
    /\ pc[t] = "decode"
    /\ Goes(t, "claim")
    /\ UNCHANGED <<shared, seen, claim, decoded>>

UsedUp(t) ==
    /\ pc[t] = "test" /\ claim[t] >= chunks
    /\ Goes(t, IF t = Feeder THEN "wait" ELSE "finish")
    /\ UNCHANGED <<shared, seen, claim, decoded>>

----------------------------------------------------------------------------
(* worker()                                                                *)

Take(w) ==
    /\ pc[w] = "wait" /\ ~stopping /\ generation # seen[w]
    /\ seen' = [seen EXCEPT ![w] = generation]
    /\ Goes(w, "claim")
    /\ UNCHANGED <<shared, claim, decoded>>

Exit(w) ==
    /\ pc[w] = "wait" /\ stopping
    /\ Goes(w, "exit")
    /\ UNCHANGED <<shared, seen, claim, decoded>>

Sleep(w) ==
    /\ pc[w] = "wait" /\ ~stopping /\ generation = seen[w]
    /\ Goes(w, "asleep")
    /\ UNCHANGED <<shared, seen, claim, decoded>>

\* Mutant: the feeder is not notified.
FinishSilent(w) ==
    /\ pc[w] = "finish"
    /\ finished' = finished + 1
    /\ Goes(w, "wait")
    /\ UNCHANGED <<frames, chunks, next, generation, stopping, seen, claim, decoded>>

\* The count and the notification, under the lock.
Finish(w) ==
    /\ pc[w] = "finish"
    /\ finished' = finished + 1
    /\ pc' = [Wake({Feeder}) EXCEPT ![w] = "wait"]
    /\ UNCHANGED <<frames, chunks, next, generation, stopping, seen, claim, decoded>>

----------------------------------------------------------------------------
Work(t) == Claim(t) \/ Begin(t) \/ Decoded(t) \/ UsedUp(t)
WorkerStep(w) == Take(w) \/ Exit(w) \/ Sleep(w) \/ Finish(w)
Inside == Notify \/ Return \/ FeederSleeps
Ending == StopNotify \/ Joined

PoolNext ==
    \/ \E w \in Workers : Spawn(w) \/ WorkerStep(w)
    \/ \E t \in Threads : Work(t)
    \/ \E n \in Sizes : RunAlone(n) \/ Publish(n)
    \/ Inside \/ Ending \/ Constructed \/ Stop

PoolSpec == PoolInit /\ [][PoolNext]_poolVars

----------------------------------------------------------------------------
Labels == {"spawn", "unborn", "idle", "stop", "join", "done", "notify", "claim",
           "test", "decode", "wait", "asleep", "finish", "exit"}
Running == {"notify", "claim", "test", "decode", "wait", "asleep"}

TypeOK ==
    /\ frames \in BOOLEAN /\ stopping \in BOOLEAN
    /\ chunks \in Chunk /\ next \in Nat /\ generation \in Nat /\ finished \in Nat
    /\ seen \in [Workers -> Nat]
    /\ pc \in [Threads -> Labels]
    /\ claim \in [Threads -> Nat]
    /\ decoded \in [Chunk -> Nat]

\* No frame is decoded by two threads, and once run() has returned every
\* frame of the batch has been decoded: the counter is shared out exactly
\* (next.fetch_add), also when workers still leave the batch before.  A thread
\* in work() reads a batch that is there: run() clears the pointer only when no
\* worker can still be using it (cnex_decode.hpp:66).
DecodedOnce ==
    /\ \A t \in Threads : pc[t] \in {"claim", "test", "decode"} => frames
    /\ \A c \in Chunk : decoded[c] =< 1
    /\ pc[Feeder] \notin Running => \A c \in 0..(chunks - 1) : decoded[c] = 1

=============================================================================
