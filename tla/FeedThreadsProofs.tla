------------------------- MODULE FeedThreadsProofs -------------------------
(***************************************************************************)
(* What the run of FeedThreads shows for two workers and two chunks, proved *)
(* for any finite set of workers, any batch sizes and any number of         *)
(* batches: the pool decodes every frame of a batch exactly once, and       *)
(* nobody reads a batch that run() has given back.  For any lanes, flushes  *)
(* and calls: the arrays feed() returns hold the rows of every flush once.  *)
(***************************************************************************)
EXTENDS FeedThreads, FiniteSetTheorems, TLAPS

FeederLabels == {"spawn", "idle", "stop", "join", "done"} \cup Running
WorkerLabels == {"unborn", "wait", "asleep", "claim", "test", "decode", "finish", "exit"}
BusyLabels == {"claim", "test", "decode", "finish"}

\* The workers that have counted themselves finished with this generation.
Through == {w \in Workers : seen[w] = generation /\ pc[w] \notin BusyLabels}

Labelled == pc[Feeder] \in FeederLabels /\ \A w \in Workers : pc[w] \in WorkerLabels

\* A worker inside work() belongs to the present batch, and run() waits for it.
Counted ==
    /\ \A w \in Workers : seen[w] =< generation
    /\ \A w \in Workers : pc[w] \in BusyLabels => seen[w] = generation /\ pc[Feeder] \in Running
    /\ pc[Feeder] \in Running => frames /\ finished = Cardinality(Through)
    /\ pc[Feeder] \notin Running => \A w \in Workers : seen[w] = generation

\* A chunk below the counter was decoded or is in the hands of one thread.
Claimed ==
    /\ \A c \in Chunk : c >= next => decoded[c] = 0
    /\ \A t \in Threads : pc[t] = "test" =>
         claim[t] < next /\ (claim[t] < chunks => decoded[claim[t]] = 0)
    /\ \A t, u \in Threads : t # u /\ pc[t] = "test" /\ pc[u] = "test" => claim[t] # claim[u]
    /\ \A c \in Chunk : c < chunks /\ c < next =>
         decoded[c] = 1 \/ \E t \in Threads : pc[t] = "test" /\ claim[t] = c
    /\ pc[Feeder] \in {"wait", "asleep"} => next >= chunks

IInv ==
    /\ TypeOK /\ Labelled /\ Counted
    /\ \A c \in Chunk : decoded[c] =< 1
    /\ pc[Feeder] \in Running => Claimed
    /\ pc[Feeder] \notin Running => \A c \in 0..(chunks - 1) : decoded[c] = 1

LEMMA InitHolds == PoolInit => IInv
<1> SUFFICES ASSUME PoolInit PROVE IInv
  OBVIOUS
<1>0. 0 \in Chunk
  BY SizeAssumption DEF Chunk
<1>1. TypeOK
  BY <1>0 DEF PoolInit, TypeOK, Labels
<1>2. Labelled /\ pc[Feeder] = "spawn" /\ \A w \in Workers : pc[w] = "unborn"
  BY WorkersAssumption DEF PoolInit, Labelled, FeederLabels, WorkerLabels, Threads
<1>3. Counted
  BY <1>2 DEF PoolInit, Counted, BusyLabels, Running
<1>4. \A c \in Chunk : decoded[c] = 0
  BY DEF PoolInit
<1>5. chunks = 0
  BY DEF PoolInit
<1> QED
  BY <1>1, <1>2, <1>3, <1>4, <1>5 DEF IInv, Running

\* A thread that goes from one label to another outside work(), or is woken.
Relabel ==
    /\ UNCHANGED <<frames, chunks, next, generation, finished, seen, claim, decoded>>
    /\ stopping' \in BOOLEAN /\ pc' \in [Threads -> Labels]
    /\ \A w \in Workers : pc'[w] = pc[w] \/ (pc[w] \notin BusyLabels /\ pc'[w] \in WorkerLabels \ BusyLabels)
    /\ pc'[Feeder] \in FeederLabels
    /\ pc'[Feeder] = "test" <=> pc[Feeder] = "test"
    /\ pc'[Feeder] \in Running <=> pc[Feeder] \in Running
    /\ pc'[Feeder] \in {"wait", "asleep"} => pc[Feeder] \in {"wait", "asleep"}

LEMMA RelabelKeeps == IInv /\ Relabel => IInv'
<1> SUFFICES ASSUME IInv, Relabel PROVE IInv'
  OBVIOUS
<1>1. TypeOK'
  BY DEF IInv, TypeOK, Relabel
<1>2. Labelled'
  BY DEF IInv, Labelled, Relabel
<1>3. \A w \in Workers : pc'[w] \in BusyLabels <=> pc[w] \in BusyLabels
  BY DEF Relabel
<1>4. Through' = Through
  BY <1>3 DEF Through, Relabel
<1>5. Counted'
  BY <1>3, <1>4 DEF IInv, Counted, Relabel
<1>6. \A t \in Threads : pc'[t] = "test" <=> pc[t] = "test"
  BY DEF Relabel, Threads, BusyLabels
<1>7. Claimed => Claimed'
  BY <1>6 DEF Claimed, Relabel
<1> QED
  BY <1>1, <1>2, <1>5, <1>7 DEF IInv, Relabel

(***************************************************************************)
(* The steps of the pool outside work().                                   *)
(***************************************************************************)
LEMMA WakeTyped ==
  ASSUME IInv, NEW ts
  PROVE  /\ Wake(ts) \in [Threads -> Labels]
         /\ \A t \in Threads : Wake(ts)[t] = pc[t] \/ (pc[t] = "asleep" /\ Wake(ts)[t] = "wait")
  BY DEF Wake, IInv, TypeOK, Labels

LEMMA WorkerQuiet ==
  ASSUME IInv, NEW w \in Workers, Spawn(w) \/ Exit(w) \/ Sleep(w)
  PROVE  IInv'
<1> USE WorkersAssumption DEF BusyLabels, WorkerLabels, FeederLabels, Running, Labels, Threads
<1>0. pc \in [Threads -> Labels] /\ stopping \in BOOLEAN
  BY DEF IInv, TypeOK
<1>1. CASE Spawn(w)
  BY <1>0, <1>1, RelabelKeeps DEF Spawn, Goes, Relabel, shared, IInv, Labelled
<1>2. CASE Exit(w)
  BY <1>0, <1>2, RelabelKeeps DEF Exit, Goes, Relabel, shared, IInv, Labelled
<1>3. CASE Sleep(w)
  BY <1>0, <1>3, RelabelKeeps DEF Sleep, Goes, Relabel, shared, IInv, Labelled
<1> QED
  BY <1>1, <1>2, <1>3

LEMMA FeederQuiet ==
  ASSUME IInv, Constructed \/ Stop \/ StopNotify \/ Joined \/ Notify \/ FeederSleeps
  PROVE  IInv'
<1> USE WorkersAssumption DEF BusyLabels, WorkerLabels, FeederLabels, Running, Labels, Threads
<1>0. pc \in [Threads -> Labels] /\ stopping \in BOOLEAN
  BY DEF IInv, TypeOK
<1>1. CASE Constructed
  BY <1>0, <1>1, RelabelKeeps DEF Constructed, Goes, Relabel, shared, IInv, Labelled
<1>2. CASE Stop
  BY <1>0, <1>2, RelabelKeeps DEF Stop, Goes, Relabel, shared, IInv, Labelled
<1>3. CASE StopNotify
  BY <1>0, <1>3, WakeTyped, RelabelKeeps DEF StopNotify, Relabel, shared, IInv, Labelled
<1>4. CASE Joined
  BY <1>0, <1>4, RelabelKeeps DEF Joined, Goes, Relabel, shared, IInv, Labelled
<1>5. CASE Notify
  BY <1>0, <1>5, WakeTyped, RelabelKeeps DEF Notify, Relabel, shared, IInv, Labelled
<1>6. CASE FeederSleeps
  BY <1>0, <1>6, RelabelKeeps DEF FeederSleeps, Goes, Relabel, shared, IInv, Labelled
<1> QED
  BY <1>1, <1>2, <1>3, <1>4, <1>5, <1>6

LEMMA RunAloneKeeps == ASSUME IInv, NEW n \in Sizes, RunAlone(n) PROVE IInv'
<1>1. n \in Chunk
  BY SizeAssumption DEF Chunk
<1>2. TypeOK' /\ Labelled'
  BY <1>1 DEF IInv, TypeOK, Labelled, RunAlone
<1>3. Through' = Through
  BY DEF Through, RunAlone
<1>4. Counted'
  BY <1>3 DEF IInv, Counted, RunAlone
<1>5. \A c \in Chunk : decoded'[c] =< 1 /\ (c < n => decoded'[c] = 1)
  BY DEF RunAlone
<1>6. \A c \in 0..(n - 1) : c \in Chunk /\ c < n
  BY <1>1, SizeAssumption DEF Chunk
<1> QED
  BY <1>2, <1>4, <1>5, <1>6 DEF IInv, RunAlone, Running

\* A new batch: no worker is inside work(), so that nobody holds a chunk.
LEMMA PublishKeeps == ASSUME IInv, NEW n \in Sizes, Publish(n) PROVE IInv'
<1>1. n \in Chunk /\ n \in Nat
  BY SizeAssumption DEF Chunk
<1>2. pc' = [pc EXCEPT ![Feeder] = "notify"] /\ pc \in [Threads -> Labels] /\ Feeder \in Threads
  BY DEF Publish, Goes, IInv, TypeOK, Threads
<1>3. pc'[Feeder] = "notify" /\ \A w \in Workers : pc'[w] = pc[w] /\ pc[w] \notin BusyLabels
  BY <1>2, WorkersAssumption DEF Publish, IInv, Counted, Running, Threads
<1>4. TypeOK'
  BY <1>1, <1>2 DEF IInv, TypeOK, Publish, Labels
<1>5. Labelled'
  BY <1>3 DEF IInv, Labelled, FeederLabels, Running
<1>6. generation' = generation + 1 /\ seen' = seen /\ finished' = 0 /\ frames' = TRUE /\ generation \in Nat
  BY DEF Publish, IInv, TypeOK
<1>7. \A w \in Workers : seen[w] \in Nat /\ seen[w] =< generation
  BY DEF IInv, TypeOK, Counted
<1>8. Through' = {}
  BY <1>6, <1>7 DEF Through
<1>9. Counted'
  BY <1>3, <1>6, <1>7, <1>8, FS_EmptySet DEF Counted, Running
<1>10. \A t \in Threads : pc'[t] # "test"
  BY <1>3 DEF Threads, BusyLabels
<1>11. (\A c \in Chunk : decoded'[c] = 0) /\ next' = 0
  BY DEF Publish
<1>12. Claimed'
  BY <1>3, <1>10, <1>11 DEF Claimed, Chunk
<1> QED
  BY <1>3, <1>4, <1>5, <1>9, <1>11, <1>12 DEF IInv, Running

\* run() gives the batch back once every worker is through with it.
LEMMA ReturnKeeps == ASSUME IInv, Return PROVE IInv'
<1>1. pc' = [pc EXCEPT ![Feeder] = "idle"] /\ pc \in [Threads -> Labels] /\ Feeder \in Threads
  BY DEF Return, Goes, IInv, TypeOK, Threads
<1>2. pc'[Feeder] = "idle" /\ \A w \in Workers : pc'[w] = pc[w]
  BY <1>1, WorkersAssumption DEF Threads
<1>3. TypeOK' /\ Labelled'
  BY <1>1, <1>2 DEF IInv, TypeOK, Return, Labels, Labelled, FeederLabels
<1>4. pc[Feeder] = "wait" /\ Cardinality(Through) = Cardinality(Workers)
  BY DEF Return, IInv, Counted, Running
<1>5. Through \subseteq Workers
  BY DEF Through
<1>6. Through = Workers
  BY <1>4, <1>5, WorkersAssumption, FS_Subset
<1>7. \A w \in Workers : pc[w] \notin BusyLabels
  BY <1>6 DEF Through
<1>8. Counted'
  BY <1>2, <1>6, <1>7 DEF IInv, Counted, Return, Running, Through
<1>9. \A t \in Threads : pc[t] # "test"
  BY <1>4, <1>7 DEF Threads, BusyLabels
<1>10. Claimed
  BY <1>4 DEF IInv, Running
<1>11. next >= chunks /\ next \in Nat /\ chunks \in 0..MaxChunks
  BY <1>4, <1>10 DEF Claimed, IInv, TypeOK, Chunk
<1>12. \A c \in 0..(chunks - 1) : c \in Chunk /\ c < chunks /\ c < next
  BY <1>11, SizeAssumption DEF Chunk
<1>13. \A c \in 0..(chunks - 1) : decoded[c] = 1
  BY <1>9, <1>10, <1>12 DEF Claimed
<1> QED
  BY <1>2, <1>3, <1>8, <1>13 DEF IInv, Return, Running

(***************************************************************************)
(* Workers enter and leave a batch.                                        *)
(***************************************************************************)
\* Only the numbers of the batch and the chunks in hand matter to Claimed.
LEMMA ClaimedKeeps ==
  ASSUME IInv, UNCHANGED <<chunks, next, claim, decoded>>,
         \A t \in Threads : pc'[t] = "test" <=> pc[t] = "test",
         pc'[Feeder] \in {"wait", "asleep"} => pc[Feeder] \in {"wait", "asleep"},
         Claimed
  PROVE  Claimed'
  BY DEF Claimed

LEMMA TakeKeeps == ASSUME IInv, NEW w \in Workers, Take(w) PROVE IInv'
<1>1. pc' = [pc EXCEPT ![w] = "claim"] /\ pc \in [Threads -> Labels] /\ w \in Threads /\ Feeder \in Threads
  BY DEF Take, Goes, IInv, TypeOK, Threads
<1>2. pc'[w] = "claim" /\ \A t \in Threads \ {w} : pc'[t] = pc[t]
  BY <1>1
<1>3. pc'[Feeder] = pc[Feeder] /\ pc[w] = "wait"
  BY <1>2, WorkersAssumption, <1>1 DEF Take
<1>4. seen' = [seen EXCEPT ![w] = generation] /\ seen \in [Workers -> Nat] /\ generation \in Nat
  BY DEF Take, IInv, TypeOK
<1>5. UNCHANGED <<frames, chunks, next, generation, finished, stopping, claim, decoded>>
  BY DEF Take, shared
<1>6. TypeOK' /\ Labelled'
  BY <1>1, <1>2, <1>3, <1>4, <1>5 DEF IInv, TypeOK, Labels, Labelled, WorkerLabels, Threads
<1>7. pc[Feeder] \in Running
  BY DEF Take, IInv, Counted
<1>8. Through' = Through
  <2>1. w \notin Through /\ w \notin Through'
    BY <1>2, <1>3 DEF Through, BusyLabels, Take
  <2>2. \A v \in Workers \ {w} : seen'[v] = seen[v] /\ pc'[v] = pc[v]
    BY <1>2, <1>4 DEF Threads
  <2> QED
    BY <2>1, <2>2, <1>5 DEF Through
<1>9. Counted'
  <2>1. \A v \in Workers \ {w} : seen'[v] = seen[v] /\ pc'[v] = pc[v]
    BY <1>2, <1>4 DEF Threads
  <2>2. seen'[w] = generation
    BY <1>4
  <2> QED
    BY <2>1, <2>2, <1>3, <1>4, <1>5, <1>7, <1>8 DEF IInv, Counted
<1>10. \A t \in Threads : pc'[t] = "test" <=> pc[t] = "test"
  BY <1>2, <1>3
<1>11. Claimed'
  BY <1>3, <1>5, <1>7, <1>10, ClaimedKeeps DEF IInv
<1> QED
  BY <1>3, <1>5, <1>6, <1>7, <1>9, <1>11 DEF IInv

\* One more worker is through, and the feeder hears of it.
LEMMA FinishKeeps == ASSUME IInv, NEW w \in Workers, Finish(w) PROVE IInv'
<1>1. pc' = [Wake({Feeder}) EXCEPT ![w] = "wait"] /\ pc[w] = "finish" /\ w \in Threads /\ Feeder \in Threads
  BY DEF Finish, Threads
<1>2. /\ pc' \in [Threads -> Labels] /\ pc'[w] = "wait"
      /\ \A t \in Threads \ {w} : pc'[t] = pc[t] \/ (t = Feeder /\ pc[t] = "asleep" /\ pc'[t] = "wait")
  BY <1>1 DEF Wake, IInv, TypeOK, Labels
<1>3. Feeder # w
  BY WorkersAssumption
<1>4. UNCHANGED <<frames, chunks, next, generation, stopping, seen, claim, decoded>> /\ finished' = finished + 1
  BY DEF Finish
<1>5. pc[Feeder] \in Running /\ pc'[Feeder] \in Running /\ seen[w] = generation
  BY <1>1, <1>2, <1>3 DEF IInv, Counted, BusyLabels, Running
<1>6. TypeOK' /\ Labelled'
  BY <1>2, <1>3, <1>4, <1>5, WorkersAssumption DEF IInv, TypeOK, Labelled, FeederLabels, WorkerLabels, Threads
<1>7. \A v \in Workers \ {w} : pc'[v] = pc[v]
  BY <1>2, WorkersAssumption DEF Threads
<1>8. Through' = Through \cup {w} /\ w \notin Through
  BY <1>1, <1>2, <1>4, <1>5, <1>7 DEF Through, BusyLabels
<1>9. Cardinality(Through') = Cardinality(Through) + 1
  <2>1. IsFiniteSet(Through)
    BY WorkersAssumption, FS_Subset DEF Through
  <2> QED
    BY <2>1, <1>8, FS_AddElement
<1>10. Counted'
  <2>1. \A v \in Workers : pc'[v] \in BusyLabels => pc[v] \in BusyLabels
    BY <1>2, <1>7 DEF BusyLabels
  <2> QED
    BY <2>1, <1>4, <1>5, <1>9 DEF IInv, Counted
<1>11. \A t \in Threads : pc'[t] = "test" <=> pc[t] = "test"
  BY <1>1, <1>2
<1>12. Claimed'
  BY <1>2, <1>3, <1>4, <1>5, <1>11, <1>1, ClaimedKeeps DEF IInv
<1> QED
  BY <1>4, <1>5, <1>6, <1>10, <1>12 DEF IInv

(***************************************************************************)
(* work(): thread t, the feeder or a worker, inside the batch.             *)
(***************************************************************************)
\* Nothing of the count changes when a thread moves inside work().
LEMMA InsideCounted ==
  ASSUME IInv, NEW t \in Threads, NEW l \in Labels,
         pc' = [pc EXCEPT ![t] = l], pc[t] \in {"claim", "test", "decode"},
         t = Feeder => l \in Running, t # Feeder => l \in BusyLabels,
         UNCHANGED <<frames, generation, finished, seen>>
  PROVE  /\ pc[Feeder] \in Running /\ pc'[Feeder] \in Running
         /\ Labelled' /\ Counted' /\ pc' \in [Threads -> Labels]
         /\ pc'[t] = l /\ \A u \in Threads \ {t} : pc'[u] = pc[u]
<1>1. pc \in [Threads -> Labels] /\ Feeder \in Threads /\ Workers \subseteq Threads /\ Feeder \notin Workers
  BY WorkersAssumption DEF IInv, TypeOK, Threads
<1>2. pc' \in [Threads -> Labels] /\ pc'[t] = l /\ \A u \in Threads \ {t} : pc'[u] = pc[u]
  BY <1>1
<1>3. pc[Feeder] \in Running
  BY DEF IInv, Counted, Running, BusyLabels, Threads
<1>4. pc'[Feeder] \in Running
  BY <1>1, <1>2, <1>3
<1>5. \A w \in Workers : pc'[w] \in BusyLabels <=> pc[w] \in BusyLabels
  BY <1>1, <1>2 DEF BusyLabels
<1>6. Labelled'
  BY <1>1, <1>2, <1>4 DEF IInv, Labelled, FeederLabels, WorkerLabels, BusyLabels
<1>7. Through' = Through
  BY <1>5 DEF Through
<1>8. Counted'
  BY <1>3, <1>4, <1>5, <1>7 DEF IInv, Counted
<1> QED
  BY <1>2, <1>3, <1>4, <1>6, <1>8

\* The counter gives every chunk to one thread.
LEMMA ClaimKeeps == ASSUME IInv, NEW t \in Threads, Claim(t) PROVE IInv'
<1>1. /\ pc' = [pc EXCEPT ![t] = "test"] /\ pc[t] = "claim" /\ next' = next + 1
      /\ claim' = [claim EXCEPT ![t] = next]
      /\ UNCHANGED <<frames, chunks, generation, finished, stopping, seen, decoded>>
  BY DEF Claim, Goes
<1>2. /\ pc[Feeder] \in Running /\ pc'[Feeder] \in Running /\ Labelled' /\ Counted'
      /\ pc' \in [Threads -> Labels] /\ pc'[t] = "test" /\ \A u \in Threads \ {t} : pc'[u] = pc[u]
  BY <1>1, InsideCounted DEF Labels, Running, BusyLabels
<1>3. next \in Nat /\ claim \in [Threads -> Nat] /\ chunks \in Chunk /\ decoded \in [Chunk -> Nat]
  BY DEF IInv, TypeOK
<1>4. TypeOK'
  BY <1>1, <1>2, <1>3 DEF IInv, TypeOK
<1>5. claim'[t] = next /\ \A u \in Threads \ {t} : claim'[u] = claim[u]
  BY <1>1, <1>3
<1>6. Claimed
  BY <1>2 DEF IInv
<1>7. Chunk = 0..MaxChunks /\ MaxChunks \in Nat
  BY SizeAssumption DEF Chunk
<1>8. next < chunks => next \in Chunk /\ decoded[next] = 0
  BY <1>3, <1>6, <1>7 DEF Claimed
<1>9. Claimed'
  <2>1. \A c \in Chunk : c >= next' => decoded'[c] = 0
    BY <1>1, <1>3, <1>6, <1>7 DEF Claimed
  <2>2. \A u \in Threads : pc'[u] = "test" =>
          claim'[u] < next' /\ (claim'[u] < chunks' => decoded'[claim'[u]] = 0)
    BY <1>1, <1>2, <1>3, <1>5, <1>6, <1>8 DEF Claimed
  <2>3. \A u, v \in Threads : u # v /\ pc'[u] = "test" /\ pc'[v] = "test" => claim'[u] # claim'[v]
    BY <1>2, <1>3, <1>5, <1>6 DEF Claimed
  <2>4. ASSUME NEW c \in Chunk, c < chunks', c < next'
        PROVE  decoded'[c] = 1 \/ \E u \in Threads : pc'[u] = "test" /\ claim'[u] = c
    <3>1. CASE c = next
      BY <3>1, <1>2, <1>5
    <3>2. CASE c < next
      <4>1. decoded[c] = 1 \/ \E u \in Threads : pc[u] = "test" /\ claim[u] = c
        BY <3>2, <2>4, <1>1, <1>6 DEF Claimed
      <4> QED
        BY <4>1, <1>1, <1>2, <1>5
    <3> QED
      BY <2>4, <3>1, <3>2, <1>1, <1>3, <1>7
  <2>5. pc'[Feeder] \in {"wait", "asleep"} => next' >= chunks'
    BY <1>1, <1>2, <1>3, <1>6, <1>7 DEF Claimed, Threads
  <2> QED
    BY <2>1, <2>2, <2>3, <2>4, <2>5 DEF Claimed
<1> QED
  BY <1>1, <1>2, <1>4, <1>9 DEF IInv

LEMMA BeginKeeps == ASSUME IInv, NEW t \in Threads, Begin(t) PROVE IInv'
<1>1. /\ pc' = [pc EXCEPT ![t] = "decode"] /\ pc[t] = "test" /\ claim[t] < chunks
      /\ decoded' = [decoded EXCEPT ![claim[t]] = @ + 1]
      /\ UNCHANGED <<frames, chunks, next, generation, finished, stopping, seen, claim>>
  BY DEF Begin, Goes, shared
<1>2. /\ pc[Feeder] \in Running /\ pc'[Feeder] \in Running /\ Labelled' /\ Counted'
      /\ pc' \in [Threads -> Labels] /\ pc'[t] = "decode" /\ \A u \in Threads \ {t} : pc'[u] = pc[u]
  BY <1>1, InsideCounted DEF Labels, Running, BusyLabels
<1>3. next \in Nat /\ claim \in [Threads -> Nat] /\ chunks \in Chunk /\ decoded \in [Chunk -> Nat]
  BY DEF IInv, TypeOK
<1>4. Chunk = 0..MaxChunks /\ MaxChunks \in Nat
  BY SizeAssumption DEF Chunk
<1>5. claim[t] \in Chunk
  BY <1>1, <1>3, <1>4
<1>6. Claimed
  BY <1>2 DEF IInv
<1>7. claim[t] < next /\ decoded[claim[t]] = 0
  BY <1>1, <1>6 DEF Claimed
<1>8. decoded'[claim[t]] = 1 /\ \A c \in Chunk \ {claim[t]} : decoded'[c] = decoded[c]
  BY <1>1, <1>3, <1>5, <1>7
<1>9. TypeOK'
  BY <1>1, <1>2, <1>3, <1>5 DEF IInv, TypeOK
<1>10. \A c \in Chunk : decoded'[c] =< 1
  BY <1>8 DEF IInv
<1>11. Claimed'
  <2>1. \A c \in Chunk : c >= next' => decoded'[c] = 0
    BY <1>1, <1>3, <1>4, <1>6, <1>7, <1>8 DEF Claimed
  <2>2. \A u \in Threads : pc'[u] = "test" => u # t /\ pc[u] = "test" /\ claim[u] # claim[t]
    BY <1>1, <1>2, <1>6 DEF Claimed
  <2>3. ASSUME NEW u \in Threads, pc'[u] = "test"
        PROVE  claim'[u] < next' /\ (claim'[u] < chunks' => decoded'[claim'[u]] = 0)
    <3>1. claim[u] < next /\ (claim[u] < chunks => decoded[claim[u]] = 0)
      BY <2>2, <2>3, <1>6 DEF Claimed
    <3>2. claim[u] < chunks => claim[u] \in Chunk \ {claim[t]}
      BY <2>2, <2>3, <1>3, <1>4
    <3> QED
      BY <3>1, <3>2, <1>1, <1>8
  <2>4. \A u, v \in Threads : u # v /\ pc'[u] = "test" /\ pc'[v] = "test" => claim'[u] # claim'[v]
    BY <2>2, <1>1, <1>6 DEF Claimed
  <2>5. ASSUME NEW c \in Chunk, c < chunks', c < next'
        PROVE  decoded'[c] = 1 \/ \E u \in Threads : pc'[u] = "test" /\ claim'[u] = c
    <3>1. CASE c = claim[t]
      BY <3>1, <1>8
    <3>2. CASE c # claim[t]
      <4>1. decoded[c] = 1 \/ \E u \in Threads : pc[u] = "test" /\ claim[u] = c
        BY <2>5, <1>1, <1>6 DEF Claimed
      <4> QED
        BY <4>1, <3>2, <1>1, <1>2, <1>8
    <3> QED
      BY <3>1, <3>2
  <2>6. pc'[Feeder] \in {"wait", "asleep"} => next' >= chunks'
    BY <1>1, <1>2, <1>6 DEF Claimed, Threads
  <2> QED
    BY <2>1, <2>3, <2>4, <2>5, <2>6 DEF Claimed
<1> QED
  BY <1>1, <1>2, <1>9, <1>10, <1>11 DEF IInv

LEMMA DecodedKeeps == ASSUME IInv, NEW t \in Threads, Decoded(t) PROVE IInv'
<1>1. /\ pc' = [pc EXCEPT ![t] = "claim"] /\ pc[t] = "decode"
      /\ UNCHANGED <<frames, chunks, next, generation, finished, stopping, seen, claim, decoded>>
  BY DEF Decoded, Goes, shared
<1>2. /\ pc[Feeder] \in Running /\ pc'[Feeder] \in Running /\ Labelled' /\ Counted'
      /\ pc' \in [Threads -> Labels] /\ pc'[t] = "claim" /\ \A u \in Threads \ {t} : pc'[u] = pc[u]
  BY <1>1, InsideCounted DEF Labels, Running, BusyLabels
<1>3. Claimed'
  <2>1. pc'[Feeder] \in {"wait", "asleep"} => pc[Feeder] \in {"wait", "asleep"}
    BY <1>2 DEF Threads
  <2> QED
    BY <2>1, <1>1, <1>2, ClaimedKeeps DEF IInv
<1> QED
  BY <1>1, <1>2, <1>3 DEF IInv, TypeOK

\* The counter has passed the end: all chunks are in somebody's hands.
LEMMA UsedUpKeeps == ASSUME IInv, NEW t \in Threads, UsedUp(t) PROVE IInv'
<1>1. /\ pc' = [pc EXCEPT ![t] = IF t = Feeder THEN "wait" ELSE "finish"] /\ pc[t] = "test"
      /\ claim[t] >= chunks
      /\ UNCHANGED <<frames, chunks, next, generation, finished, stopping, seen, claim, decoded>>
  BY DEF UsedUp, Goes, shared
<1>2. /\ pc[Feeder] \in Running /\ pc'[Feeder] \in Running /\ Labelled' /\ Counted'
      /\ pc' \in [Threads -> Labels]
      /\ pc'[t] = (IF t = Feeder THEN "wait" ELSE "finish") /\ \A u \in Threads \ {t} : pc'[u] = pc[u]
  BY <1>1, InsideCounted DEF Labels, Running, BusyLabels
<1>3. next \in Nat /\ claim[t] \in Nat /\ chunks \in Chunk /\ chunks \in Nat
  BY SizeAssumption DEF IInv, TypeOK, Chunk
<1>4. Claimed
  BY <1>2 DEF IInv
<1>5. next >= chunks
  BY <1>1, <1>3, <1>4 DEF Claimed
<1>6. \A c \in Chunk : c < chunks => c # claim[t]
  BY <1>1, <1>3, SizeAssumption DEF Chunk
<1>7. Claimed'
  <2>1. \A u \in Threads : pc'[u] = "test" => u # t /\ pc[u] = "test"
    BY <1>2
  <2>2. \A c \in Chunk : c < chunks' /\ c < next' =>
          decoded'[c] = 1 \/ \E u \in Threads : pc'[u] = "test" /\ claim'[u] = c
    BY <1>1, <1>2, <1>4, <1>6 DEF Claimed
  <2> QED
    BY <2>1, <2>2, <1>1, <1>4, <1>5 DEF Claimed
<1> QED
  BY <1>1, <1>2, <1>7 DEF IInv, TypeOK

(***************************************************************************)
(* The theorem.                                                            *)
(***************************************************************************)
LEMMA PoolStep == IInv /\ [PoolNext]_poolVars => IInv'
<1> SUFFICES ASSUME IInv, [PoolNext]_poolVars PROVE IInv'
  OBVIOUS
<1>1. CASE \E w \in Workers : Spawn(w) \/ Exit(w) \/ Sleep(w)
  BY <1>1, WorkerQuiet
<1>2. CASE \E w \in Workers : Take(w) \/ Finish(w)
  BY <1>2, TakeKeeps, FinishKeeps
<1>3. CASE \E t \in Threads : Work(t)
  BY <1>3, ClaimKeeps, BeginKeeps, DecodedKeeps, UsedUpKeeps DEF Work
<1>4. CASE \E n \in Sizes : RunAlone(n) \/ Publish(n)
  BY <1>4, RunAloneKeeps, PublishKeeps
<1>5. CASE Return
  BY <1>5, ReturnKeeps
<1>6. CASE Constructed \/ Stop \/ StopNotify \/ Joined \/ Notify \/ FeederSleeps
  BY <1>6, FeederQuiet
<1>7. CASE UNCHANGED poolVars
  BY <1>7, RelabelKeeps DEF poolVars, shared, Relabel, IInv, TypeOK, Labelled
<1> QED
  BY <1>1, <1>2, <1>3, <1>4, <1>5, <1>6, <1>7 DEF PoolNext, WorkerStep, Inside, Ending

\* feed() and the lanes use the pool by its operations only.
LEMMA FeedUsesPool == [Next]_vars => [PoolNext]_poolVars
<1> SUFFICES ASSUME [Next]_vars PROVE [PoolNext]_poolVars
  OBVIOUS
<1>1. CASE PoolSteps
  BY <1>1 DEF PoolSteps, PoolNext
<1>2. CASE FeedSteps
  <2>1. CASE Destroy
    BY <2>1 DEF Destroy, PoolNext
  <2>2. CASE \E n \in Sizes : Flush(n)
    BY <2>2 DEF Flush, PoolNext
  <2>3. CASE Call \/ ConsumeFails \/ Bounded \/ Submit \/ Flushed \/ Collect \/ \E ls \in Given : Consume(ls)
    BY <2>3 DEF Call, ConsumeFails, Bounded, Submit, Flushed, Collect, Consume
  <2> QED
    BY <1>2, <2>1, <2>2, <2>3 DEF FeedSteps
<1>3. CASE LaneSteps
  BY <1>3 DEF LaneSteps, TakeJob, RunJob
<1>4. CASE UNCHANGED vars
  BY <1>4 DEF vars
<1> QED
  BY <1>1, <1>2, <1>3, <1>4 DEF Next

LEMMA OnceFromIInv == IInv => DecodedOnce
<1> SUFFICES ASSUME IInv PROVE DecodedOnce
  OBVIOUS
<1>1. \A t \in Threads : pc[t] \in {"claim", "test", "decode"} => frames
  <2>1. \A t \in Threads : pc[t] \in {"claim", "test", "decode"} => pc[Feeder] \in Running
    BY DEF IInv, Counted, Threads, BusyLabels, Running
  <2> QED
    BY <2>1 DEF IInv, Counted
<1> QED
  BY <1>1 DEF IInv, DecodedOnce

\* Whatever feed(), the lanes, the workers and the destructor do and however
\* they are interleaved, the pool decodes every frame of a batch once, and no
\* thread looks at a batch after run() has cleared it: for any finite set of
\* workers, any batch sizes and any number of batches and calls.
THEOREM FramesDecodedOnce == Spec => []DecodedOnce
<1>1. Init => IInv
  BY InitHolds DEF Init
<1>2. IInv /\ [Next]_vars => IInv'
  BY PoolStep, FeedUsesPool
<1> QED
  BY <1>1, <1>2, OnceFromIInv, PTL DEF Spec

(***************************************************************************)
(* The build lanes: what a call returns is whole.                          *)
(***************************************************************************)
Elems(s) == {s[i] : i \in 1..Len(s)}
JobSet == Lane \X Nat \X Nat

LaneTypes ==
    /\ call \in Nat /\ flushes \in Nat /\ todo \in Seq(Lane) /\ failed \subseteq JobSet
    /\ jobs \in [Lane -> Seq(JobSet)] /\ running \in [Lane -> JobSet \cup {None}]
    /\ outstanding \in [Lane -> Seq(JobSet)]
    /\ given \in [Lane -> Seq(Nat)] /\ built \in [Lane -> Seq(Nat)]

\* The rows given to a lane are in its array, then in the hands of its thread, then
\* in its queue, in this order; the flush that is being distributed may be missing.
InHand(l) == IF running[l] = None THEN 0 ELSE 1
Coming(l) == IF l \in Elems(todo) THEN 1 ELSE 0

InLine(l) ==
    /\ Len(given[l]) = Len(built[l]) + InHand(l) + Len(jobs[l]) + Coming(l)
    /\ \A i \in 1..Len(built[l]) : given[l][i] = built[l][i]
    /\ running[l] # None => given[l][Len(built[l]) + 1] = running[l][3]
    /\ \A i \in 1..Len(jobs[l]) : given[l][Len(built[l]) + InHand(l) + i] = jobs[l][i][3]
    /\ l \in Elems(todo) => given[l][Len(given[l])] = flushes

\* feed() holds a future of every job that has not ended, and of every one that
\* failed: only a collected failure could leave a gap.
Held(l) ==
    /\ Elems(jobs[l]) \subseteq Elems(outstanding[l])
    /\ running[l] # None => running[l] \in Elems(outstanding[l])
    /\ InLine(l) \/ Elems(outstanding[l]) \cap failed # {}

Going == stage \notin {"error", "gone"}

LaneInv ==
    /\ LaneTypes
    /\ Going => \A l \in Lane : Held(l)
    /\ stage = "out" => \A l \in Lane : outstanding[l] = <<>>
    /\ stage # "flush_build" => todo = <<>>
       \/ ~Going
    /\ \A i, j \in 1..Len(todo) : todo[i] = todo[j] => i = j

LEMMA ElemsEmpty == Elems(<<>>) = {}
BY DEF Elems

LEMMA ElemsMember ==
  ASSUME NEW S, NEW s \in Seq(S), NEW i \in 1..Len(s) PROVE s[i] \in Elems(s) /\ s[i] \in S
BY DEF Elems

LEMMA ElemsAppend ==
  ASSUME NEW S, NEW s \in Seq(S), NEW x \in S
  PROVE  Elems(Append(s, x)) = Elems(s) \cup {x}
<1>1. Elems(Append(s, x)) \subseteq Elems(s) \cup {x}
  BY DEF Elems
<1>2. ASSUME NEW y \in Elems(s) PROVE y \in Elems(Append(s, x))
  <2>1. PICK i \in 1..Len(s) : y = s[i]
    BY DEF Elems
  <2>2. i \in 1..Len(Append(s, x)) /\ Append(s, x)[i] = y
    BY <2>1
  <2> QED
    BY <2>2 DEF Elems
<1>3. x \in Elems(Append(s, x))
  <2>1. Len(s) + 1 \in 1..Len(Append(s, x)) /\ Append(s, x)[Len(s) + 1] = x
    OBVIOUS
  <2> QED
    BY <2>1 DEF Elems
<1> QED
  BY <1>1, <1>2, <1>3

LEMMA ElemsTail ==
  ASSUME NEW S, NEW s \in Seq(S), s # <<>>
  PROVE  /\ Head(s) \in S /\ Tail(s) \in Seq(S) /\ Len(Tail(s)) = Len(s) - 1
         /\ \A i \in 1..Len(Tail(s)) : Tail(s)[i] = s[i + 1] /\ i + 1 \in 1..Len(s)
         /\ Head(s) = s[1] /\ 1 \in 1..Len(s)
         /\ Elems(s) = {Head(s)} \cup Elems(Tail(s))
<1>1. /\ Head(s) \in S /\ Tail(s) \in Seq(S) /\ Len(Tail(s)) = Len(s) - 1
      /\ \A i \in 1..Len(Tail(s)) : Tail(s)[i] = s[i + 1] /\ i + 1 \in 1..Len(s)
      /\ Head(s) = s[1] /\ 1 \in 1..Len(s) /\ Len(s) \in Nat
  OBVIOUS
<1>2. ASSUME NEW y \in Elems(s) PROVE y = Head(s) \/ y \in Elems(Tail(s))
  <2>1. PICK i \in 1..Len(s) : y = s[i]
    BY DEF Elems
  <2>2. CASE i = 1
    BY <1>1, <2>1, <2>2
  <2>3. CASE i # 1
    <3>1. i - 1 \in 1..Len(Tail(s)) /\ i - 1 + 1 = i
      BY <1>1, <2>1, <2>3
    <3>2. Tail(s)[i - 1] = s[i]
      BY <1>1, <3>1
    <3> QED
      BY <2>1, <3>1, <3>2 DEF Elems
  <2> QED
    BY <2>2, <2>3
<1>3. Head(s) \in Elems(s) /\ Elems(Tail(s)) \subseteq Elems(s)
  BY <1>1 DEF Elems
<1> QED
  BY <1>1, <1>2, <1>3

\* A settled job is nowhere in a lane.
LEMMA SettledOut ==
  ASSUME NEW job, Settled(job), NEW l \in Lane
  PROVE  running[l] # job /\ job \notin Elems(jobs[l])
BY DEF Settled, Elems

LEMMA LaneInit == Init => LaneInv
<1> SUFFICES ASSUME Init PROVE LaneInv
  OBVIOUS
<1>1. LaneTypes /\ todo = <<>> /\ stage = "out"
  BY DEF Init, LaneTypes
<1>2. ASSUME NEW l \in Lane PROVE Held(l)
  BY <1>1, ElemsEmpty DEF Init, Held, InLine, InHand, Coming
<1> QED
  BY <1>1, <1>2 DEF LaneInv, Init

LEMMA LaneOf ==
  ASSUME LaneTypes, NEW l \in Lane
  PROVE  /\ jobs[l] \in Seq(JobSet) /\ outstanding[l] \in Seq(JobSet) /\ given[l] \in Seq(Nat) /\ built[l] \in Seq(Nat)
         /\ Len(jobs[l]) \in Nat /\ Len(given[l]) \in Nat /\ Len(built[l]) \in Nat
         /\ InHand(l) \in {0, 1} /\ Coming(l) \in {0, 1} /\ (running[l] # None => InHand(l) = 1)
<1>1. jobs[l] \in Seq(JobSet) /\ outstanding[l] \in Seq(JobSet) /\ given[l] \in Seq(Nat) /\ built[l] \in Seq(Nat)
  BY DEF LaneTypes
<1> QED
  BY <1>1 DEF InHand, Coming

\* A lane is as it was when nothing of it changed and no less has failed.
LEMMA LaneKept ==
  ASSUME NEW l \in Lane, Held(l),
         running'[l] = running[l], jobs'[l] = jobs[l], outstanding'[l] = outstanding[l],
         given'[l] = given[l], built'[l] = built[l], failed \subseteq failed',
         l \in Elems(todo') <=> l \in Elems(todo), l \in Elems(todo) => flushes' = flushes
  PROVE  Held(l)'
<1>1. InHand(l)' = InHand(l) /\ Coming(l)' = Coming(l)
  BY DEF InHand, Coming
<1>2. InLine(l) => InLine(l)'
  BY <1>1 DEF InLine
<1> QED
  BY <1>2 DEF Held

LEMMA CallHolds == ASSUME LaneInv, Call PROVE LaneInv'
<1>1. /\ stage = "out" /\ stage' = "feed" /\ flushes' = 0 /\ call' = call + 1
      /\ given' = [l \in Lane |-> <<>>] /\ built' = [l \in Lane |-> <<>>]
      /\ UNCHANGED <<todo, jobs, running, outstanding, failed>>
  BY DEF Call
<1>2. LaneTypes' /\ todo = <<>>
  BY <1>1 DEF LaneInv, LaneTypes, Going
<1>3. ASSUME NEW l \in Lane PROVE Held(l)'
  <2>1. outstanding[l] = <<>> /\ Held(l) /\ jobs[l] \in Seq(JobSet)
    BY <1>1 DEF LaneInv, LaneTypes, Going
  <2>2. Elems(jobs[l]) = {} /\ running[l] = None
    BY <2>1, ElemsEmpty DEF Held
  <2>3. jobs[l] = <<>>
    <3>1. jobs[l] # <<>> => Head(jobs[l]) \in Elems(jobs[l])
      BY <2>1, ElemsTail
    <3> QED
      BY <2>2, <3>1
  <2> QED
    BY <1>1, <1>2, <2>1, <2>2, <2>3, ElemsEmpty DEF Held, InLine, InHand, Coming
<1> QED
  BY <1>1, <1>2, <1>3 DEF LaneInv, Going

LEMMA ConsumeHolds == ASSUME LaneInv, NEW ls \in Given, Consume(ls) PROVE LaneInv'
<1>1. /\ stage = "decode" /\ stage' = "flush_build" /\ flushes' = flushes + 1 /\ todo' = ls
      /\ given' = [l \in Lane |-> IF l \in Elems(ls) THEN Append(given[l], flushes') ELSE given[l]]
      /\ UNCHANGED <<call, jobs, running, outstanding, built, failed>>
  <2>1. \A l : (\E i \in 1..Len(ls) : ls[i] = l) <=> l \in Elems(ls)
    BY DEF Elems
  <2> QED
    BY <2>1 DEF Consume
<1>2. ls \in Seq(Lane)
  BY LanesAssumption DEF Given
<1>3. \A i, j \in 1..Len(ls) : ls[i] = ls[j] => i = j
  <2>1. ASSUME NEW i \in 1..Len(ls), NEW j \in 1..Len(ls), i < j PROVE ls[i] # ls[j]
    <3>1. PICK a \in 1..Len(Lanes), b \in 1..Len(Lanes) : a < b /\ ls[i] = Lanes[a] /\ ls[j] = Lanes[b]
      BY <2>1 DEF Given, InOrder
    <3> QED
      BY <3>1, LanesAssumption
  <2> QED
    BY <1>2, <2>1
<1>4. LaneTypes' /\ todo = <<>>
  <2>1. given' \in [Lane -> Seq(Nat)]
    BY <1>1 DEF LaneInv, LaneTypes
  <2> QED
    BY <1>1, <1>2, <2>1 DEF LaneInv, LaneTypes, Going
<1>5. ASSUME NEW l \in Lane PROVE Held(l)'
  <2>1. Held(l) /\ l \notin Elems(todo) /\ given[l] \in Seq(Nat) /\ flushes' \in Nat
        /\ built[l] \in Seq(Nat) /\ jobs[l] \in Seq(JobSet)
    BY <1>1, <1>4, ElemsEmpty DEF LaneInv, LaneTypes, Going
  <2>2. CASE l \notin Elems(ls)
    BY <1>1, <2>1, <2>2, LaneKept
  <2>3. CASE l \in Elems(ls)
    <3>1. given'[l] = Append(given[l], flushes') /\ Coming(l)' = 1 /\ Coming(l) = 0 /\ InHand(l)' = InHand(l)
      BY <1>1, <2>1, <2>3 DEF Coming, InHand
    <3>2. InLine(l) => InLine(l)'
      <4> SUFFICES ASSUME InLine(l) PROVE InLine(l)'
        OBVIOUS
      <4>1. /\ Len(given'[l]) = Len(given[l]) + 1 /\ given'[l][Len(given[l]) + 1] = flushes'
            /\ \A i \in 1..Len(given[l]) : given'[l][i] = given[l][i]
        BY <2>1, <3>1
      <4>2. /\ Len(built[l]) \in Nat /\ Len(jobs[l]) \in Nat /\ InHand(l) \in {0, 1} /\ Len(given[l]) \in Nat
            /\ running[l] # None => InHand(l) = 1
            /\ Len(given[l]) = Len(built[l]) + InHand(l) + Len(jobs[l])
        <5>1. LaneTypes
          BY DEF LaneInv
        <5>2. Len(given[l]) = Len(built[l]) + InHand(l) + Len(jobs[l]) + Coming(l)
          BY DEF InLine
        <5> QED
          BY <3>1, <5>1, <5>2, LaneOf
      <4> DEFINE n == Len(built[l])
                 g == Len(given[l])
                 m == Len(jobs[l])
      <4>6. /\ n \in Nat /\ g \in Nat /\ m \in Nat /\ InHand(l) \in {0, 1} /\ g = n + InHand(l) + m
            /\ running[l] # None => InHand(l) = 1
        BY <4>2
      <4> HIDE DEF n, g, m
      <4>7. /\ \A i \in 1..n : i \in 1..g
            /\ running[l] # None => n + 1 \in 1..g
            /\ \A i \in 1..m : n + InHand(l) + i \in 1..g
        BY <4>6
      <4>8. \A i \in 1..g : given'[l][i] = given[l][i]
        BY <4>1 DEF g
      <4>9. built'[l] = built[l] /\ running'[l] = running[l]
        BY <1>1
      <4>3. \A i \in 1..Len(built'[l]) : given'[l][i] = built'[l][i]
        BY <4>7, <4>8, <4>9 DEF InLine, n
      <4>4. running'[l] # None => given'[l][Len(built'[l]) + 1] = running'[l][3]
        BY <4>7, <4>8, <4>9 DEF InLine, n
      <4>5. \A i \in 1..Len(jobs'[l]) : given'[l][Len(built'[l]) + InHand(l)' + i] = jobs'[l][i][3]
        <5> TAKE i \in 1..Len(jobs'[l])
        <5>1. jobs'[l] = jobs[l] /\ built'[l] = built[l]
          BY <1>1
        <5>2. Len(built[l]) + InHand(l) + i \in 1..Len(given[l])
          BY <4>7, <5>1 DEF n, g, m
        <5>3. given[l][Len(built[l]) + InHand(l) + i] = jobs[l][i][3]
          BY <5>1 DEF InLine
        <5> QED
          BY <3>1, <4>1, <5>1, <5>2, <5>3
      <4> QED
        BY <1>1, <2>3, <3>1, <4>1, <4>2, <4>3, <4>4, <4>5 DEF InLine
    <3> QED
      BY <1>1, <2>1, <3>2 DEF Held
  <2> QED
    BY <2>2, <2>3
<1> QED
  BY <1>1, <1>2, <1>3, <1>4, <1>5 DEF LaneInv, Going

LEMMA BoundedHolds == ASSUME LaneInv, Bounded PROVE LaneInv'
<1>1. /\ stage = "flush_build" /\ todo # <<>> /\ UNCHANGED <<call, flushes, todo, jobs, running, given, built, failed>>
      /\ Head(todo) \in Lane /\ Len(outstanding[Head(todo)]) >= 2 /\ Settled(Head(outstanding[Head(todo)]))
      /\ todo \in Seq(Lane)
  BY ElemsTail DEF Bounded, LaneInv, LaneTypes
<1>2. CASE stage' = "error" /\ UNCHANGED outstanding
  BY <1>1, <1>2 DEF LaneInv, LaneTypes, Going
<1>3. CASE /\ Head(outstanding[Head(todo)]) \notin failed /\ stage' = stage
           /\ outstanding' = [outstanding EXCEPT ![Head(todo)] = Tail(@)]
  <2> DEFINE k == Head(todo)
             o == outstanding[k]
  <2>1. /\ k \in Lane /\ o \in Seq(JobSet) /\ o # <<>> /\ Settled(Head(o)) /\ Head(o) \notin failed
        /\ outstanding' = [outstanding EXCEPT ![k] = Tail(o)]
    BY <1>1, <1>3 DEF LaneInv, LaneTypes
  <2> HIDE DEF k
  <2>2. Tail(o) \in Seq(JobSet) /\ Elems(o) = {Head(o)} \cup Elems(Tail(o))
    BY <2>1, ElemsTail
  <2>3. LaneTypes'
    BY <1>1, <2>1, <2>2 DEF LaneInv, LaneTypes
  <2>4. ASSUME NEW l \in Lane PROVE Held(l)'
    <3>1. Held(l) /\ outstanding \in [Lane -> Seq(JobSet)]
      BY <1>1 DEF LaneInv, LaneTypes, Going
    <3>2. CASE l # k
      BY <1>1, <2>1, <3>1, <3>2, LaneKept
    <3>3. CASE l = k
      <4>1. /\ Elems(jobs[l]) \subseteq Elems(Tail(o))
            /\ running[l] # None => running[l] \in Elems(Tail(o))
        BY <2>1, <2>2, <3>1, <3>3, SettledOut DEF Held
      <4>2. InLine(l) \/ Elems(Tail(o)) \cap failed # {}
        BY <2>1, <2>2, <3>1, <3>3 DEF Held
      <4>3. InLine(l) => InLine(l)'
        BY <1>1 DEF InLine, InHand, Coming
      <4>4. outstanding'[l] = Tail(o)
        BY <2>1, <3>1, <3>3
      <4> QED
        BY <1>1, <4>1, <4>2, <4>3, <4>4 DEF Held
    <3> QED
      BY <3>2, <3>3
  <2> QED
    BY <1>1, <1>3, <2>3, <2>4 DEF LaneInv, Going
<1> QED
  BY <1>2, <1>3 DEF Bounded

LEMMA SubmitHolds == ASSUME LaneInv, Submit PROVE LaneInv'
<1> DEFINE k == Head(todo)
           job == <<k, call, flushes>>
<1>1. /\ stage = "flush_build" /\ todo # <<>> /\ todo \in Seq(Lane) /\ k \in Lane /\ todo' = Tail(todo)
      /\ jobs' = [jobs EXCEPT ![k] = Append(@, job)] /\ outstanding' = [outstanding EXCEPT ![k] = Append(@, job)]
      /\ UNCHANGED <<call, flushes, running, given, built, failed, stage>>
      /\ job \in JobSet /\ job[3] = flushes
  BY ElemsTail DEF Submit, LaneInv, LaneTypes, Job, JobSet
<1>2. /\ todo' \in Seq(Lane) /\ Elems(todo) = {k} \cup Elems(todo') /\ k \notin Elems(todo')
      /\ \A i, j \in 1..Len(todo') : todo'[i] = todo'[j] => i = j
  <2>1. /\ todo' \in Seq(Lane) /\ Elems(todo) = {k} \cup Elems(todo') /\ k = todo[1] /\ 1 \in 1..Len(todo)
        /\ \A i \in 1..Len(todo') : todo'[i] = todo[i + 1] /\ i + 1 \in 1..Len(todo)
    BY <1>1, ElemsTail
  <2>2. \A i, j \in 1..Len(todo) : todo[i] = todo[j] => i = j
    BY DEF LaneInv
  <2>3. \A i, j \in 1..Len(todo') : todo'[i] = todo'[j] => i = j
    BY <2>1, <2>2
  <2>4. ASSUME k \in Elems(todo') PROVE FALSE
    <3>1. PICK i \in 1..Len(todo') : todo'[i] = k
      BY <2>4 DEF Elems
    <3>2. i + 1 = 1
      BY <2>1, <2>2, <3>1
    <3> QED
      BY <3>1, <3>2
  <2> QED
    BY <2>1, <2>3, <2>4
<1> HIDE DEF k, job
<1>3. LaneTypes'
  <2>1. jobs' \in [Lane -> Seq(JobSet)] /\ outstanding' \in [Lane -> Seq(JobSet)]
    <3>1. /\ jobs \in [Lane -> Seq(JobSet)] /\ outstanding \in [Lane -> Seq(JobSet)]
          /\ jobs[k] \in Seq(JobSet) /\ outstanding[k] \in Seq(JobSet)
      BY <1>1 DEF LaneInv, LaneTypes
    <3>2. Append(jobs[k], job) \in Seq(JobSet) /\ Append(outstanding[k], job) \in Seq(JobSet)
      BY <1>1, <3>1
    <3> QED
      BY <1>1, <3>1, <3>2
  <2> QED
    BY <1>1, <1>2, <2>1 DEF LaneInv, LaneTypes
<1>4. ASSUME NEW l \in Lane PROVE Held(l)'
  <2>1. /\ Held(l) /\ jobs[l] \in Seq(JobSet) /\ outstanding[l] \in Seq(JobSet) /\ given[l] \in Seq(Nat)
        /\ built[l] \in Seq(Nat) /\ jobs \in [Lane -> Seq(JobSet)] /\ outstanding \in [Lane -> Seq(JobSet)]
    BY <1>1 DEF LaneInv, LaneTypes, Going
  <2>2. CASE l # k
    BY <1>1, <1>2, <2>1, <2>2, LaneKept
  <2>3. CASE l = k
    <3>1. jobs'[l] = Append(jobs[l], job) /\ outstanding'[l] = Append(outstanding[l], job)
      BY <1>1, <2>1, <2>3
    <3>2. Elems(jobs'[l]) = Elems(jobs[l]) \cup {job} /\ Elems(outstanding'[l]) = Elems(outstanding[l]) \cup {job}
      BY <1>1, <2>1, <3>1, ElemsAppend
    <3>3. /\ Len(jobs'[l]) = Len(jobs[l]) + 1 /\ jobs'[l][Len(jobs[l]) + 1] = job /\ Len(jobs[l]) \in Nat
          /\ \A i \in 1..Len(jobs[l]) : jobs'[l][i] = jobs[l][i]
          /\ Len(built[l]) \in Nat /\ Len(given[l]) \in Nat
      <4>1. /\ \A s \in Seq(JobSet) : /\ Len(Append(s, job)) = Len(s) + 1 /\ Append(s, job)[Len(s) + 1] = job
                                      /\ \A i \in 1..Len(s) : Append(s, job)[i] = s[i]
        BY <1>1
      <4>2. Len(jobs[l]) \in Nat /\ Len(built[l]) \in Nat /\ Len(given[l]) \in Nat
        BY <2>1
      <4> QED
        BY <2>1, <3>1, <4>1, <4>2
    <3>4. InHand(l)' = InHand(l) /\ InHand(l) \in {0, 1} /\ Coming(l) = 1 /\ Coming(l)' = 0
      BY <1>1, <1>2, <2>3 DEF InHand, Coming
    <3>5. InLine(l) => InLine(l)'
      <4> SUFFICES ASSUME InLine(l) PROVE InLine(l)'
        OBVIOUS
      <4>1. /\ Len(given[l]) = Len(built[l]) + InHand(l) + Len(jobs[l]) + 1
            /\ given[l][Len(given[l])] = flushes
            /\ \A i \in 1..Len(jobs[l]) : given[l][Len(built[l]) + InHand(l) + i] = jobs[l][i][3]
        BY <1>2, <2>3, <3>4 DEF InLine
      <4>2. \A i \in 1..Len(jobs'[l]) : given[l][Len(built[l]) + InHand(l) + i] = jobs'[l][i][3]
        <5> TAKE i \in 1..Len(jobs'[l])
        <5>1. CASE i \in 1..Len(jobs[l])
          BY <3>3, <4>1, <5>1
        <5>2. CASE i = Len(jobs[l]) + 1
          <6>1. Len(built[l]) + InHand(l) + i = Len(given[l])
            <7> DEFINE n == Len(built[l])
                       m == Len(jobs[l])
                       h == InHand(l)
            <7>1. n \in Nat /\ m \in Nat /\ h \in {0, 1} /\ Len(given[l]) = n + h + m + 1 /\ i = m + 1
              BY <3>3, <3>4, <4>1, <5>2
            <7> HIDE DEF n, m, h
            <7>2. n + h + i = Len(given[l])
              BY <7>1
            <7> QED
              BY <7>2 DEF n, h
          <6> QED
            BY <1>1, <3>3, <4>1, <5>2, <6>1
        <5> QED
          BY <3>3, <5>1, <5>2
      <4>3. l \notin Elems(todo')
        BY <1>2, <2>3
      <4> QED
        <5>1. /\ given'[l] = given[l] /\ built'[l] = built[l] /\ running'[l] = running[l]
              /\ Len(given[l]) = Len(built[l]) + InHand(l) + Len(jobs'[l])
          <6>1. given'[l] = given[l] /\ built'[l] = built[l] /\ running'[l] = running[l]
            BY <1>1
          <6> DEFINE n == Len(built[l])
                     m == Len(jobs[l])
                     h == InHand(l)
          <6>2. n \in Nat /\ m \in Nat /\ h \in {0, 1} /\ Len(given[l]) = n + h + m + 1 /\ Len(jobs'[l]) = m + 1
            BY <3>3, <3>4, <4>1
          <6> HIDE DEF n, m, h
          <6>3. Len(given[l]) = n + h + Len(jobs'[l])
            BY <6>2
          <6> QED
            BY <6>1, <6>3 DEF n, h
        <5>2. Len(given[l]) = Len(built[l]) + InHand(l)' + Len(jobs'[l]) + Coming(l)'
          BY <3>3, <3>4, <5>1
        <5> QED
          BY <3>4, <4>2, <4>3, <5>1, <5>2 DEF InLine
    <3> QED
      BY <1>1, <2>1, <3>2, <3>5 DEF Held
  <2> QED
    BY <2>2, <2>3
<1> QED
  BY <1>1, <1>2, <1>3, <1>4 DEF LaneInv, Going

LEMMA TakeJobHolds == ASSUME LaneInv, NEW k \in Lane, TakeJob(k) PROVE LaneInv'
<1>1. /\ running[k] = None /\ jobs[k] # <<>> /\ jobs[k] \in Seq(JobSet)
      /\ running' = [running EXCEPT ![k] = Head(jobs[k])] /\ jobs' = [jobs EXCEPT ![k] = Tail(jobs[k])]
      /\ UNCHANGED <<call, flushes, todo, outstanding, given, built, failed, stage>>
  BY DEF TakeJob, LaneInv, LaneTypes
<1>2. /\ Head(jobs[k]) \in JobSet /\ Tail(jobs[k]) \in Seq(JobSet) /\ Len(Tail(jobs[k])) = Len(jobs[k]) - 1
      /\ \A i \in 1..Len(Tail(jobs[k])) : Tail(jobs[k])[i] = jobs[k][i + 1] /\ i + 1 \in 1..Len(jobs[k])
      /\ Head(jobs[k]) = jobs[k][1] /\ 1 \in 1..Len(jobs[k])
      /\ Elems(jobs[k]) = {Head(jobs[k])} \cup Elems(Tail(jobs[k]))
  BY <1>1, ElemsTail
<1>3. LaneTypes'
  BY <1>1, <1>2 DEF LaneInv, LaneTypes
<1>4. ASSUME Going, NEW l \in Lane PROVE Held(l)'
  <2>1. /\ Held(l) /\ jobs \in [Lane -> Seq(JobSet)] /\ running \in [Lane -> JobSet \cup {None}]
        /\ Len(built[l]) \in Nat /\ Len(jobs[l]) \in Nat
    BY <1>4, LaneOf DEF LaneInv, LaneTypes
  <2>2. CASE l # k
    BY <1>1, <2>1, <2>2, LaneKept
  <2>3. CASE l = k
    <3>1. running'[l] = jobs[l][1] /\ running'[l] # None /\ jobs'[l] = Tail(jobs[l]) /\ running[l] = None
      BY <1>1, <1>2, <2>1, <2>3, LanesAssumption DEF JobSet
    <3>2. InHand(l)' = 1 /\ InHand(l) = 0 /\ Coming(l)' = Coming(l)
      BY <1>1, <3>1 DEF InHand, Coming
    <3>3. InLine(l) => InLine(l)'
      <4> SUFFICES ASSUME InLine(l) PROVE InLine(l)'
        OBVIOUS
      <4>1. Len(given'[l]) = Len(built'[l]) + InHand(l)' + Len(jobs'[l]) + Coming(l)'
        <5>1. Len(given[l]) = Len(built[l]) + InHand(l) + Len(jobs[l]) + Coming(l)
          BY DEF InLine
        <5>2. Coming(l) \in {0, 1} /\ Len(jobs'[l]) = Len(jobs[l]) - 1
          BY <1>2, <2>3, <3>1 DEF Coming
        <5>3. Len(given[l]) = Len(built[l]) + InHand(l)' + Len(jobs'[l]) + Coming(l)'
          BY <2>1, <3>2, <5>1, <5>2
        <5> QED
          BY <1>1, <5>3
      <4>2. \A i \in 1..Len(jobs[l]) : given[l][Len(built[l]) + i] = jobs[l][i][3]
        BY <2>1, <3>2 DEF InLine
      <4>3. given'[l][Len(built'[l]) + 1] = running'[l][3]
        BY <1>1, <1>2, <2>3, <3>1, <4>2
      <4>4. \A i \in 1..Len(jobs'[l]) : given'[l][Len(built'[l]) + InHand(l)' + i] = jobs'[l][i][3]
        <5> TAKE i \in 1..Len(jobs'[l])
        <5>1. jobs'[l][i] = jobs[l][i + 1] /\ i + 1 \in 1..Len(jobs[l])
          BY <1>2, <2>3, <3>1
        <5>2. Len(built[l]) \in Nat /\ i \in Int
          BY <2>1
        <5>3. Len(built[l]) + 1 + i = Len(built[l]) + (i + 1)
          <6> DEFINE n == Len(built[l])
          <6>1. n \in Nat /\ i \in Int
            BY <5>2
          <6> HIDE DEF n
          <6>2. n + 1 + i = n + (i + 1)
            BY <6>1
          <6> QED
            BY <6>2 DEF n
        <5> QED
          BY <1>1, <3>2, <4>2, <5>1, <5>3
      <4> QED
        BY <1>1, <4>1, <4>3, <4>4 DEF InLine
    <3>4. Elems(jobs'[l]) \subseteq Elems(jobs[l]) /\ running'[l] \in Elems(jobs[l])
      BY <1>2, <2>3, <3>1
    <3> QED
      BY <1>1, <2>1, <3>3, <3>4 DEF Held
  <2> QED
    BY <2>2, <2>3
<1> QED
  BY <1>1, <1>3, <1>4 DEF LaneInv, Going

LEMMA RunJobHolds == ASSUME LaneInv, NEW k \in Lane, RunJob(k) PROVE LaneInv'
<1>1. /\ running[k] # None /\ running' = [running EXCEPT ![k] = None]
      /\ UNCHANGED <<call, flushes, todo, jobs, outstanding, given, stage>>
      /\ \/ failed' = failed \cup {running[k]} /\ built' = built
         \/ built' = [built EXCEPT ![k] = Append(built[k], running[k][3])] /\ failed' = failed
  BY DEF RunJob
<1>2. running[k] \in JobSet /\ running[k][3] \in Nat
  BY <1>1 DEF LaneInv, LaneTypes, JobSet
<1>3. LaneTypes'
  <2>1. built' \in [Lane -> Seq(Nat)]
    <3>1. built \in [Lane -> Seq(Nat)] /\ built[k] \in Seq(Nat)
      BY DEF LaneInv, LaneTypes
    <3>2. Append(built[k], running[k][3]) \in Seq(Nat)
      BY <1>2, <3>1
    <3> QED
      BY <1>1, <3>1, <3>2
  <2>2. failed' \subseteq JobSet /\ running' \in [Lane -> JobSet \cup {None}]
    BY <1>1, <1>2 DEF LaneInv, LaneTypes
  <2> QED
    BY <1>1, <2>1, <2>2 DEF LaneInv, LaneTypes
<1>4. ASSUME Going, NEW l \in Lane PROVE Held(l)'
  <2>1. /\ Held(l) /\ running \in [Lane -> JobSet \cup {None}] /\ built \in [Lane -> Seq(Nat)]
        /\ built[l] \in Seq(Nat) /\ Len(jobs[l]) \in Nat
    BY <1>4, LaneOf DEF LaneInv, LaneTypes
  <2>2. CASE l # k
    BY <1>1, <2>1, <2>2, LaneKept
  <2>3. CASE l = k /\ failed' = failed \cup {running[k]}
    BY <1>1, <2>1, <2>3 DEF Held
  <2>4. CASE l = k /\ built' = [built EXCEPT ![k] = Append(built[k], running[k][3])] /\ failed' = failed
    <3>1. built'[l] = Append(built[l], running[l][3]) /\ running'[l] = None
      BY <2>1, <1>1, <2>4
    <3>2. /\ Len(built'[l]) = Len(built[l]) + 1 /\ built'[l][Len(built[l]) + 1] = running[l][3]
          /\ Len(built[l]) \in Nat /\ \A i \in 1..Len(built[l]) : built'[l][i] = built[l][i]
      BY <1>2, <2>1, <2>4, <3>1
    <3>3. InHand(l) = 1 /\ InHand(l)' = 0 /\ Coming(l)' = Coming(l)
      BY <1>1, <2>4, <3>1 DEF InHand, Coming
    <3>4. InLine(l) => InLine(l)'
      <4> SUFFICES ASSUME InLine(l) PROVE InLine(l)'
        OBVIOUS
      <4>1. Len(given'[l]) = Len(built'[l]) + InHand(l)' + Len(jobs'[l]) + Coming(l)'
        <5>1. Len(given[l]) = Len(built[l]) + InHand(l) + Len(jobs[l]) + Coming(l) /\ Coming(l) \in {0, 1}
          BY DEF InLine, Coming
        <5>2. Len(given[l]) = Len(built'[l]) + InHand(l)' + Len(jobs[l]) + Coming(l)'
          BY <2>1, <3>2, <3>3, <5>1
        <5> QED
          BY <1>1, <5>2
      <4>2. \A i \in 1..Len(built'[l]) : given'[l][i] = built'[l][i]
        <5> TAKE i \in 1..Len(built'[l])
        <5>1. CASE i \in 1..Len(built[l])
          BY <1>1, <3>2, <5>1 DEF InLine
        <5>2. CASE i = Len(built[l]) + 1
          BY <1>1, <2>4, <3>2, <5>2 DEF InLine
        <5> QED
          BY <3>2, <5>1, <5>2
      <4>3. \A i \in 1..Len(jobs'[l]) : given'[l][Len(built'[l]) + InHand(l)' + i] = jobs'[l][i][3]
        BY <1>1, <2>1, <3>2, <3>3 DEF InLine
      <4> QED
        BY <1>1, <3>1, <4>1, <4>2, <4>3 DEF InLine
    <3> QED
      BY <1>1, <2>1, <2>4, <3>1, <3>4 DEF Held
  <2> QED
    BY <1>1, <2>2, <2>3, <2>4
<1> QED
  BY <1>1, <1>3, <1>4 DEF LaneInv, Going

LEMMA CollectHolds == ASSUME LaneInv, Collect PROVE LaneInv'
<1>1. /\ stage = "feed" /\ todo = <<>>
      /\ \A l \in Lane : \A i \in 1..Len(outstanding[l]) : Settled(outstanding[l][i])
      /\ outstanding' = [l \in Lane |-> <<>>]
      /\ UNCHANGED <<call, flushes, todo, jobs, running, given, built, failed>>
  BY DEF Collect, LaneInv, Going
<1>2. LaneTypes'
  BY <1>1 DEF LaneInv, LaneTypes
<1>3. CASE stage' = "error"
  BY <1>1, <1>2, <1>3 DEF LaneInv, Going
<1>4. CASE stage' = "out" /\ \A l \in Lane : \A i \in 1..Len(outstanding[l]) : outstanding[l][i] \notin failed
  <2>1. ASSUME NEW l \in Lane PROVE Held(l)'
    <3>1. Held(l) /\ \A job \in Elems(outstanding[l]) : Settled(job) /\ job \notin failed
      BY <1>1, <1>4 DEF LaneInv, Going, Elems
    <3>2. Elems(jobs[l]) = {} /\ running[l] = None /\ InLine(l)
      BY <3>1, SettledOut DEF Held
    <3>3. InLine(l)'
      BY <1>1, <3>2 DEF InLine, InHand, Coming
    <3> QED
      BY <1>1, <3>2, <3>3 DEF Held
  <2> QED
    BY <1>1, <1>2, <1>4, <2>1 DEF LaneInv, Going
<1> QED
  BY <1>3, <1>4 DEF Collect

LEMMA LaneStep == LaneInv /\ [Next]_vars => LaneInv'
<1> SUFFICES ASSUME LaneInv, [Next]_vars PROVE LaneInv'
  OBVIOUS
<1>1. ASSUME UNCHANGED <<call, flushes, todo, jobs, running, outstanding, given, built, failed>>,
             \/ stage' = stage
             \/ stage' \in {"error", "gone"}
             \/ stage = "feed" /\ stage' = "decode"
             \/ stage = "flush_build" /\ stage' = "feed" /\ todo = <<>>
      PROVE  LaneInv'
  <2>1. LaneTypes'
    BY <1>1 DEF LaneInv, LaneTypes
  <2>2. ASSUME Going, NEW l \in Lane PROVE Held(l)'
    BY <1>1, <2>2, LaneKept DEF LaneInv
  <2> QED
    BY <1>1, <2>1, <2>2 DEF LaneInv, Going
<1>2. CASE PoolSteps
  BY <1>1, <1>2 DEF PoolSteps, feedVars
<1>3. CASE ConsumeFails \/ Flushed \/ Destroy \/ \E n \in Sizes : Flush(n)
  BY <1>1, <1>3 DEF ConsumeFails, Flushed, Destroy, Flush
<1>4. CASE Call \/ Bounded \/ Submit \/ Collect \/ \E ls \in Given : Consume(ls)
  BY <1>4, CallHolds, BoundedHolds, SubmitHolds, CollectHolds, ConsumeHolds
<1>5. CASE LaneSteps
  BY <1>5, TakeJobHolds, RunJobHolds DEF LaneSteps
<1>6. CASE UNCHANGED vars
  BY <1>1, <1>6 DEF vars, feedVars
<1> QED
  BY <1>2, <1>3, <1>4, <1>5, <1>6 DEF Next, FeedSteps

\* What feed() returns is whole (Reader::feed, bounded(), the lanes' threads): the
\* array of each lane holds the rows of every flush that had some, once and in
\* stream order, for any lanes, flushes and calls and whichever jobs throw.
THEOREM ArraysWhole == Spec => []ReturnedWhole
<1>1. LaneInv => ReturnedWhole
  <2> SUFFICES ASSUME LaneInv, stage = "out" PROVE built = given
    BY DEF ReturnedWhole
  <2>1. ASSUME NEW l \in Lane PROVE built[l] = given[l]
    <3>1. /\ Held(l) /\ outstanding[l] = <<>> /\ todo = <<>> /\ jobs[l] \in Seq(JobSet)
          /\ built[l] \in Seq(Nat) /\ given[l] \in Seq(Nat)
      BY DEF LaneInv, LaneTypes, Going
    <3>2. jobs[l] = <<>> /\ running[l] = None /\ InLine(l)
      <4>1. Elems(jobs[l]) = {} /\ running[l] = None /\ InLine(l)
        BY <3>1, ElemsEmpty DEF Held
      <4>2. jobs[l] # <<>> => Head(jobs[l]) \in Elems(jobs[l])
        BY <3>1, ElemsTail
      <4> QED
        BY <4>1, <4>2
    <3>3. Len(given[l]) = Len(built[l]) /\ \A i \in 1..Len(built[l]) : given[l][i] = built[l][i]
      <4>1. InHand(l) = 0 /\ Coming(l) = 0 /\ Len(jobs[l]) = 0 /\ Len(built[l]) \in Nat
        BY <3>1, <3>2, ElemsEmpty DEF InHand, Coming
      <4>2. /\ Len(given[l]) = Len(built[l]) + InHand(l) + Len(jobs[l]) + Coming(l)
            /\ \A i \in 1..Len(built[l]) : given[l][i] = built[l][i]
        BY <3>2 DEF InLine
      <4> QED
        BY <4>1, <4>2
    <3>4. /\ given[l] = [i \in 1..Len(given[l]) |-> given[l][i]]
          /\ built[l] = [i \in 1..Len(built[l]) |-> built[l][i]]
      BY <3>1
    <3> QED
      BY <3>3, <3>4
  <2> QED
    BY <2>1 DEF LaneInv, LaneTypes
<1> QED
  BY <1>1, LaneInit, LaneStep, PTL DEF Spec

=============================================================================
