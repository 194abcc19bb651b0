-------------------------- MODULE MosaicPushProofs --------------------------
(***************************************************************************)
(* mosaic-push beyond one archive.  First, what the run of MosaicPipeline  *)
(* shows for three files, proved for any number of files, any size of the  *)
(* compression queue and every initial stage: what the disk accounting     *)
(* counts on holds in every interleaving of the coordinator and the        *)
(* workers.  Then, what the run of MosaicUpload shows for three revisions  *)
(* and a few failures, proved for any number of revisions of any sizes,    *)
(* failures, crashes and days: the target is only shown whole revisions,   *)
(* and the upload implements the delivery MosaicDelivery promises.         *)
(***************************************************************************)
EXTENDS MosaicPipeline, MosaicUpload, SequenceTheorems, FiniteSetTheorems, TLAPS

(***************************************************************************)
(* Sequences.                                                              *)
(***************************************************************************)
\* No file is twice in q; the None that ends a worker may be.
Distinct(q) == \A i, j \in 1..Len(q) : i # j /\ q[i] # NoFile => q[i] # q[j]

LEMMA RangeMember ==
  ASSUME NEW S, NEW q \in Seq(S), NEW f
  PROVE  f \in Range(q) <=> \E i \in 1..Len(q) : q[i] = f
BY LenProperties DEF Range

LEMMA Appended ==
  ASSUME NEW S, NEW q \in Seq(S), NEW e \in S
  PROVE  /\ Append(q, e) \in Seq(S) /\ Len(Append(q, e)) = Len(q) + 1
         /\ Range(Append(q, e)) = Range(q) \cup {e}
<1> DEFINE longer == Append(q, e)
<1>1. /\ longer \in Seq(S) /\ Len(longer) = Len(q) + 1 /\ Len(q) \in Nat
      /\ \A i \in 1..Len(q) : longer[i] = q[i]
      /\ longer[Len(q) + 1] = e
  BY AppendProperties, LenProperties
<1> HIDE DEF longer
<1>2. \A i \in 1..Len(longer) : i \in 1..Len(q) \/ i = Len(q) + 1
  BY <1>1
<1>3. 1..Len(q) \subseteq 1..Len(longer) /\ Len(q) + 1 \in 1..Len(longer)
  BY <1>1
<1>4. ASSUME NEW f
      PROVE  f \in Range(longer) <=> f \in Range(q) \/ f = e
  <2>1. f \in Range(longer) <=> \E i \in 1..Len(longer) : longer[i] = f
    BY <1>1, RangeMember
  <2>2. f \in Range(q) <=> \E i \in 1..Len(q) : q[i] = f
    BY RangeMember
  <2> QED
    BY <1>1, <1>2, <1>3, <2>1, <2>2
<1> QED
  BY <1>1, <1>4 DEF longer

LEMMA AppendedDistinct ==
  ASSUME NEW S, NEW q \in Seq(S), NEW e \in S, Distinct(q), e # NoFile => e \notin Range(q)
  PROVE  Distinct(Append(q, e))
<1> DEFINE longer == Append(q, e)
<1>1. /\ longer \in Seq(S) /\ Len(longer) = Len(q) + 1 /\ Len(q) \in Nat
      /\ \A i \in 1..Len(q) : longer[i] = q[i]
      /\ longer[Len(q) + 1] = e
  BY AppendProperties, LenProperties
<1> HIDE DEF longer
<1>2. \A i \in 1..Len(q) : e # NoFile => q[i] # e
  BY RangeMember
<1>3. ASSUME NEW i \in 1..Len(longer), NEW j \in 1..Len(longer), i # j, longer[i] # NoFile
      PROVE  longer[i] # longer[j]
  <2>1. (i \in 1..Len(q) \/ i = Len(q) + 1) /\ (j \in 1..Len(q) \/ j = Len(q) + 1)
    BY <1>1
  <2>2. CASE i \in 1..Len(q) /\ j \in 1..Len(q)
    BY <1>1, <1>3, <2>2 DEF Distinct
  <2>3. CASE i \in 1..Len(q) /\ j = Len(q) + 1
    BY <1>1, <1>2, <1>3, <2>3
  <2>4. CASE i = Len(q) + 1 /\ j \in 1..Len(q)
    BY <1>1, <1>2, <1>3, <2>4
  <2> QED
    BY <1>3, <2>1, <2>2, <2>3, <2>4
<1> QED
  BY <1>3 DEF Distinct, longer

LEMMA TailTaken ==
  ASSUME NEW S, NEW q \in Seq(S), q # <<>>
  PROVE  /\ Head(q) \in S /\ Tail(q) \in Seq(S) /\ Len(Tail(q)) = Len(q) - 1
         /\ Head(q) \in Range(q) /\ Range(Tail(q)) \subseteq Range(q)
         /\ Distinct(q) => Distinct(Tail(q)) /\ (Head(q) # NoFile => Head(q) \notin Range(Tail(q)))
<1> DEFINE remaining == Tail(q)
<1>1. /\ Head(q) \in S /\ remaining \in Seq(S) /\ Len(remaining) = Len(q) - 1
      /\ \A i \in 1..Len(remaining) : remaining[i] = q[i + 1]
      /\ Head(q) = q[1] /\ Len(q) \in Nat \ {0}
  BY HeadTailProperties, EmptySeq, LenProperties
<1> HIDE DEF remaining
<1>2. 1 \in 1..Len(q) /\ \A i \in 1..Len(remaining) : i + 1 \in 1..Len(q) /\ i + 1 # 1
  BY <1>1
<1>3. Head(q) \in Range(q)
  BY <1>1, <1>2, RangeMember
<1>4. ASSUME NEW f \in Range(remaining)
      PROVE  \E i \in 1..Len(remaining) : q[i + 1] = f
  BY <1>1, RangeMember
<1>5. Range(remaining) \subseteq Range(q)
  BY <1>2, <1>4, RangeMember
<1>6. ASSUME Distinct(q), Head(q) # NoFile
      PROVE  Head(q) \notin Range(remaining)
  BY <1>1, <1>2, <1>4, <1>6 DEF Distinct
<1>7. ASSUME Distinct(q)
      PROVE  Distinct(remaining)
  <2>1. ASSUME NEW i \in 1..Len(remaining), NEW j \in 1..Len(remaining), i # j, remaining[i] # NoFile
        PROVE  remaining[i] # remaining[j]
    <3>1. i + 1 \in 1..Len(q) /\ j + 1 \in 1..Len(q) /\ i + 1 # j + 1
      BY <1>2, <2>1
    <3> QED
      BY <1>1, <1>7, <2>1, <3>1 DEF Distinct
  <2> QED
    BY <2>1 DEF Distinct
<1> QED
  BY <1>1, <1>3, <1>5, <1>6, <1>7 DEF remaining

\* A queue holds no more files than it has places.
LEMMA FilesBounded ==
  ASSUME NEW S, NEW q \in Seq(S)
  PROVE  IsFiniteSet(Range(q)) /\ Cardinality(Range(q)) <= Len(q)
<1>1. Len(q) \in Nat /\ q \in [1..Len(q) -> S] /\ DOMAIN q = 1..Len(q)
  BY LenProperties
<1>2. q \in Surjection(1..Len(q), Range(q))
  <2>1. \A i \in 1..Len(q) : q[i] \in Range(q)
    BY RangeMember
  <2>2. q \in [1..Len(q) -> Range(q)]
    BY <1>1, <2>1
  <2>3. \A f \in Range(q) : \E i \in 1..Len(q) : q[i] = f
    BY RangeMember
  <2> QED
    BY <2>2, <2>3 DEF Surjection
<1>3. IsFiniteSet(1..Len(q)) /\ Cardinality(1..Len(q)) = Len(q)
  BY <1>1, FS_Interval
<1> QED
  BY <1>2, <1>3, FS_Surjection

(***************************************************************************)
(* The inductive invariant.                                                *)
(***************************************************************************)
\* A worker holds a file exactly while it works on one.
Working ==
    /\ \A s \in Stages : work[s] # NoFile <=> at[s] \in {"start", "run", "put"}
    /\ at["push"] # "put" /\ (coord = "put" => next <= MaxFiles)

\* A file is at one place of the pipeline.
OnePlace ==
    /\ \A s \in Stages : Distinct(queue[s])
    /\ \A s, t \in Stages, f \in Files : s # t /\ f \in Range(queue[s]) => f \notin Range(queue[t])
    /\ \A s, t \in Stages, f \in Files : f = work[s] => f \notin Range(queue[t])
    /\ \A s, t \in Stages : s # t /\ work[s] # NoFile => work[s] # work[t]

\* The pin is there before the file is queued, and until its job has ended.
PinsHeld == InFlight \subseteq pinned /\ (coord = "put" => next \in pinned)

\* Nothing is known of a file the coordinator has not come to.
Started == \A f \in InFlight \cup kept : f < next

\* Under a limit the event says that the one file has left the pipeline.
Serial ==
    limited =>
        /\ InFlight \subseteq {next - 1}
        /\ coord \in {"next", "put"} => InFlight = {}
        /\ coord = "put" => ~event
        /\ coord = "wait" /\ event => InFlight = {}

\* A raw copy of this scan is with the compressor or on its way there.
Backlog ==
    /\ Len(queue["compress"]) <= Slots
    /\ \A f \in kept : f \notin Range(queue["download"]) \cup Range(queue["push"]) /\ f # work["push"]
    /\ at["compress"] = "put" => work["compress"] \notin kept

IInv == TypeOK /\ Working /\ OnePlace /\ PinsHeld /\ Started /\ Serial /\ Backlog

USE ConstantsAssumption

LEMMA WorkMember ==
  ASSUME TypeOK, NEW f
  PROVE  f \in Range(work) <=> \E s \in Stages : work[s] = f
BY DEF TypeOK, Range

\* The files in flight, place by place.
LEMMA Flying ==
  TypeOK => \A f : f \in InFlight <=> f # NoFile /\ \E s \in Stages : f \in Range(queue[s]) \/ f = work[s]
<1> SUFFICES ASSUME TypeOK, NEW f
             PROVE  f \in InFlight <=> f # NoFile /\ \E s \in Stages : f \in Range(queue[s]) \/ f = work[s]
  OBVIOUS
<1>1. f \in InFlight <=> (\E s \in Stages : f \in Queued(s)) \/ f \in Range(work) \ {NoFile}
  BY DEF InFlight
<1>2. \A s \in Stages : f \in Queued(s) <=> f \in Range(queue[s]) /\ f # NoFile
  BY DEF Queued
<1> QED
  BY <1>1, <1>2, WorkMember

LEMMA FlyingNext ==
  ASSUME TypeOK'
  PROVE  \A f : f \in InFlight' <=> f # NoFile /\ \E s \in Stages : f \in Range(queue'[s]) \/ f = work'[s]
<1> SUFFICES ASSUME NEW f
             PROVE  f \in InFlight' <=> f # NoFile /\ \E s \in Stages : f \in Range(queue'[s]) \/ f = work'[s]
  OBVIOUS
<1>1. f \in InFlight' <=> (\E s \in Stages : f \in Range(queue'[s]) \ {NoFile}) \/ f \in Range(work') \ {NoFile}
  BY DEF InFlight, Queued
<1>2. f \in Range(work') <=> \E s \in Stages : work'[s] = f
  BY DEF TypeOK, Range
<1> QED
  BY <1>1, <1>2

LEMMA FlyingFiles ==
  ASSUME TypeOK, NEW f \in InFlight
  PROVE  f \in Files
<1>1. f # NoFile /\ \E s \in Stages : f \in Range(queue[s]) \/ f = work[s]
  BY Flying
<1>2. PICK s \in Stages : f \in Range(queue[s]) \/ f = work[s]
  BY <1>1
<1>3. queue[s] \in Seq({NoFile} \cup Files) /\ work[s] \in {NoFile} \cup Files
  BY DEF TypeOK
<1>4. CASE f \in Range(queue[s])
  <2>1. PICK i \in 1..Len(queue[s]) : queue[s][i] = f
    BY <1>3, <1>4, RangeMember
  <2>2. queue[s][i] \in {NoFile} \cup Files
    BY <1>3, ElementOfSeq
  <2> QED
    BY <1>1, <2>1, <2>2
<1> QED
  BY <1>1, <1>2, <1>3, <1>4

\* The invariant, in the terms its preservation is shown in.
LEMMA InitHolds == Init => IInv
<1> SUFFICES ASSUME Init PROVE IInv
  OBVIOUS
<1>1. TypeOK
  <2>1. <<>> \in Seq({NoFile} \cup Files)
    BY EmptySeq
  <2>2. next \in 1..(MaxFiles + 1)
    BY DEF Init
  <2>3. limited \in BOOLEAN /\ plan \in [Files -> Stages]
    BY DEF Init
  <2>4. queue \in [Stages -> Seq({NoFile} \cup Files)] /\ work \in [Stages -> {NoFile} \cup Files]
    BY <2>1 DEF Init
  <2>5. at \in [Stages -> {"get", "start", "run", "put", "ended"}]
    BY DEF Init
  <2>6. coord = "next" /\ closing = 1 /\ ~event /\ ~stop /\ event \in BOOLEAN /\ stop \in BOOLEAN
    BY DEF Init
  <2>7. pinned = {} /\ reserved = {} /\ dropped = {} /\ kept = {} /\ done = {}
    BY DEF Init
  <2> QED
    BY <2>2, <2>3, <2>4, <2>5, <2>6, <2>7 DEF TypeOK
<1>2. \A s \in Stages : \A f : f \notin Range(queue[s])
  <2>1. \A s \in Stages : queue[s] = <<>> /\ Len(queue[s]) = 0
    BY EmptySeq DEF Init
  <2>2. \A f : f \notin Range(<<>>)
    <3>1. <<>> \in Seq({}) /\ Len(<<>>) = 0
      BY EmptySeq
    <3>2. \A i : i \notin 1..Len(<<>>)
      BY <3>1
    <3> QED
      BY <3>1, <3>2, RangeMember
  <2> QED
    BY <2>1, <2>2
<1>3. \A s \in Stages : Distinct(queue[s]) /\ Len(queue[s]) = 0
  BY EmptySeq DEF Init, Distinct
<1>4. InFlight = {}
  BY <1>1, <1>2, Flying DEF Init
<1>5. Working
  BY DEF Init, Working, Stages
<1>6. OnePlace
  BY <1>2, <1>3 DEF OnePlace, Init
<1>7. PinsHeld /\ Started /\ Serial
  BY <1>4 DEF PinsHeld, Started, Serial, Init
<1>8. Backlog
  BY <1>3 DEF Backlog, Init, Stages
<1> QED
  BY <1>1, <1>5, <1>6, <1>7, <1>8 DEF IInv

(***************************************************************************)
(* Steps that move no file.                                                *)
(***************************************************************************)
\* A worker lets go of its file, and no queue changes.
LEMMA Dropped ==
  ASSUME IInv, TypeOK', NEW s \in Stages, UNCHANGED <<queue, next, limited, coord>>,
         work[s] # NoFile, Release(s), kept' \subseteq kept \cup {work[s]},
         pinned \ {work[s]} \subseteq pinned', event' \in {event, TRUE}
  PROVE  Working' /\ OnePlace' /\ PinsHeld' /\ Started' /\ Serial' /\ InFlight' = InFlight \ {work[s]}
<1>1. /\ work'[s] = NoFile /\ at'[s] \in {"get", "ended"}
      /\ \A t \in Stages : t # s => work'[t] = work[t] /\ at'[t] = at[t]
  BY DEF Release, IInv, TypeOK
<1>2. work[s] \in InFlight /\ work[s] \in Files
  BY Flying, FlyingFiles DEF IInv
<1>3. \A f : f \in InFlight' <=> f \in InFlight /\ f # work[s]
  BY <1>1, <1>2, Flying, FlyingNext DEF IInv, OnePlace
<1>4. Working'
  BY <1>1 DEF IInv, Working, Stages
<1>5. OnePlace'
  <2>1. \A t \in Stages : queue'[t] = queue[t] /\ (work'[t] = work[t] \/ work'[t] = NoFile)
    BY <1>1
  <2>2. NoFile \notin Files
    BY DEF NoFile, Files
  <2>3. \A t, u \in Stages, f \in Files : f = work'[t] => f \notin Range(queue'[u])
    BY <2>1, <2>2 DEF IInv, OnePlace
  <2>4. \A t, u \in Stages : t # u /\ work'[t] # NoFile => work'[t] # work'[u]
    BY <2>1 DEF IInv, OnePlace
  <2> QED
    BY <2>1, <2>3, <2>4 DEF IInv, OnePlace
<1>6. PinsHeld' /\ Started'
  <2>1. coord = "put" => work[s] # next
    BY <1>2 DEF IInv, Started, TypeOK, Files
  <2> QED
    BY <1>2, <1>3, <2>1 DEF IInv, PinsHeld, Started
<1>7. Serial'
  <2>1. limited => InFlight' = {}
    BY <1>2, <1>3 DEF IInv, Serial
  <2> QED
    BY <1>2, <2>1 DEF IInv, Serial
<1> QED
  BY <1>3, <1>4, <1>5, <1>6, <1>7

LEMMA Unmoved ==
  ASSUME IInv, TypeOK', UNCHANGED <<queue, work>>
  PROVE  InFlight' = InFlight /\ OnePlace'
BY DEF InFlight, Queued, IInv, OnePlace

LEMMA DroppedBacklog ==
  ASSUME IInv, NEW s \in Stages, UNCHANGED queue, work[s] # NoFile, Release(s),
         kept' = kept \/ kept' = kept \ {work["compress"]}
                      \/ (s = "download" /\ kept' = kept \cup {work[s]})
  PROVE  Backlog'
<1>1. /\ work'[s] = NoFile /\ at'[s] \in {"get", "ended"}
      /\ \A t \in Stages : t # s => work'[t] = work[t] /\ at'[t] = at[t]
  BY DEF Release, IInv, TypeOK
<1>2. "compress" \in Stages /\ "push" \in Stages /\ "download" \in Stages
  BY DEF Stages
<1>3. kept \subseteq Files /\ NoFile \notin Files /\ \A t \in Stages : work[t] \in Files \cup {NoFile}
  BY DEF IInv, TypeOK, Files, NoFile
<1>4. \A f \in kept' : f \notin Range(queue["download"]) \cup Range(queue["push"]) /\ f # work'["push"]
  <2>1. \A f \in kept : f \notin Range(queue["download"]) \cup Range(queue["push"]) /\ f # work'["push"]
    BY <1>1, <1>2, <1>3 DEF IInv, Backlog
  <2>2. work[s] \notin Range(queue["download"]) \cup Range(queue["push"])
    BY <1>2, <1>3 DEF IInv, OnePlace
  <2>3. s = "download" => work[s] # work'["push"]
    BY <1>1, <1>2 DEF IInv, OnePlace
  <2> QED
    BY <2>1, <2>2, <2>3
<1>5. at'["compress"] = "put" => work'["compress"] \notin kept'
  <2>1. SUFFICES ASSUME at'["compress"] = "put"
                 PROVE  work'["compress"] \notin kept'
    OBVIOUS
  <2>2. s # "compress" /\ work'["compress"] = work["compress"] /\ at["compress"] = "put"
    BY <1>1, <1>2, <2>1
  <2>3. work["compress"] \notin kept /\ work["compress"] # work[s]
    BY <1>2, <2>2 DEF IInv, Backlog, OnePlace
  <2> QED
    BY <2>2, <2>3
<1> QED
  BY <1>4, <1>5 DEF IInv, Backlog

(***************************************************************************)
(* Types.                                                                  *)
(***************************************************************************)
LEMMA HoldsFile ==
  ASSUME IInv, NEW s \in Stages, at[s] \in {"start", "run", "put"}
  PROVE  work[s] # NoFile /\ work[s] \in Files
BY DEF IInv, Working, TypeOK

LEMMA TypeNext == IInv /\ [Next]_vars => TypeOK'
<1> SUFFICES ASSUME IInv, [Next]_vars PROVE TypeOK'
  OBVIOUS
<1> USE DEF IInv, TypeOK
<1>1. CASE Shutdown
  BY <1>1 DEF Shutdown, control, workers, storage, history
<1>2. CASE Coordinator
  <2>1. CASE NextJob
    <3>1. next \in Files
      BY <2>1 DEF NextJob, Files
    <3> QED
      BY <2>1, <3>1 DEF NextJob, ClearedEvent, workers, history
  <2>2. CASE NoMoreJobs
    BY <2>2 DEF NoMoreJobs, workers, storage, history
  <2>3. CASE PutJob
    <3>1. next \in Files /\ next + 1 \in 1..(MaxFiles + 1)
      BY <2>3 DEF PutJob, Working, Files
    <3>2. plan[next] \in Stages /\ queue' = [queue EXCEPT ![plan[next]] = Append(queue[plan[next]], next)]
      BY <2>3, <3>1 DEF PutJob
    <3>3. Append(queue[plan[next]], next) \in Seq({NoFile} \cup Files)
      BY <3>1, <3>2, Appended
    <3>4. queue' \in [Stages -> Seq({NoFile} \cup Files)]
      BY <3>2, <3>3
    <3> QED
      BY <2>3, <3>1, <3>4 DEF PutJob, Continue, storage, history
  <2>4. CASE GiveUpJob
    BY <2>4 DEF GiveUpJob, workers, storage, history
  <2>5. CASE AwaitJob
    BY <2>5 DEF AwaitJob, workers, storage, history
  <2>6. CASE CloseQueue
    <3>1. Closing \in Stages
      BY DEF Closing, Order, Stages
    <3>2. Append(queue[Closing], NoFile) \in Seq({NoFile} \cup Files)
      BY <3>1, Appended
    <3>3. queue' = queue \/ queue' = [queue EXCEPT ![Closing] = Append(queue[Closing], NoFile)]
      BY <2>6 DEF CloseQueue
    <3>4. queue' \in [Stages -> Seq({NoFile} \cup Files)]
      BY <3>2, <3>3
    <3> QED
      BY <2>6, <3>4 DEF CloseQueue, storage, history
  <2>7. CASE Join
    BY <2>7 DEF Join, workers, storage, history
  <2> QED
    BY <1>2, <2>1, <2>2, <2>3, <2>4, <2>5, <2>6, <2>7 DEF Coordinator
<1>3. ASSUME NEW s \in Stages, Worker(s) PROVE TypeOK'
  <2>1. CASE Get(s)
    <3>1. queue[s] \in Seq({NoFile} \cup Files) /\ queue[s] # <<>>
      BY <2>1 DEF Get
    <3>2. Head(queue[s]) \in {NoFile} \cup Files /\ Tail(queue[s]) \in Seq({NoFile} \cup Files)
      BY <3>1, TailTaken
    <3>3. queue' \in [Stages -> Seq({NoFile} \cup Files)] /\ work' \in [Stages -> {NoFile} \cup Files]
      BY <2>1, <3>2 DEF Get, Rest
    <3> QED
      BY <2>1, <3>3 DEF Get, Taken, control, storage, history
  <2>2. CASE Quit(s)
    BY <2>2 DEF Quit, control, storage, history
  <2>3. CASE Reserve(s)
    <3>1. work[s] \in Files
      BY <2>3, HoldsFile DEF Reserve
    <3> QED
      BY <2>3, <3>1 DEF Reserve, control, history
  <2>4. CASE at[s] \in {"start", "run", "put"} /\ FinishJob(s) /\ UNCHANGED <<control, queue, stop, dropped, kept>>
    <3>1. work[s] \in Files
      BY <2>4, HoldsFile
    <3> QED
      BY <2>4, <3>1 DEF FinishJob, Release, control
  <2>5. CASE Succeed(s)
    <3>1. work[s] \in Files
      BY <2>5, HoldsFile DEF Succeed
    <3> QED
      BY <2>5, <3>1 DEF Succeed, Release, HandOn, control, storage
  <2>6. CASE s # "push" /\ Put(s)
    <3>1. Downstream[s] \in Stages /\ work[s] \in Files
      BY <2>6, HoldsFile DEF Put, Downstream, Stages
    <3>2. queue' \in [Stages -> Seq({NoFile} \cup Files)]
      BY <2>6, <3>1, Appended DEF Put
    <3> QED
      BY <2>6, <3>2 DEF Put, Release, control, storage, history
  <2>7. CASE GiveUp(s)
    <3>1. work[s] \in Files
      BY <2>7, HoldsFile DEF GiveUp
    <3> QED
      BY <2>7, <3>1 DEF GiveUp, Release, control, storage
  <2>8. Put(s) => s # "push"
    BY DEF Put, Working
  <2> QED
    BY <1>3, <2>1, <2>2, <2>3, <2>4, <2>5, <2>6, <2>7, <2>8
       DEF Worker, TurnAway, Fail, Failed, Pushed
<1>4. CASE UNCHANGED vars
  BY <1>4 DEF vars
<1> QED
  BY <1>1, <1>2, <1>3, <1>4 DEF Next, Ended

(***************************************************************************)
(* The invariant is preserved, action by action.                           *)
(***************************************************************************)
\* The steps that neither move a file nor change what a worker does.
LEMMA StillSteps ==
  ASSUME IInv, TypeOK', UNCHANGED <<queue, at, work, next, limited, event, kept, pinned>>,
         coord' \in {"close", "join", "end"} \/ coord' = coord
           \/ (coord = "wait" /\ coord' = "next" /\ event)
  PROVE  IInv'
<1>1. InFlight' = InFlight /\ OnePlace'
  BY Unmoved
<1>2. Working' /\ PinsHeld' /\ Started' /\ Backlog'
  BY <1>1 DEF IInv, Working, PinsHeld, Started, Backlog
<1>3. Serial'
  BY <1>1 DEF IInv, Serial
<1> QED
  BY <1>1, <1>2, <1>3 DEF IInv

LEMMA NextJobHolds == ASSUME IInv, TypeOK', NextJob PROVE IInv'
<1> USE DEF NextJob, workers, history
<1>1. InFlight' = InFlight /\ OnePlace'
  BY Unmoved
<1>2. Working' /\ PinsHeld' /\ Started' /\ Backlog'
  BY <1>1 DEF IInv, TypeOK, Working, PinsHeld, Started, Backlog
<1>3. Serial'
  BY <1>1 DEF IInv, Serial, ClearedEvent
<1> QED
  BY <1>1, <1>2, <1>3 DEF IInv

LEMMA PutJobHolds == ASSUME IInv, TypeOK', PutJob PROVE IInv' /\ InFlight' = InFlight \cup {next}
<1> DEFINE s == plan[next]
<1>1. /\ next \in Files /\ s \in Stages /\ next # NoFile
      /\ queue'[s] = Append(queue[s], next) /\ \A t \in Stages : t # s => queue'[t] = queue[t]
      /\ \A t \in Stages : queue[t] \in Seq({NoFile} \cup Files)
  BY DEF PutJob, IInv, TypeOK, Working, Files, NoFile
<1>2. UNCHANGED <<at, work, limited, event, kept, pinned>> /\ next' = next + 1
  BY DEF PutJob, storage, history
<1>3. next \notin InFlight /\ next \notin kept
  BY DEF IInv, Started, TypeOK
<1>4. \A t \in Stages : next \notin Range(queue[t]) /\ work[t] # next
  BY <1>1, <1>3, Flying DEF IInv
<1> HIDE DEF s
<1>5. \A t \in Stages : Range(queue'[t]) = IF t = s THEN Range(queue[t]) \cup {next} ELSE Range(queue[t])
  <2>1. next \in {NoFile} \cup Files /\ queue[s] \in Seq({NoFile} \cup Files)
    BY <1>1
  <2>2. Range(queue'[s]) = Range(queue[s]) \cup {next}
    BY <1>1, <2>1, Appended
  <2> QED
    BY <1>1, <2>2
<1>6. InFlight' = InFlight \cup {next}
  BY <1>1, <1>2, <1>5, Flying, FlyingNext DEF IInv
<1>7. OnePlace'
  <2>1. \A t \in Stages : Distinct(queue'[t])
    BY <1>1, <1>4, AppendedDistinct, ZenonT(60) DEF IInv, OnePlace
  <2>2. \A t, u \in Stages, f \in Files : t # u /\ f \in Range(queue'[t]) => f \notin Range(queue'[u])
    <3>1. SUFFICES ASSUME NEW t \in Stages, NEW u \in Stages, NEW f \in Files, t # u, f \in Range(queue'[t])
                   PROVE  f \notin Range(queue'[u])
      OBVIOUS
    <3>2. CASE f = next
      BY <1>4, <1>5, <3>1, <3>2
    <3>3. CASE f # next
      <4>1. f \in Range(queue[t])
        BY <1>5, <3>1, <3>3
      <4>2. f \notin Range(queue[u])
        BY <3>1, <4>1 DEF IInv, OnePlace
      <4> QED
        BY <1>5, <3>3, <4>2
    <3> QED
      BY <3>2, <3>3
  <2>3. \A t, u \in Stages, f \in Files : f = work'[t] => f \notin Range(queue'[u])
    BY <1>2, <1>4, <1>5 DEF IInv, OnePlace
  <2> QED
    BY <1>2, <2>1, <2>2, <2>3 DEF IInv, OnePlace
<1>8. Working' /\ PinsHeld'
  BY <1>2, <1>6 DEF IInv, Working, PinsHeld, PutJob, Continue
<1>9. Started'
  <2>1. \A f \in InFlight \cup kept : f < next /\ f \in Nat
    <3>1. InFlight \cup kept \subseteq Files
      BY FlyingFiles DEF IInv, TypeOK
    <3> QED
      BY <3>1 DEF IInv, Started, Files
  <2> QED
    BY <1>1, <1>2, <1>6, <2>1 DEF Started, Files
<1>10. Serial'
  BY <1>1, <1>2, <1>6 DEF IInv, Serial, PutJob, Continue, Files
<1>11. Backlog'
  <2>1. \A t \in Stages : Len(queue[t]) \in Nat
    BY <1>1, LenProperties
  <2>2. Len(queue'["compress"]) <= Slots
    <3>1. "compress" \in Stages
      BY DEF Stages
    <3>2. CASE s = "compress"
      BY <1>1, <2>1, <3>1, <3>2, Appended DEF PutJob, Room, s
    <3> QED
      BY <1>1, <3>1, <3>2 DEF IInv, Backlog
  <2>3. \A f \in kept' : f \notin Range(queue'["download"]) \cup Range(queue'["push"]) /\ f # work'["push"]
    BY <1>2, <1>3, <1>5 DEF IInv, Backlog, Stages
  <2> QED
    BY <1>2, <2>2, <2>3 DEF IInv, Backlog
<1> QED
  BY <1>6, <1>7, <1>8, <1>9, <1>10, <1>11 DEF IInv

LEMMA CloseQueueHolds == ASSUME IInv, TypeOK', CloseQueue PROVE IInv' /\ InFlight' = InFlight
<1>1. CASE UNCHANGED queue
  BY <1>1, StillSteps, Unmoved DEF CloseQueue, storage, history
<1>2. CASE Room(Closing) /\ queue' = [queue EXCEPT ![Closing] = Append(queue[Closing], NoFile)]
  <2> DEFINE s == Closing
  <2>1. /\ s \in Stages
        /\ queue'[s] = Append(queue[s], NoFile) /\ \A t \in Stages : t # s => queue'[t] = queue[t]
        /\ \A t \in Stages : queue[t] \in Seq({NoFile} \cup Files)
    BY <1>2 DEF Closing, Order, Stages, IInv, TypeOK
  <2>2. UNCHANGED <<next, limited, at, work, event, kept, pinned>> /\ coord' = "join"
    BY DEF CloseQueue, storage, history
  <2>3. Room(s)
    BY <1>2
  <2> HIDE DEF s
  <2>4. \A t \in Stages, f \in Files : f \in Range(queue'[t]) <=> f \in Range(queue[t])
    <3>1. NoFile \in {NoFile} \cup Files /\ queue[s] \in Seq({NoFile} \cup Files) /\ NoFile \notin Files
      BY <2>1 DEF Files, NoFile
    <3>2. Range(queue'[s]) = Range(queue[s]) \cup {NoFile}
      BY <2>1, <3>1, Appended
    <3>3. \A f \in Files : f \in Range(queue'[s]) <=> f \in Range(queue[s])
      BY <3>1, <3>2
    <3>4. \A t \in Stages : t # s => Range(queue'[t]) = Range(queue[t])
      BY <2>1
    <3> QED
      BY <3>3, <3>4
  <2>5. InFlight' = InFlight
    <3>1. InFlight \subseteq Files
      BY FlyingFiles DEF IInv
    <3>2. InFlight' \subseteq Files
      <4>1. \A f \in InFlight' : f # NoFile /\ \E t \in Stages : f \in Range(queue'[t]) \/ f = work'[t]
        BY FlyingNext
      <4>2. \A t \in Stages : \A f \in Range(queue'[t]) : f \in {NoFile} \cup Files
        BY RangeMember, ElementOfSeq DEF TypeOK
      <4>3. \A t \in Stages : work'[t] \in {NoFile} \cup Files
        BY DEF TypeOK
      <4> QED
        BY <4>1, <4>2, <4>3
    <3>3. \A f \in Files : f \in InFlight' <=> f \in InFlight
      BY <2>2, <2>4, Flying, FlyingNext DEF IInv
    <3> QED
      BY <3>1, <3>2, <3>3
  <2>6. OnePlace'
    <3>1. \A t \in Stages : Distinct(queue'[t])
      <4>1. NoFile \in {NoFile} \cup Files /\ Distinct(queue[s])
        BY <2>1 DEF IInv, OnePlace
      <4>2. Distinct(queue'[s])
        BY <2>1, <4>1, AppendedDistinct
      <4> QED
        BY <2>1, <4>2 DEF IInv, OnePlace
    <3> QED
      BY <2>2, <2>4, <3>1 DEF IInv, OnePlace
  <2>7. Working' /\ PinsHeld' /\ Started' /\ Serial'
    BY <2>2, <2>5 DEF IInv, Working, PinsHeld, Started, Serial
  <2>8. Backlog'
    <3>1. "compress" \in Stages /\ "download" \in Stages /\ "push" \in Stages /\ kept \subseteq Files
      BY DEF Stages, IInv, TypeOK
    <3>2. Len(queue'["compress"]) <= Slots
      <4>1. CASE s = "compress"
        <5>1. Len(queue[s]) \in Nat /\ Len(queue[s]) < Slots
          BY <2>1, <2>3, <4>1, LenProperties DEF Room
        <5>2. NoFile \in {NoFile} \cup Files
          OBVIOUS
        <5>3. Len(queue'[s]) = Len(queue[s]) + 1
          BY <2>1, <5>2, Appended
        <5> QED
          BY <4>1, <5>1, <5>3
      <4> QED
        BY <2>1, <3>1, <4>1 DEF IInv, Backlog
    <3> QED
      BY <2>2, <2>4, <3>1, <3>2 DEF IInv, Backlog
  <2> QED
    BY <2>5, <2>6, <2>7, <2>8 DEF IInv
<1> QED
  BY <1>1, <1>2 DEF CloseQueue

LEMMA GetHolds == ASSUME IInv, TypeOK', NEW s \in Stages, Get(s) PROVE IInv' /\ InFlight' = InFlight
<1> DEFINE job == Head(queue[s])
<1>1. /\ queue[s] # <<>> /\ queue'[s] = Tail(queue[s]) /\ work'[s] = job
      /\ at'[s] = IF job = NoFile THEN "ended" ELSE "start"
      /\ \A t \in Stages : t # s => queue'[t] = queue[t] /\ work'[t] = work[t] /\ at'[t] = at[t]
      /\ \A t \in Stages : queue[t] \in Seq({NoFile} \cup Files)
  BY DEF Get, Rest, Taken, IInv, TypeOK
<1>2. UNCHANGED <<next, limited, coord, event, kept, pinned>> /\ work[s] = NoFile
  BY DEF Get, control, storage, history, IInv, Working
<1>3. /\ job \in {NoFile} \cup Files /\ Len(queue'[s]) = Len(queue[s]) - 1
      /\ job \in Range(queue[s]) /\ Range(queue'[s]) \subseteq Range(queue[s])
      /\ Distinct(queue'[s]) /\ (job # NoFile => job \notin Range(queue'[s]))
  BY <1>1, TailTaken DEF IInv, OnePlace
<1>4. \A f \in Range(queue[s]) : f = job \/ f \in Range(queue'[s])
  <2>1. /\ \A i \in 1..Len(queue'[s]) : queue'[s][i] = queue[s][i + 1]
        /\ Len(queue[s]) \in Nat /\ queue'[s] \in Seq({NoFile} \cup Files) /\ job = queue[s][1]
    BY <1>1, HeadTailProperties, LenProperties
  <2>2. ASSUME NEW i \in 1..Len(queue[s]), i # 1
        PROVE  queue[s][i] \in Range(queue'[s])
    <3>1. i - 1 \in 1..Len(queue'[s]) /\ (i - 1) + 1 = i
      BY <1>3, <2>1, <2>2
    <3>2. queue'[s][i - 1] = queue[s][i]
      BY <2>1, <3>1
    <3> QED
      BY <2>1, <3>1, <3>2, RangeMember
  <2> QED
    BY <1>1, <2>1, <2>2, RangeMember
<1> HIDE DEF job
<1>5. InFlight' = InFlight
  <2>1. ASSUME NEW f, f # NoFile
        PROVE  (\E t \in Stages : f \in Range(queue'[t]) \/ f = work'[t])
                 <=> \E t \in Stages : f \in Range(queue[t]) \/ f = work[t]
    <3>1. f \in Range(queue'[s]) \/ f = work'[s] <=> f \in Range(queue[s]) \/ f = work[s]
      BY <1>1, <1>2, <1>3, <1>4, <2>1
    <3>2. \A t \in Stages : t # s => Range(queue'[t]) = Range(queue[t]) /\ work'[t] = work[t]
      BY <1>1
    <3> QED
      BY <3>1, <3>2
  <2> QED
    BY <2>1, Flying, FlyingNext DEF IInv
<1>6. \A t \in Stages : t # s /\ job # NoFile => job \notin Range(queue[t]) /\ job # work[t]
  BY <1>3 DEF IInv, OnePlace
<1>7. OnePlace'
  <2>1. NoFile \notin Files /\ \A t \in Stages : Range(queue'[t]) \subseteq Range(queue[t])
    BY <1>1, <1>3 DEF Files, NoFile
  <2>2. \A t \in Stages : Distinct(queue'[t])
    BY <1>1, <1>3 DEF IInv, OnePlace
  <2>3. \A t, u \in Stages, f \in Files : t # u /\ f \in Range(queue'[t]) => f \notin Range(queue'[u])
    BY <2>1 DEF IInv, OnePlace
  <2>4. \A t, u \in Stages, f \in Files : f = work'[t] => f \notin Range(queue'[u])
    <3>1. \A u \in Stages : job # NoFile => job \notin Range(queue'[u])
      BY <1>1, <1>3, <1>6
    <3>2. \A t, u \in Stages, f \in Files : t # s /\ f = work'[t] => f \notin Range(queue'[u])
      BY <1>1, <2>1 DEF IInv, OnePlace
    <3> QED
      BY <1>1, <2>1, <3>1, <3>2
  <2>5. \A t, u \in Stages : t # u /\ work'[t] # NoFile => work'[t] # work'[u]
    BY <1>1, <1>6 DEF IInv, OnePlace
  <2> QED
    BY <2>2, <2>3, <2>4, <2>5 DEF OnePlace
<1>8. Working'
  BY <1>1, <1>2 DEF IInv, Working, Stages
<1>9. PinsHeld' /\ Started' /\ Serial'
  BY <1>2, <1>5 DEF IInv, PinsHeld, Started, Serial
<1>10. Backlog'
  <2>1. "compress" \in Stages /\ "download" \in Stages /\ "push" \in Stages
    BY DEF Stages
  <2>2. Len(queue'["compress"]) <= Slots
    <3>1. Len(queue[s]) \in Nat
      BY <1>1, LenProperties
    <3>2. Len(queue["compress"]) <= Slots /\ Slots \in Nat
      BY DEF IInv, Backlog
    <3>3. CASE s = "compress"
      BY <1>3, <3>1, <3>2, <3>3
    <3>4. CASE s # "compress"
      BY <1>1, <2>1, <3>2, <3>4
    <3> QED
      BY <3>3, <3>4
  <2>3. \A f \in kept' : f \notin Range(queue'["download"]) \cup Range(queue'["push"]) /\ f # work'["push"]
    <3>1. \A t \in Stages : Range(queue'[t]) \subseteq Range(queue[t])
      BY <1>1, <1>3
    <3>2. s = "push" => job \notin kept
      BY <1>3, <2>1 DEF IInv, Backlog
    <3> QED
      BY <1>1, <1>2, <2>1, <3>1, <3>2 DEF IInv, Backlog
  <2>4. at'["compress"] = "put" => work'["compress"] \notin kept'
    BY <1>1, <1>2, <2>1 DEF IInv, Backlog
  <2> QED
    BY <2>2, <2>3, <2>4 DEF Backlog
<1> QED
  BY <1>5, <1>7, <1>8, <1>9, <1>10 DEF IInv

\* A worker goes on with the file it holds, or ends without one.
LEMMA GoesOn ==
  ASSUME IInv, TypeOK', NEW s \in Stages, UNCHANGED <<queue, work, next, limited, coord, event, pinned>>,
         NEW a, at' = [at EXCEPT ![s] = a],
         work[s] = NoFile <=> a \notin {"start", "run", "put"}, a = "put" => s # "push",
         kept' \subseteq kept \cup InFlight
  PROVE  Working' /\ OnePlace' /\ PinsHeld' /\ Started' /\ Serial'
<1>1. InFlight' = InFlight /\ OnePlace'
  BY Unmoved
<1>2. at'[s] = a /\ \A t \in Stages : t # s => at'[t] = at[t]
  BY DEF IInv, TypeOK
<1>3. Working'
  BY <1>2 DEF IInv, Working, Stages
<1>4. PinsHeld' /\ Started' /\ Serial'
  BY <1>1 DEF IInv, PinsHeld, Started, Serial
<1> QED
  BY <1>1, <1>3, <1>4

LEMMA QuitHolds == ASSUME IInv, TypeOK', NEW s \in Stages, Quit(s) PROVE IInv'
<1>1. work[s] = NoFile
  BY DEF Quit, IInv, Working
<1>2. Working' /\ OnePlace' /\ PinsHeld' /\ Started' /\ Serial'
  BY <1>1, GoesOn DEF Quit, control, storage, history
<1>3. Backlog'
  BY DEF Quit, IInv, TypeOK, Backlog, history
<1> QED
  BY <1>2, <1>3 DEF IInv

LEMMA ReserveHolds == ASSUME IInv, TypeOK', NEW s \in Stages, Reserve(s) PROVE IInv'
<1>1. work[s] # NoFile
  BY HoldsFile DEF Reserve
<1>2. Working' /\ OnePlace' /\ PinsHeld' /\ Started' /\ Serial'
  BY <1>1, GoesOn DEF Reserve, control, history
<1>3. Backlog'
  BY DEF Reserve, IInv, TypeOK, Backlog, history
<1> QED
  BY <1>2, <1>3 DEF IInv

\* TurnAway, Fail and Pushed.
LEMMA FinishHolds ==
  ASSUME IInv, TypeOK', NEW s \in Stages, at[s] \in {"start", "run", "put"}, FinishJob(s),
         UNCHANGED <<control, queue, stop, dropped, kept>>
  PROVE  IInv' /\ InFlight' = InFlight \ {work[s]}
<1>1. work[s] # NoFile
  BY HoldsFile
<1>2. Working' /\ OnePlace' /\ PinsHeld' /\ Started' /\ Serial' /\ InFlight' = InFlight \ {work[s]}
  BY <1>1, Dropped DEF FinishJob, control
<1>3. Backlog'
  BY <1>1, DroppedBacklog DEF FinishJob
<1> QED
  BY <1>2, <1>3 DEF IInv

LEMMA GiveUpHolds == ASSUME IInv, TypeOK', NEW s \in Stages, GiveUp(s) PROVE IInv'
<1>1. work[s] # NoFile
  BY HoldsFile DEF GiveUp
<1>2. Working' /\ OnePlace' /\ PinsHeld' /\ Started' /\ Serial'
  BY <1>1, Dropped DEF GiveUp, control, storage
<1>3. Backlog'
  BY <1>1, DroppedBacklog DEF GiveUp
<1> QED
  BY <1>2, <1>3 DEF IInv

LEMMA SucceedHolds == ASSUME IInv, TypeOK', NEW s \in Stages, Succeed(s) PROVE IInv'
<1>1. /\ work[s] # NoFile /\ work[s] \in InFlight /\ s \in {"download", "compress"}
      /\ UNCHANGED <<queue, next, limited, coord, event, pinned>>
      /\ kept' = IF s = "download" THEN kept \cup {work[s]} ELSE kept \ {work[s]}
  BY HoldsFile, Flying DEF Succeed, HandOn, control, storage, Stages, IInv
<1>2. CASE Release(s)
  <2>1. Working' /\ OnePlace' /\ PinsHeld' /\ Started' /\ Serial'
    BY <1>1, <1>2, Dropped
  <2>2. Backlog'
    BY <1>1, <1>2, DroppedBacklog
  <2> QED
    BY <2>1, <2>2 DEF IInv
<1>3. CASE at' = [at EXCEPT ![s] = "put"] /\ UNCHANGED work
  <2>1. Working' /\ OnePlace' /\ PinsHeld' /\ Started' /\ Serial'
    BY <1>1, <1>3, GoesOn
  <2>2. "compress" \in Stages /\ "download" \in Stages /\ "push" \in Stages /\ work[s] \in Files
    BY <1>1, FlyingFiles DEF Stages, IInv
  <2>3. \A f \in kept' : f \notin Range(queue'["download"]) \cup Range(queue'["push"]) /\ f # work'["push"]
    <3>1. work[s] \notin Range(queue["download"]) \cup Range(queue["push"]) /\ work[s] # work["push"]
      BY <1>1, <2>2 DEF IInv, OnePlace
    <3> QED
      BY <1>1, <1>3, <3>1 DEF IInv, Backlog
  <2>4. at'["compress"] = "put" => work'["compress"] \notin kept'
    <3>1. CASE s = "compress"
      BY <1>1, <1>3, <3>1
    <3>2. CASE s = "download"
      <4>1. at'["compress"] = at["compress"]
        BY <1>3, <2>2, <3>2 DEF IInv, TypeOK
      <4>2. work["compress"] # work[s]
        BY <1>1, <2>2, <3>2 DEF IInv, OnePlace
      <4> QED
        BY <1>1, <1>3, <3>2, <4>1, <4>2 DEF IInv, Backlog
    <3> QED
      BY <1>1, <3>1, <3>2
  <2> QED
    BY <1>1, <2>1, <2>3, <2>4 DEF IInv, Backlog
<1> QED
  BY <1>2, <1>3 DEF Succeed

LEMMA PutHolds == ASSUME IInv, TypeOK', NEW s \in Stages, Put(s) PROVE IInv' /\ InFlight' = InFlight
<1> DEFINE d == Downstream[s]
           job == work[s]
<1>1. /\ job \in Files /\ job # NoFile /\ job \in InFlight
      /\ s \in {"download", "compress"} /\ d \in Stages /\ d # s
      /\ s = "download" => d = "compress"
      /\ s = "compress" => d = "push" /\ job \notin kept
  <2>1. s # "push"
    BY DEF Put, IInv, Working
  <2> QED
    BY <2>1, HoldsFile, Flying DEF Put, Downstream, Stages, IInv, Backlog
<1>2. /\ queue'[d] = Append(queue[d], job) /\ \A t \in Stages : t # d => queue'[t] = queue[t]
      /\ \A t \in Stages : queue[t] \in Seq({NoFile} \cup Files)
      /\ work'[s] = NoFile /\ at'[s] \in {"get", "ended"}
      /\ \A t \in Stages : t # s => work'[t] = work[t] /\ at'[t] = at[t]
  BY <1>1 DEF Put, Release, IInv, TypeOK
<1>3. UNCHANGED <<next, limited, coord, event, kept, pinned>> /\ Room(d)
  BY DEF Put, control, storage, history
<1>4. \A t \in Stages : job \notin Range(queue[t]) /\ (t # s => work[t] # job)
  BY <1>1 DEF IInv, OnePlace
<1> HIDE DEF d, job
<1>5. /\ Len(queue'[d]) = Len(queue[d]) + 1 /\ Range(queue'[d]) = Range(queue[d]) \cup {job}
      /\ Distinct(queue'[d])
  <2>1. job \in {NoFile} \cup Files /\ queue[d] \in Seq({NoFile} \cup Files) /\ Distinct(queue[d])
    BY <1>1, <1>2 DEF IInv, OnePlace
  <2> QED
    BY <1>1, <1>2, <1>4, <2>1, Appended, AppendedDistinct
<1>6. InFlight' = InFlight
  <2>1. ASSUME NEW f \in InFlight
        PROVE  f \in InFlight'
    <3>1. f # NoFile /\ \E t \in Stages : f \in Range(queue[t]) \/ f = work[t]
      BY <2>1, Flying DEF IInv
    <3>2. f # job => \E t \in Stages : f \in Range(queue'[t]) \/ f = work'[t]
      BY <1>2, <1>5, <3>1 DEF job
    <3>3. job \in Range(queue'[d])
      BY <1>5
    <3> QED
      BY <1>1, <3>1, <3>2, <3>3, FlyingNext
  <2>2. ASSUME NEW f \in InFlight', f # job
        PROVE  f \in InFlight
    <3>1. f # NoFile /\ \E t \in Stages : f \in Range(queue'[t]) \/ f = work'[t]
      BY <2>2, FlyingNext
    <3>2. \E t \in Stages : f \in Range(queue[t]) \/ f = work[t]
      BY <1>2, <1>5, <2>2, <3>1
    <3> QED
      BY <3>1, <3>2, Flying DEF IInv
  <2> QED
    BY <1>1, <2>1, <2>2
<1>7. OnePlace'
  <2>1. \A t \in Stages : Distinct(queue'[t])
    BY <1>2, <1>5 DEF IInv, OnePlace
  <2>2. \A t \in Stages, f \in Files : f \in Range(queue'[t]) =>
           f \in Range(queue[t]) \/ (f = job /\ t = d)
    BY <1>2, <1>5
  <2>3. \A t, u \in Stages, f \in Files : t # u /\ f \in Range(queue'[t]) => f \notin Range(queue'[u])
    BY <1>4, <2>2 DEF IInv, OnePlace
  <2>4. \A t, u \in Stages, f \in Files : f = work'[t] => f \notin Range(queue'[u])
    <3>1. \A t \in Stages, f \in Files : f = work'[t] => f = work[t] /\ t # s
      BY <1>2 DEF Files, NoFile
    <3> QED
      BY <1>4, <2>2, <3>1 DEF IInv, OnePlace
  <2>5. \A t, u \in Stages : t # u /\ work'[t] # NoFile => work'[t] # work'[u]
    BY <1>2 DEF IInv, OnePlace
  <2> QED
    BY <2>1, <2>3, <2>4, <2>5 DEF OnePlace
<1>8. Working'
  BY <1>2, <1>3 DEF IInv, Working, Stages
<1>9. PinsHeld' /\ Started' /\ Serial'
  BY <1>3, <1>6 DEF IInv, PinsHeld, Started, Serial
<1>10. Backlog'
  <2>1. "compress" \in Stages /\ "download" \in Stages /\ "push" \in Stages
    BY DEF Stages
  <2>2. Len(queue'["compress"]) <= Slots
    <3>1. CASE d = "compress"
      <4>1. Len(queue[d]) \in Nat /\ Len(queue[d]) < Slots
        BY <1>1, <1>2, <1>3, <3>1, LenProperties DEF Room
      <4> QED
        BY <1>5, <3>1, <4>1
    <3> QED
      BY <1>2, <2>1, <3>1 DEF IInv, Backlog
  <2>3. \A f \in kept' : f \notin Range(queue'["download"]) \cup Range(queue'["push"]) /\ f # work'["push"]
    <3>1. CASE s = "download"
      BY <1>1, <1>2, <1>3, <2>1, <3>1 DEF IInv, Backlog
    <3>2. CASE s = "compress"
      <4>1. d = "push" /\ job \notin kept
        BY <1>1, <3>2
      <4>2. Range(queue'["push"]) = Range(queue["push"]) \cup {job} /\ queue'["download"] = queue["download"]
        BY <1>2, <1>5, <2>1, <4>1
      <4>3. work'["push"] = work["push"]
        BY <1>2, <2>1, <3>2
      <4> QED
        BY <1>3, <4>1, <4>2, <4>3 DEF IInv, Backlog
    <3> QED
      BY <1>1, <3>1, <3>2
  <2>4. at'["compress"] = "put" => work'["compress"] \notin kept'
    BY <1>2, <1>3, <2>1 DEF IInv, Backlog
  <2> QED
    BY <2>2, <2>3, <2>4 DEF Backlog
<1> QED
  BY <1>6, <1>7, <1>8, <1>9, <1>10 DEF IInv

LEMMA NextHolds == IInv /\ [Next]_vars => IInv'
<1> SUFFICES ASSUME IInv, [Next]_vars PROVE IInv'
  OBVIOUS
<1>1. TypeOK'
  BY TypeNext
<1>2. CASE Shutdown
  BY <1>1, <1>2, StillSteps DEF Shutdown, control, workers, storage, history
<1>3. CASE Coordinator
  <2>1. NoMoreJobs \/ GiveUpJob \/ AwaitJob \/ Join => IInv'
    <3>1. ASSUME AwaitJob, ~stop PROVE coord = "wait" /\ coord' = "next" /\ event
      BY <3>1 DEF AwaitJob
    <3> QED
      BY <1>1, <3>1, StillSteps DEF NoMoreJobs, GiveUpJob, AwaitJob, Join, workers, storage, history
  <2> QED
    BY <1>1, <1>3, <2>1, NextJobHolds, PutJobHolds, CloseQueueHolds DEF Coordinator
<1>4. ASSUME NEW s \in Stages, Worker(s) PROVE IInv'
  <2>1. TurnAway(s) \/ Fail(s) \/ (s = "push" /\ Pushed) => IInv'
    BY <1>1, FinishHolds DEF TurnAway, Fail, Failed, Pushed
  <2> QED
    BY <1>1, <1>4, <2>1, GetHolds, QuitHolds, ReserveHolds, SucceedHolds, PutHolds, GiveUpHolds DEF Worker
<1>5. CASE UNCHANGED vars
  BY <1>1, <1>5, StillSteps DEF vars
<1> QED
  BY <1>2, <1>3, <1>4, <1>5 DEF Next, Ended

(***************************************************************************)
(* What the invariant says.                                                *)
(***************************************************************************)
LEMMA AtMostOne == IInv => SerialUnderLimit
<1> SUFFICES ASSUME IInv, limited PROVE Cardinality(InFlight) <= 1
  BY DEF SerialUnderLimit
<1>1. InFlight \subseteq {next - 1}
  BY DEF IInv, Serial
<1>2. IsFiniteSet({next - 1}) /\ Cardinality({next - 1}) = 1
  BY FS_Singleton
<1> QED
  BY <1>1, <1>2, FS_Subset

LEMMA BacklogCounted == IInv => BacklogBounded
<1> SUFFICES ASSUME IInv PROVE BacklogBounded
  OBVIOUS
<1> DEFINE raws == kept \cap (InFlight \ {work["download"]})
           held == Range(queue["compress"])
<1>1. raws \subseteq held \cup {work["compress"]}
  BY Flying DEF IInv, Backlog, Stages
<1>2. queue["compress"] \in Seq({NoFile} \cup Files) /\ Len(queue["compress"]) \in Nat
  BY LenProperties DEF IInv, TypeOK, Stages
<1>3. IsFiniteSet(held) /\ Cardinality(held) <= Len(queue["compress"])
  BY <1>2, FilesBounded
<1>4. Len(queue["compress"]) <= Slots
  BY DEF IInv, Backlog
<1> HIDE DEF held
<1>5. /\ IsFiniteSet(held \cup {work["compress"]}) /\ Cardinality(held) \in Nat
      /\ Cardinality(held \cup {work["compress"]}) <= Cardinality(held) + 1
  <2>1. Cardinality(held) \in Nat
    BY <1>3, FS_CardinalityType
  <2> DEFINE x == work["compress"]
  <2> HIDE DEF x
  <2>2. /\ IsFiniteSet(held \cup {x})
        /\ Cardinality(held \cup {x}) = IF x \in held THEN Cardinality(held) ELSE Cardinality(held) + 1
    BY <1>3, FS_AddElement
  <2> QED
    BY <1>3, <2>1, <2>2 DEF x
<1> HIDE DEF raws
<1>6. /\ Cardinality(raws) <= Cardinality(held \cup {work["compress"]})
      /\ Cardinality(raws) \in Nat /\ Cardinality(held \cup {work["compress"]}) \in Nat
  BY <1>1, <1>5, FS_Subset, FS_CardinalityType
<1>7. Cardinality(raws) <= Slots + 1
  BY <1>2, <1>3, <1>4, <1>5, <1>6
<1> QED
  BY <1>7 DEF BacklogBounded, raws

\* In every interleaving of the coordinator and the workers, a shutdown included,
\* with any number of files and any size of the queue in front of the compressor
\* (mosaic_push.py, cycle()): what is queued or worked on is pinned, a storage
\* limit lets one file at a time in, and the queue bounds the raw backlog.
THEOREM AdmissionHolds == Spec => []AdmissionSafe
<1>1. Init => IInv
  BY InitHolds
<1>2. IInv /\ [Next]_vars => IInv'
  BY NextHolds
<1>3. IInv => AdmissionSafe
  BY AtMostOne, BacklogCounted DEF AdmissionSafe, InFlightPinned, IInv, PinsHeld
<1> QED
  BY <1>1, <1>2, <1>3, PTL DEF Spec

(***************************************************************************)
(* A scan that is not shut down is done with every file in the end.        *)
(***************************************************************************)
\* Each file the coordinator came to is in flight or done, and nothing but what is
\* in flight has a pin or a reservation.
Accounted ==
    ~stop =>
        /\ \A f \in Files : f < next => f \in InFlight \cup done
        /\ pinned \subseteq InFlight \cup (IF coord = "put" THEN {next} ELSE {})
        /\ reserved \subseteq InFlight
        /\ coord \in {"close", "join", "end"} => next = MaxFiles + 1

Rank == [download |-> 1, compress |-> 2, push |-> 3]

\* The workers end upstream first: the None is the last thing in a queue, and behind
\* it nothing comes any more.
Orderly ==
    ~stop =>
        /\ coord \notin {"close", "join", "end"} => closing = 1
        /\ \A s \in Stages : Rank[s] < closing \/ coord = "end" => at[s] = "ended"
        /\ \A s \in Stages : at[s] = "ended" =>
              queue[s] = <<>> /\ (Rank[s] < closing \/ (coord \in {"join", "end"} /\ Rank[s] = closing))
        /\ \A s \in Stages : \A i \in 1..Len(queue[s]) : queue[s][i] = NoFile =>
              i = Len(queue[s]) /\ coord = "join" /\ Rank[s] = closing

LEMMA AccountedInit == Init => Accounted
BY DEF Init, Accounted, Files

LEMMA AccountedNext == ASSUME IInv, Accounted, [Next]_vars PROVE Accounted'
<1> SUFFICES ASSUME ~stop' PROVE Accounted'
  BY DEF Accounted
<1>t. IInv' /\ TypeOK /\ TypeOK' /\ next \in 1..(MaxFiles + 1)
  BY NextHolds DEF IInv, TypeOK
<1>1. CASE NextJob
  <2>1. InFlight' = InFlight
    BY <1>t, <1>1, Unmoved DEF NextJob, workers
  <2> QED
    BY <1>1, <2>1 DEF NextJob, Accounted, history
<1>2. CASE NoMoreJobs
  <2>1. InFlight' = InFlight
    BY <1>t, <1>2, Unmoved DEF NoMoreJobs, workers
  <2> QED
    BY <1>t, <1>2, <2>1 DEF NoMoreJobs, Accounted, storage, history
<1>3. CASE PutJob
  <2>1. InFlight' = InFlight \cup {next}
    BY <1>t, <1>3, PutJobHolds
  <2>2. /\ coord = "put" /\ next' = next + 1 /\ coord' \in {"wait", "next"}
        /\ UNCHANGED <<pinned, reserved, done, stop>>
    BY <1>3 DEF PutJob, Continue, storage, history
  <2>3. \A f \in Files : f < next' => f < next \/ f = next
    BY <1>t, <2>2 DEF Files
  <2> QED
    BY <2>1, <2>2, <2>3 DEF Accounted
<1>4. CASE CloseQueue
  <2>1. InFlight' = InFlight
    BY <1>t, <1>4, CloseQueueHolds
  <2> QED
    BY <1>4, <2>1 DEF CloseQueue, Accounted, storage, history
<1>5. CASE AwaitJob \/ Join \/ GiveUpJob
  <2>1. InFlight' = InFlight
    BY <1>t, <1>5, Unmoved DEF AwaitJob, Join, GiveUpJob, workers
  <2> QED
    BY <1>5, <2>1 DEF AwaitJob, Join, GiveUpJob, Accounted, storage, history
<1>6. ASSUME NEW s \in Stages, Worker(s) PROVE Accounted'
  <2>1. CASE Get(s) \/ Put(s)
    <3>1. InFlight' = InFlight
      BY <1>t, <2>1, GetHolds, PutHolds
    <3> QED
      BY <2>1, <3>1 DEF Get, Put, Accounted, control, storage, history
  <2>2. CASE Reserve(s)
    <3>1. InFlight' = InFlight
      BY <1>t, <2>2, Unmoved DEF Reserve
    <3>2. work[s] \in InFlight
      BY <1>t, <2>2, HoldsFile, Flying DEF Reserve
    <3> QED
      BY <2>2, <3>1, <3>2 DEF Reserve, Accounted, control, history
  <2>3. CASE at[s] \in {"start", "run", "put"} /\ FinishJob(s) /\ UNCHANGED <<control, queue, stop, dropped, kept>>
    <3>1. InFlight' = InFlight \ {work[s]}
      BY <1>t, <2>3, FinishHolds
    <3>2. /\ pinned' = pinned \ {work[s]} /\ reserved' = reserved \ {work[s]} /\ done' = done \cup {work[s]}
          /\ UNCHANGED <<next, coord, stop>>
      BY <2>3 DEF FinishJob, control
    <3>3. coord = "put" => next # work[s]
      <4>1. work[s] \in InFlight
        BY <1>t, <2>3, HoldsFile, Flying
      <4> QED
        BY <1>t, <4>1 DEF IInv, Started
    <3> QED
      BY <3>1, <3>2, <3>3 DEF Accounted
  <2>4. CASE Succeed(s)
    <3>1. UNCHANGED <<queue, work>> /\ UNCHANGED <<next, coord, pinned, reserved, done, stop>>
      BY <2>4 DEF Succeed, HandOn, control, storage
    <3>2. InFlight' = InFlight
      BY <1>t, <3>1, Unmoved
    <3> QED
      BY <3>1, <3>2 DEF Accounted
  <2>5. ~Quit(s) /\ ~GiveUp(s)
    BY DEF Quit, GiveUp
  <2> QED
    BY <1>6, <2>1, <2>2, <2>3, <2>4, <2>5 DEF Worker, TurnAway, Fail, Failed, Pushed
<1>7. CASE UNCHANGED vars
  <2>1. InFlight' = InFlight
    BY <1>t, <1>7, Unmoved DEF vars
  <2> QED
    BY <1>7, <2>1 DEF vars, Accounted
<1> QED
  BY <1>1, <1>2, <1>3, <1>4, <1>5, <1>6, <1>7 DEF Next, Coordinator, Shutdown, Ended

LEMMA OrderlyInit == Init => Orderly
<1> SUFFICES ASSUME Init PROVE Orderly
  OBVIOUS
<1>1. \A s \in Stages : queue[s] = <<>> /\ Len(queue[s]) = 0 /\ at[s] = "get"
  BY EmptySeq DEF Init
<1>2. \A s \in Stages : Rank[s] \in 1..3
  BY DEF Rank, Stages
<1>3. coord = "next" /\ closing = 1
  BY DEF Init
<1> QED
  BY <1>1, <1>2, <1>3 DEF Orderly

\* What one more entry does to a queue no None is in.
LEMMA NoneLast ==
  ASSUME NEW S, NEW q \in Seq(S), NEW e \in S, \A i \in 1..Len(q) : q[i] # NoFile
  PROVE  \A i \in 1..Len(Append(q, e)) : Append(q, e)[i] = NoFile => e = NoFile /\ i = Len(Append(q, e))
<1>1. /\ Len(Append(q, e)) = Len(q) + 1 /\ Len(q) \in Nat
      /\ \A i \in 1..Len(q) : Append(q, e)[i] = q[i]
      /\ Append(q, e)[Len(q) + 1] = e
  BY AppendProperties, LenProperties
<1> QED
  BY <1>1

LEMMA OrderlyNext == ASSUME IInv, Orderly, [Next]_vars PROVE Orderly'
<1> SUFFICES ASSUME ~stop', ~stop PROVE Orderly'
  <2>1. stop => stop'
    BY DEF Next, Shutdown, Coordinator, NextJob, NoMoreJobs, PutJob, GiveUpJob, AwaitJob, CloseQueue, Join, Worker,
           Get, Quit, Reserve, TurnAway, Fail, Pushed, Succeed, Put, GiveUp, Ended, vars
  <2> QED
    BY <2>1 DEF Orderly
<1>r. /\ \A s \in Stages : Rank[s] \in 1..3 /\ queue[s] \in Seq({NoFile} \cup Files)
      /\ closing \in 1..3 /\ Closing \in Stages /\ \A s \in Stages : Rank[s] = closing <=> s = Closing
  BY DEF Rank, Stages, Closing, Order, IInv, TypeOK
<1>1. CASE NextJob \/ NoMoreJobs \/ AwaitJob \/ GiveUpJob
  BY <1>r, <1>1 DEF NextJob, NoMoreJobs, AwaitJob, GiveUpJob, Orderly, workers
<1>2. CASE PutJob
  <2> DEFINE d == plan[next]
  <2>1. /\ d \in Stages /\ next \in {NoFile} \cup Files /\ next # NoFile
        /\ queue'[d] = Append(queue[d], next) /\ \A t \in Stages : t # d => queue'[t] = queue[t]
    BY <1>2 DEF PutJob, IInv, Working, TypeOK, Files, NoFile
  <2>2. /\ UNCHANGED <<at, closing, stop>> /\ coord = "put" /\ coord' \notin {"close", "join", "end"}
    BY <1>2 DEF PutJob, Continue
  <2>3. closing = 1 /\ \A s \in Stages : at[s] # "ended" /\ \A i \in 1..Len(queue[s]) : queue[s][i] # NoFile
    BY <1>r, <2>2 DEF Orderly
  <2> HIDE DEF d
  <2>4. \A s \in Stages : \A i \in 1..Len(queue'[s]) : queue'[s][i] # NoFile
    <3>1. \A i \in 1..Len(queue'[d]) : queue'[d][i] # NoFile
      BY <1>r, <2>1, <2>3, NoneLast
    <3> QED
      BY <2>1, <2>3, <3>1
  <2> QED
    BY <1>r, <2>2, <2>3, <2>4 DEF Orderly
<1>3. CASE CloseQueue
  <2> DEFINE d == Closing
  <2>1. /\ NoFile \in {NoFile} \cup Files
        /\ queue'[d] = Append(queue[d], NoFile) /\ \A t \in Stages : t # d => queue'[t] = queue[t]
    BY <1>3, <1>r DEF CloseQueue, IInv, TypeOK
  <2>2. UNCHANGED <<at, closing, stop>> /\ coord = "close" /\ coord' = "join"
    BY <1>3 DEF CloseQueue
  <2>3. \A s \in Stages : \A i \in 1..Len(queue[s]) : queue[s][i] # NoFile
    BY <2>2 DEF Orderly
  <2>4. \A s \in Stages : at[s] = "ended" => queue'[s] = <<>> /\ Rank[s] < closing
    BY <1>r, <2>1, <2>2 DEF Orderly
  <2>5. d \in Stages /\ Rank[d] = closing
    BY <1>r
  <2> HIDE DEF d
  <2>6. \A s \in Stages : \A i \in 1..Len(queue'[s]) : queue'[s][i] = NoFile =>
              i = Len(queue'[s]) /\ Rank[s] = closing
    <3>1. \A i \in 1..Len(queue'[d]) : queue'[d][i] = NoFile => i = Len(queue'[d])
      BY <1>r, <2>1, <2>3, <2>5, NoneLast
    <3> QED
      BY <2>1, <2>3, <2>5, <3>1
  <2> QED
    BY <2>2, <2>4, <2>6 DEF Orderly
<1>4. CASE Join
  <2>1. /\ UNCHANGED <<at, queue, stop>> /\ coord = "join" /\ at[Closing] = "ended"
        /\ \/ closing < 3 /\ closing' = closing + 1 /\ coord' = "close"
           \/ closing = 3 /\ closing' = closing /\ coord' = "end"
    BY <1>4, <1>r DEF Join, workers
  <2>2. queue[Closing] = <<>> /\ Len(queue[Closing]) = 0
    BY <1>r, <2>1, EmptySeq DEF Orderly
  <2>3. \A s \in Stages : \A i \in 1..Len(queue[s]) : queue[s][i] # NoFile
    BY <1>r, <2>2 DEF Orderly
  <2>4. \A s \in Stages : at[s] = "ended" <=> Rank[s] < closing \/ s = Closing
    BY <1>r, <2>1 DEF Orderly
  <2>5. \A s \in Stages : at[s] = "ended" => queue[s] = <<>>
    BY DEF Orderly
  <2> QED
    BY <1>r, <2>1, <2>3, <2>4, <2>5 DEF Orderly
<1>5. ASSUME NEW s \in Stages, Worker(s) PROVE Orderly'
  <2>1. CASE Get(s)
    <3>1. /\ at[s] = "get" /\ queue[s] # <<>> /\ queue'[s] = Tail(queue[s])
          /\ at'[s] = IF Head(queue[s]) = NoFile THEN "ended" ELSE "start"
          /\ \A t \in Stages : t # s => queue'[t] = queue[t] /\ at'[t] = at[t]
          /\ UNCHANGED <<coord, closing, stop>>
      BY <2>1 DEF Get, Rest, Taken, IInv, TypeOK, control
    <3>2. /\ Len(queue[s]) \in Nat /\ Len(queue[s]) > 0 /\ Head(queue[s]) = queue[s][1]
          /\ Len(queue'[s]) = Len(queue[s]) - 1
          /\ \A i \in 1..Len(queue'[s]) : queue'[s][i] = queue[s][i + 1]
          /\ queue'[s] \in Seq({NoFile} \cup Files)
      BY <1>r, <3>1, HeadTailProperties, EmptySeq, LenProperties
    <3>3. CASE Head(queue[s]) = NoFile
      <4>1. Len(queue[s]) = 1 /\ coord = "join" /\ Rank[s] = closing
        <5>1. 1 \in 1..Len(queue[s]) /\ queue[s][1] = NoFile
          BY <3>2, <3>3
        <5> QED
          BY <5>1 DEF Orderly
      <4>2. Len(queue'[s]) = 0 /\ queue'[s] = <<>>
        BY <3>2, <4>1, EmptySeq
      <4> QED
        BY <3>1, <3>3, <4>1, <4>2 DEF Orderly
    <3>4. CASE Head(queue[s]) # NoFile
      <4>1. \A i \in 1..Len(queue'[s]) : queue'[s][i] = NoFile =>
              i = Len(queue'[s]) /\ coord = "join" /\ Rank[s] = closing
        <5>1. ASSUME NEW i \in 1..Len(queue'[s]), queue'[s][i] = NoFile
              PROVE  i = Len(queue'[s]) /\ coord = "join" /\ Rank[s] = closing
          <6>1. i + 1 \in 1..Len(queue[s]) /\ queue[s][i + 1] = NoFile
            BY <3>2, <5>1
          <6>2. i + 1 = Len(queue[s]) /\ coord = "join" /\ Rank[s] = closing
            BY <6>1 DEF Orderly
          <6> QED
            BY <3>2, <6>2
        <5> QED
          BY <5>1
      <4> QED
        BY <3>1, <3>4, <4>1, ZenonT(60) DEF Orderly
    <3> QED
      BY <3>3, <3>4
  <2>2. CASE at[s] \notin {"ended"} /\ at'[s] # "ended" /\ (\A t \in Stages : t # s => at'[t] = at[t])
             /\ UNCHANGED <<queue, coord, closing, stop>>
    BY <2>2 DEF Orderly
  <2>3. CASE Reserve(s) \/ TurnAway(s) \/ Fail(s) \/ (s = "push" /\ Pushed) \/ Succeed(s)
    <3>1. at[s] # "ended" /\ at'[s] # "ended" /\ (\A t \in Stages : t # s => at'[t] = at[t])
             /\ UNCHANGED <<queue, coord, closing, stop>>
      BY <2>3 DEF Reserve, TurnAway, Fail, Failed, Pushed, Succeed, FinishJob, Release, IInv, TypeOK, control
    <3> QED
      BY <2>2, <3>1
  <2>4. CASE Put(s)
    <3> DEFINE d == Downstream[s]
    <3>1. s # "push"
      BY <2>4 DEF Put, IInv, Working
    <3>2. d \in Stages /\ Rank[s] < Rank[d] /\ work[s] # NoFile /\ work[s] \in {NoFile} \cup Files
      BY <2>4, <3>1, HoldsFile DEF Put, Downstream, Stages, Rank
    <3>3. /\ queue'[d] = Append(queue[d], work[s]) /\ \A t \in Stages : t # d => queue'[t] = queue[t]
          /\ at[s] = "put" /\ at'[s] = "get" /\ \A t \in Stages : t # s => at'[t] = at[t]
          /\ UNCHANGED <<coord, closing, stop>>
      BY <2>4, <3>2 DEF Put, Release, IInv, TypeOK, control
    <3>4. Rank[s] >= closing /\ coord # "end"
      BY <1>r, <3>3 DEF Orderly
    <3> HIDE DEF d
    <3>5. at[d] # "ended" /\ \A i \in 1..Len(queue[d]) : queue[d][i] # NoFile
      BY <1>r, <3>2, <3>4 DEF Orderly
    <3>6. \A i \in 1..Len(queue'[d]) : queue'[d][i] # NoFile
      BY <1>r, <3>2, <3>3, <3>5, NoneLast
    <3> QED
      BY <3>2, <3>3, <3>4, <3>5, <3>6 DEF Orderly
  <2>5. ~Quit(s) /\ ~GiveUp(s)
    BY DEF Quit, GiveUp
  <2> QED
    BY <1>5, <2>1, <2>3, <2>4, <2>5 DEF Worker
<1>6. CASE UNCHANGED vars
  BY <1>6 DEF vars, Orderly
<1> QED
  BY <1>1, <1>2, <1>3, <1>4, <1>5, <1>6 DEF Next, Coordinator, Shutdown, Ended

\* A scan that is not shut down gives every planned file its turn, and leaves no pin
\* and no reservation behind (cycle() and finish_job()), whatever fails or is turned
\* away on the way.
THEOREM EverythingDone == Spec => []Drained
<1>1. Init => IInv /\ Accounted /\ Orderly
  BY InitHolds, AccountedInit, OrderlyInit
<1>2. IInv /\ Accounted /\ Orderly /\ [Next]_vars => IInv' /\ Accounted' /\ Orderly'
  BY NextHolds, AccountedNext, OrderlyNext
<1>3. IInv /\ Accounted /\ Orderly => Drained
  <2>1. SUFFICES ASSUME IInv, Accounted, Orderly, coord = "end", ~stop
                 PROVE  done = Files /\ pinned = {} /\ reserved = {} /\ InFlight = {}
    BY DEF Drained
  <2>2. \A s \in Stages : queue[s] = <<>> /\ work[s] = NoFile
    BY <2>1 DEF Orderly, IInv, Working
  <2>3. \A f : f \notin Range(<<>>)
    <3>1. <<>> \in Seq({}) /\ \A i : i \notin 1..Len(<<>>)
      BY EmptySeq
    <3> QED
      BY <3>1, RangeMember
  <2>4. InFlight = {}
    BY <2>1, <2>2, <2>3, Flying DEF IInv
  <2>5. Files \subseteq done
    BY <2>1, <2>4 DEF Accounted, Files
  <2> QED
    BY <2>1, <2>4, <2>5 DEF Accounted, IInv, TypeOK
<1> QED
  BY <1>1, <1>2, <1>3, PTL DEF Spec

----------------------------------------------------------------------------
(* Uploads.                                                                  *)

(***************************************************************************)
(* The inductive invariant.                                                *)
(***************************************************************************)
Sending == {"stor", "data", "check", "rename"}
Finishing == {"sum", "sumRename", "receipt"}

\* The archive is the recorded one until the user harms it.
LocalInv == local \in {None, rec.archive, Foreign}

\* A claim or a receipt is of the recorded archive or of one before it; nothing is
\* pending once that is delivered, and its publications have their sizes.
PendingInv ==
    /\ rec.pending.id \in 0..rec.archive
    /\ rec.receipt.archive \in 0..rec.archive
    /\ Delivered => rec.pending.id = None /\ final.len = Size[rec.archive] /\ sum = rec.archive
    /\ pc \in Sending \cup {"confirm"} => rec.pending.id = rec.archive
    /\ pc \in Sending => Replace

\* A partial under the recorded archive's claim is of that archive, unless it is in
\* doubt or about to be truncated; foreign bytes in it mean that the archive is
\* still harmed.
PartialInv ==
    /\ temp.len > 0 => temp.from # {}
    /\ rec.pending.id = rec.archive /\ "temp" \notin doubt /\ ~(pc = "stor" /\ offset = 0) =>
        /\ temp.from \subseteq {rec.archive, Foreign}
        /\ Foreign \in temp.from => local # rec.archive

\* What each step of an attempt has established.
StepInv ==
    /\ pc = "stor" /\ offset > 0 => temp # Absent
    /\ pc \in {"data", "check"} => temp # Absent
    /\ pc = "rename" => /\ temp.len = Size[rec.archive]
                        /\ "temp" \in doubt \/ Whole(temp, rec.archive)
    /\ pc = "confirm" => "final" \in doubt \/ Whole(final, rec.archive)
    /\ pc \in Finishing \cup {"confirm"} => final.len = Size[rec.archive]
    /\ pc = "sumRename" => sumTemp = rec.archive
    /\ pc = "receipt" => sum = rec.archive

\* PublishedWhole, with the revisions there have been.
FinalInv ==
    \/ "final" \in doubt
    \/ final = Absent
    \/ final.from = {Foreign} /\ final.len \in StrangerSizes
    \/ \E r \in 1..rec.archive : Whole(final, r)

\* While the archive was never harmed nothing is in doubt, and a partial is one of
\* the recorded archive, sent for a reason that still holds.
UnharmedInv == damages = 0 =>
    /\ local = rec.archive /\ doubt = {}
    /\ temp # Absent =>
        rec.pending.id = rec.archive /\ Replace /\ temp.from \subseteq {rec.archive}
    /\ pc \in Finishing \cup {"confirm"} => temp = Absent

\* A recorded publication is never taken back: no retry gets past Replace.
PlacedInv ==
    /\ placed \in 0..rec.archive
    /\ placed = rec.archive =>
        /\ final.len = Size[rec.archive] /\ pc \notin Sending \cup {"confirm"}
        /\ Delivered \/ (rec.pending.id = rec.archive /\ rec.pending.published)

UploadInv ==
    /\ UploadTypeOK /\ LocalInv /\ PendingInv /\ PartialInv /\ StepInv /\ FinalInv
    /\ UnharmedInv /\ PlacedInv

\* What passes for sent was sent, or is known by its size alone.
SentInv ==
    /\ rec.pending.id = rec.archive /\ rec.pending.published
       => "final" \in doubt \/ Whole(final, rec.archive)
    /\ pc \in Finishing
       => \/ Delivered \/ rec.receipt.archive = None
          \/ "final" \in doubt \/ Whole(final, rec.archive)

HIDE ConstantsAssumption
USE UploadAssumption

(***************************************************************************)
(* Types.                                                                  *)
(***************************************************************************)
LEMMA Sizes ==
  ASSUME NEW r \in 1..Foreign
  PROVE  Size[r] \in Nat /\ Size[r] > 0
OBVIOUS

\* The fields of the record, one by one.
LEMMA RecordFields ==
  ASSUME rec \in Records
  PROVE  /\ rec.archive \in Revs /\ rec.archive \in 1..Foreign
         /\ rec.receipt.archive \in 0..MaxRev /\ rec.receipt.day \in 0..MaxDays
         /\ rec.pending.id \in 0..MaxRev /\ rec.pending.published \in BOOLEAN
         /\ rec.pending.noRest \in BOOLEAN
BY DEF Records, Revs, Foreign

LEMMA ArchiveRev ==
  ASSUME UploadTypeOK
  PROVE  /\ rec.archive \in Revs /\ rec.archive \in 1..Foreign /\ rec.archive # Foreign
         /\ rec.archive # None /\ rec.archive \in 0..rec.archive
         /\ Size[rec.archive] \in Nat /\ Size[rec.archive] > 0
<1>1. rec \in Records
  BY DEF UploadTypeOK
<1>2. rec.archive \in Revs /\ rec.archive \in 1..Foreign
  BY <1>1, RecordFields
<1> QED
  BY <1>2, Sizes DEF Revs, None, Foreign

Receipts == [archive : 0..MaxRev, day : 0..MaxDays]
Pendings == [id : 0..MaxRev, published : BOOLEAN, noRest : BOOLEAN]

LEMMA RecordUpdates ==
  ASSUME rec \in Records
  PROVE  /\ rec.receipt \in Receipts /\ rec.pending \in Pendings
         /\ \A p \in Pendings : [rec EXCEPT !.pending = p] \in Records
         /\ \A p \in Pendings, c \in Receipts : [rec EXCEPT !.pending = p, !.receipt = c] \in Records
         /\ \A a \in Revs : [rec EXCEPT !.archive = a] \in Records
<1>1. Records = [archive : Revs, receipt : Receipts, pending : Pendings]
  BY DEF Records, Receipts, Pendings
<1> QED
  BY <1>1

LEMMA ContentFields ==
  ASSUME NEW f \in Contents
  PROVE  /\ f.len \in Int /\ f.len >= -1 /\ f.from \subseteq 1..Foreign
         /\ f # Absent => f.len \in Nat /\ f = [from |-> f.from, len |-> f.len]
         /\ f.len >= 0 => f # Absent
BY DEF Contents, Absent

LEMMA InitType == UploadInit => UploadTypeOK
<1> SUFFICES ASSUME UploadInit PROVE UploadTypeOK
  OBVIOUS
<1>1. rec \in Records
  BY DEF UploadInit, Records, NoReceipt, NoPending, None, Revs
<1>2. final \in Contents /\ temp \in Contents
  <2>1. Absent \in Contents
    BY DEF Contents
  <2>2. ASSUME NEW f \in [from : {{Foreign}}, len : StrangerSizes]
        PROVE  f \in Contents
    <3>1. f = [from |-> {Foreign}, len |-> f.len] /\ f.len \in StrangerSizes
      OBVIOUS
    <3>2. Foreign \in 1..Foreign /\ StrangerSizes \subseteq Nat
      BY DEF Foreign
    <3> QED
      BY <3>1, <3>2 DEF Contents
  <2> QED
    BY <2>1, <2>2 DEF UploadInit
<1> QED
  BY <1>1, <1>2 DEF UploadInit, UploadTypeOK, Foreign, None

LEMMA UploadTypeNext == UploadTypeOK /\ StepInv /\ [UploadNext]_uploadVars => UploadTypeOK'
<1> SUFFICES ASSUME UploadTypeOK, StepInv, [UploadNext]_uploadVars PROVE UploadTypeOK'
  OBVIOUS
<1> USE DEF UploadTypeOK
<1>r. /\ rec.archive \in Revs /\ rec.archive \in 1..Foreign
      /\ rec.receipt.archive \in 0..MaxRev /\ rec.receipt.day \in 0..MaxDays
      /\ rec.pending.id \in 0..MaxRev /\ rec.pending.published \in BOOLEAN
      /\ rec.pending.noRest \in BOOLEAN
  BY RecordFields
<1>1. CASE Environment
  <2>1. CASE Revise
    <3>1. rec.archive + 1 \in Revs /\ rec.archive + 1 \in 1..Foreign
      <4>1. rec.archive < MaxRev /\ rec.archive \in 1..MaxRev /\ MaxRev \in Nat
        BY <1>r, <2>1 DEF Revise, Revs
      <4>2. rec.archive + 1 \in 1..MaxRev
        BY <4>1
      <4> QED
        BY <4>1, <4>2 DEF Revs, Foreign
    <3>2. rec' \in Records
      BY <2>1, <3>1, RecordUpdates DEF Revise
    <3> QED
      BY <2>1, <3>1, <3>2 DEF Revise, attempt, target, uploadHistory
  <2>2. CASE NextDay
    BY <2>2 DEF NextDay, attempt, target, uploadHistory
  <2>3. CASE Tamper
    BY <2>3 DEF Tamper, attempt, target, uploadHistory, None, Foreign
  <2>4. CASE Crash
    BY <2>4 DEF Crash, Doubt, target
  <2>5. CASE Repair
    BY <1>r, <2>5 DEF Repair, attempt, target
  <2> QED
    BY <1>1, <2>1, <2>2, <2>3, <2>4, <2>5 DEF Environment
<1>2. ASSUME NEW lost \in BOOLEAN, Rename(lost) \/ SendSum(lost) \/ RenameSum(lost)
      PROVE  UploadTypeOK'
  <2>1. Absent \in Contents
    BY DEF Contents
  <2>2. CASE Rename(lost)
    BY <2>1, <2>2 DEF Rename, Abandon, attempt, uploadHistory
  <2>3. CASE SendSum(lost)
    BY <1>r, <2>3 DEF SendSum, Abandon, attempt, uploadHistory, Revs
  <2>4. CASE RenameSum(lost)
    <3>1. sumTemp \in 0..MaxRev
      BY <2>4, <1>r DEF RenameSum, StepInv, Revs
    <3> QED
      BY <2>4, <3>1 DEF RenameSum, Abandon, attempt, uploadHistory, None
  <2> QED
    BY <1>2, <2>2, <2>3, <2>4
<1>3. CASE Upload
  <2>1. CASE Begin
    BY <2>1 DEF Begin, target, uploadHistory
  <2>2. CASE Probe
    <3>1. [id |-> rec.archive, published |-> FALSE, noRest |-> rec.pending.noRest] \in Pendings
      BY <1>r DEF Pendings, Revs
    <3>r. rec' \in Records
      BY <2>2, <3>1, RecordUpdates DEF Probe
    <3>2. Resume \in Nat
      BY <1>r, ContentFields DEF Resume
    <3> QED
      BY <2>2, <3>r, <3>2 DEF Probe, target, uploadHistory
  <2>3. CASE SkipArchive
    BY <2>3 DEF SkipArchive, attempt, target, uploadHistory
  <2>4. CASE Stor
    <3>1. temp' \in Contents
      BY <2>4 DEF Stor, Stored, Contents
    <3> QED
      BY <2>4, <3>1 DEF Stor, attempt
  <2>5. CASE Data
    <3>s. Stream \in 1..Foreign
      BY <1>r DEF Stream
    <3>1. temp.from \subseteq 1..Foreign /\ temp.len + 1 \in Nat
      <4>1. temp \in Contents /\ temp # Absent
        BY <2>5 DEF Data, StepInv, UploadTypeOK
      <4>2. temp.from \subseteq 1..Foreign /\ temp.len \in Nat
        BY <4>1, ContentFields
      <4> QED
        BY <4>2
    <3>2. temp' \in Contents
      BY <2>5, <3>s, <3>1 DEF Data, Contents
    <3> QED
      BY <2>5, <3>2 DEF Data, attempt, uploadHistory
  <2>6. CASE Complete(FALSE)
    BY <2>6 DEF Complete, attempt, target, uploadHistory
  <2>7. CASE Check
    BY <2>7 DEF Check, attempt, target, uploadHistory
  <2>8. CASE Mismatch
    BY <2>8 DEF Mismatch, Abandon, target, uploadHistory
  <2>9. CASE Confirm
    <3>1. rec' \in Records
      BY <2>9, <1>r DEF Confirm, Records
    <3>2. placed' \in 0..MaxRev
      BY <1>r, <2>9 DEF Confirm, Revs
    <3> QED
      BY <2>9, <3>1, <3>2 DEF Confirm, attempt, target
  <2>10. CASE SumRefused
    BY <2>10 DEF SumRefused, Abandon, target, uploadHistory
  <2>11. CASE Settle
    <3>1. NoPending \in Pendings /\ Receipt \in Receipts
      BY <1>r DEF Pendings, Receipts, Receipt, NoPending, None, Revs
    <3>2. rec' \in Records
      BY <2>11, <3>1, RecordUpdates DEF Settle
    <3> QED
      BY <2>11, <3>2 DEF Settle, target, uploadHistory
  <2>12. CASE RestRejected
    <3>1. rec' \in Records
      BY <2>12, <1>r DEF RestRejected, Records
    <3> QED
      BY <2>12, <3>1 DEF RestRejected, Abandon, target, uploadHistory
  <2> QED
    BY <1>2, <1>3, <2>1, <2>2, <2>3, <2>4, <2>5, <2>6, <2>7, <2>8, <2>9, <2>10, <2>11, <2>12 DEF Upload
<1>4. CASE Drop \/ Complete(TRUE)
  <2>1. CASE Drop
    BY <2>1 DEF Drop, Abandon, Doubt, target
  <2>2. CASE Complete(TRUE)
    BY <2>2 DEF Complete, attempt, target, uploadHistory
  <2> QED
    BY <1>4, <2>1, <2>2
<1>5. CASE UNCHANGED uploadVars
  BY <1>5 DEF uploadVars
<1> QED
  BY <1>1, <1>2, <1>3, <1>4, <1>5 DEF UploadNext, Upload, Trouble

(***************************************************************************)
(* The invariant is preserved, step by step.                               *)
(***************************************************************************)
LEMMA UploadInitHolds == UploadInit => UploadInv
<1> SUFFICES ASSUME UploadInit PROVE UploadInv
  OBVIOUS
<1>1. UploadTypeOK
  BY InitType
<1>2. /\ rec.archive = 1 /\ rec.receipt.archive = None /\ rec.pending.id = None
      /\ pc = "idle" /\ local = 1 /\ temp = Absent /\ doubt = {} /\ placed = None
  BY DEF UploadInit, NoReceipt, NoPending
<1>3. LocalInv /\ PendingInv /\ StepInv /\ PlacedInv
  BY <1>2 DEF LocalInv, PendingInv, StepInv, PlacedInv, Delivered, Sending, Finishing, None
<1>4. PartialInv /\ UnharmedInv
  BY <1>2 DEF PartialInv, UnharmedInv, Finishing, Absent, None
<1>5. FinalInv
  BY DEF UploadInit, FinalInv
<1> QED
  BY <1>1, <1>3, <1>4, <1>5 DEF UploadInv

\* A checked partial is the whole archive, unless it is in doubt.
LEMMA CheckedWhole ==
  ASSUME UploadInv, pc = "check", Checked
  PROVE  temp.len = Size[rec.archive] /\ ("temp" \in doubt \/ Whole(temp, rec.archive))
<1> USE DEF UploadInv
<1>1. SUFFICES ASSUME "temp" \notin doubt PROVE Whole(temp, rec.archive)
  BY DEF Checked
<1>2. temp # Absent /\ temp.len = Size[rec.archive] /\ local = rec.archive
  BY DEF StepInv, Checked
<1>3. rec.archive # Foreign /\ Size[rec.archive] > 0
  BY ArchiveRev
<1>4. temp.from \subseteq {rec.archive, Foreign} /\ Foreign \notin temp.from /\ temp.from # {}
  BY <1>1, <1>2, <1>3 DEF PartialInv, PendingInv, Sending
<1>5. temp = [from |-> temp.from, len |-> temp.len]
  BY <1>2, ContentFields DEF UploadTypeOK
<1>6. temp.from = {rec.archive}
  BY <1>4
<1> QED
  BY <1>2, <1>5, <1>6 DEF Whole

\* Steps that touch neither the record, the archive, the target's files nor the
\* history; where they lead to is where what StepInv asks for has just been seen.
LEMMA QuietSteps ==
  ASSUME UploadInv, UploadTypeOK',
         UNCHANGED <<local, rec, final, temp, sum, damages, doubt, placed>>,
         \/ pc' \in {"idle", "probe"} /\ pc # "stor"
         \/ pc' = pc /\ offset' = offset /\ sumTemp' = sumTemp
         \/ pc = "probe" /\ ~Replace /\ pc' = "sum"
         \/ pc = "data" /\ pc' = "check"
         \/ pc = "check" /\ Checked /\ pc' = "rename"
         \/ pc = "sum" /\ pc' = "sumRename" /\ sumTemp' = rec.archive
  PROVE  UploadInv'
<1> USE DEF UploadInv
<1>1. LocalInv' /\ FinalInv'
  BY DEF LocalInv, FinalInv, Whole
<1>2. PendingInv'
  BY DEF PendingInv, Sending, Delivered, Replace
<1>3. PartialInv'
  BY DEF PartialInv
<1>4. ~Replace => final.len = Size[rec.archive]
  BY DEF Replace
<1>5. StepInv'
  BY <1>4, CheckedWhole DEF StepInv, Finishing, Whole
<1>6. UnharmedInv'
  BY DEF UnharmedInv, Replace, Finishing
<1>7. PlacedInv'
  BY DEF PlacedInv, Sending, Delivered
<1> QED
  BY <1>1, <1>2, <1>3, <1>5, <1>6, <1>7

\* An attempt cut off by a lost connection or a crash leaves the doubt there is.
LEMMA CutOffHolds ==
  ASSUME UploadInv, UploadTypeOK', pc' = "idle", Doubt,
         UNCHANGED <<local, rec, final, temp, sum, damages, placed>>
  PROVE  UploadInv'
<1> USE DEF UploadInv
<1>1. LocalInv' /\ PendingInv' /\ StepInv' /\ PlacedInv'
  BY DEF LocalInv, PendingInv, StepInv, PlacedInv, Sending, Finishing, Delivered
<1>2. doubt \subseteq doubt' /\ ("final" \in doubt' => "final" \in doubt)
  BY DEF Doubt
<1>3. FinalInv'
  BY <1>2 DEF FinalInv, Whole
<1>4. PartialInv'
  <2>1. CASE Unfounded
    BY <2>1 DEF PartialInv, Doubt
  <2>2. CASE ~Unfounded
    BY <2>2, ArchiveRev DEF PartialInv, Doubt, Unfounded
  <2> QED
    BY <2>1, <2>2
<1>5. UnharmedInv'
  <2>1. damages = 0 => ~Unfounded
    BY DEF UnharmedInv, Unfounded, Absent
  <2> QED
    BY <2>1 DEF UnharmedInv, Doubt, Replace, Finishing
<1> QED
  BY <1>1, <1>3, <1>4, <1>5

LEMMA ReviseHolds == ASSUME UploadInv, UploadTypeOK', Revise PROVE UploadInv'
<1> USE DEF UploadInv
<1>1. /\ rec'.archive = rec.archive + 1 /\ rec'.receipt = rec.receipt /\ rec'.pending = rec.pending
      /\ local' = rec'.archive /\ pc = "idle" /\ (Delivered \/ local # rec.archive)
      /\ UNCHANGED <<pc, offset, final, temp, sum, sumTemp, damages, doubt, placed>>
  BY DEF Revise, UploadTypeOK, Records, attempt, target, uploadHistory
<1>2. /\ rec.archive \in Nat /\ rec.archive # None
      /\ rec.receipt.archive \in 0..rec.archive /\ rec.pending.id \in 0..rec.archive
      /\ placed \in 0..rec.archive
  BY ArchiveRev DEF PendingInv, PlacedInv, Revs
<1>3. LocalInv' /\ PartialInv' /\ StepInv' /\ PlacedInv'
  BY <1>1, <1>2 DEF LocalInv, PartialInv, StepInv, PlacedInv, Finishing
<1>4. PendingInv'
  BY <1>1, <1>2 DEF PendingInv, Delivered, Sending
<1>5. FinalInv'
  BY <1>1, <1>2 DEF FinalInv, Whole
<1>6. UnharmedInv'
  BY <1>1, <1>2 DEF UnharmedInv, PendingInv, Finishing
<1> QED
  BY <1>3, <1>4, <1>5, <1>6

LEMMA RepairHolds == ASSUME UploadInv, UploadTypeOK', Repair PROVE UploadInv'
<1> USE DEF UploadInv
<1>1. /\ local' = rec.archive /\ local # rec.archive /\ pc = "idle" /\ doubt \subseteq doubt'
      /\ (Foreign \in temp.from => "temp" \in doubt')
      /\ UNCHANGED <<rec, pc, offset, final, temp, sum, sumTemp, damages, placed>>
  BY DEF Repair, attempt, target
<1>2. LocalInv' /\ PendingInv' /\ StepInv' /\ PlacedInv' /\ FinalInv'
  BY <1>1 DEF LocalInv, PendingInv, StepInv, PlacedInv, FinalInv, Sending, Finishing, Delivered, Whole
<1>3. PartialInv' /\ UnharmedInv'
  BY <1>1 DEF PartialInv, UnharmedInv
<1> QED
  BY <1>2, <1>3

LEMMA TamperHolds == ASSUME UploadInv, UploadTypeOK', Tamper PROVE UploadInv'
<1> USE DEF UploadInv
<1>1. /\ local' \in {None, Foreign} /\ damages' = damages + 1 /\ damages \in Nat
      /\ UNCHANGED <<rec, pc, offset, final, temp, sum, sumTemp, doubt, placed>>
  BY DEF Tamper, attempt, target, uploadHistory, UploadTypeOK
<1>2. LocalInv' /\ PendingInv' /\ StepInv' /\ PlacedInv' /\ FinalInv'
  BY <1>1 DEF LocalInv, PendingInv, StepInv, PlacedInv, FinalInv, Sending, Finishing, Delivered, Whole, Replace
<1>3. rec.archive # None /\ rec.archive # Foreign
  BY ArchiveRev
<1>4. PartialInv' /\ UnharmedInv'
  BY <1>1, <1>3 DEF PartialInv, UnharmedInv
<1> QED
  BY <1>2, <1>4

\* A publication on record, or an acknowledged archive, is not sent again.
LEMMA NotReplaced ==
  ASSUME UploadInv, Replace
  PROVE  ~Delivered /\ placed # rec.archive
BY DEF UploadInv, PendingInv, PlacedInv, Replace, Delivered

LEMMA ProbeHolds == ASSUME UploadInv, UploadTypeOK', Probe PROVE UploadInv'
<1> USE DEF UploadInv
<1>1. /\ rec'.archive = rec.archive /\ rec'.receipt = rec.receipt
      /\ rec'.pending.id = rec.archive /\ rec'.pending.published = FALSE
      /\ offset' = Resume /\ pc = "probe" /\ Replace
      /\ pc' = IF Resume < Size[rec.archive] THEN "stor" ELSE "check"
      /\ UNCHANGED <<local, final, temp, sum, sumTemp, damages, doubt, placed>>
  BY DEF Probe, UploadTypeOK, Records, target, uploadHistory
<1>2. /\ Size[rec.archive] \in Nat /\ Size[rec.archive] > 0 /\ rec.archive \in 0..rec.archive
      /\ ~Delivered /\ placed # rec.archive
  BY <1>1, ArchiveRev, NotReplaced
<1>3. Resume # 0 => rec.pending.id = rec.archive /\ temp # Absent
  BY DEF Resume
<1>4. Replace'
  BY <1>1 DEF Replace
<1>5. pc' \in {"stor", "check"} /\ ((pc' = "stor" /\ offset' = 0) \/ Resume # 0)
  BY <1>1, <1>2
<1>6. LocalInv' /\ FinalInv' /\ PlacedInv'
  BY <1>1, <1>2 DEF LocalInv, FinalInv, PlacedInv, Whole
<1>7. PendingInv'
  BY <1>1, <1>2, <1>4 DEF PendingInv, Delivered
<1>8. PartialInv'
  BY <1>1, <1>3, <1>5 DEF PartialInv
<1>9. StepInv'
  BY <1>1, <1>3, <1>5 DEF StepInv, Finishing
<1>10. UnharmedInv'
  BY <1>1, <1>4, <1>5 DEF UnharmedInv, Finishing
<1> QED
  BY <1>6, <1>7, <1>8, <1>9, <1>10

LEMMA StorHolds == ASSUME UploadInv, UploadTypeOK', Stor PROVE UploadInv'
<1> USE DEF UploadInv
<1>1. /\ pc = "stor" /\ pc' = "data" /\ temp' = Stored
      /\ doubt' = IF offset = 0 THEN doubt \ {"temp"} ELSE doubt
      /\ UNCHANGED <<local, rec, offset, final, sum, sumTemp, damages, placed>>
  BY DEF Stor, attempt
<1>2. LocalInv' /\ FinalInv' /\ PendingInv' /\ PlacedInv'
  BY <1>1 DEF LocalInv, FinalInv, PendingInv, PlacedInv, Whole, Delivered, Replace, Sending
<1>3. temp' # Absent /\ temp'.from \subseteq temp.from
  BY <1>1, ContentFields DEF Stored, StepInv, Absent, UploadTypeOK
<1>4. PartialInv'
  <2>1. CASE offset = 0
    BY <1>1, <2>1 DEF PartialInv, Stored
  <2>2. CASE offset # 0
    BY <1>1, <2>2 DEF PartialInv, Stored
  <2> QED
    BY <2>1, <2>2
<1>5. StepInv'
  BY <1>1, <1>3 DEF StepInv, Finishing
<1>6. UnharmedInv'
  BY <1>1, <1>3 DEF UnharmedInv, PendingInv, Sending, Finishing, Replace, Absent
<1> QED
  BY <1>2, <1>4, <1>5, <1>6

LEMMA DataHolds == ASSUME UploadInv, UploadTypeOK', Data PROVE UploadInv'
<1> USE DEF UploadInv
<1>1. /\ pc = "data" /\ pc' = "data"
      /\ temp' = [from |-> temp.from \cup {Stream}, len |-> temp.len + 1]
      /\ UNCHANGED <<local, rec, offset, final, sum, sumTemp, damages, doubt, placed>>
  BY DEF Data, attempt, uploadHistory
<1>2. LocalInv' /\ FinalInv' /\ PendingInv' /\ PlacedInv'
  BY <1>1 DEF LocalInv, FinalInv, PendingInv, PlacedInv, Whole, Delivered, Replace, Sending
<1>3. temp # Absent /\ temp.len \in Nat
  BY <1>1, ContentFields DEF StepInv, UploadTypeOK
<1>4. rec.archive # Foreign /\ rec.archive # None
  BY ArchiveRev
<1>5. Stream \in {rec.archive, Foreign} /\ (Stream = Foreign => local # rec.archive)
      /\ (local = rec.archive => Stream = rec.archive)
  BY <1>4 DEF Stream, LocalInv
<1>6. PartialInv'
  BY <1>1, <1>5 DEF PartialInv
<1>7. temp' # Absent
  BY <1>1, <1>3 DEF Absent
<1>8. StepInv' /\ UnharmedInv'
  BY <1>1, <1>3, <1>5, <1>7 DEF StepInv, UnharmedInv, Finishing, Replace
<1> QED
  BY <1>2, <1>6, <1>8

LEMMA RestRejectedHolds == ASSUME UploadInv, UploadTypeOK', RestRejected PROVE UploadInv'
<1> USE DEF UploadInv
<1>1. /\ rec'.archive = rec.archive /\ rec'.receipt = rec.receipt
      /\ rec'.pending.id = rec.pending.id /\ rec'.pending.published = rec.pending.published
      /\ UNCHANGED <<local, final, temp, sum, damages, doubt, placed>>
      /\ pc = "stor" /\ offset # 0 /\ pc' = "idle"
  <2>1. /\ rec'.archive = rec.archive /\ rec'.receipt = rec.receipt
        /\ rec'.pending.id = rec.pending.id /\ rec'.pending.published = rec.pending.published
    BY DEF RestRejected, UploadTypeOK, Records
  <2>2. /\ UNCHANGED <<local, final, temp, sum, damages, doubt, placed>>
        /\ pc = "stor" /\ offset # 0 /\ pc' = "idle"
    BY DEF RestRejected, target, uploadHistory, Abandon
  <2> QED
    BY <2>1, <2>2
<1>2. LocalInv' /\ FinalInv' /\ PendingInv' /\ PlacedInv'
  BY <1>1 DEF LocalInv, FinalInv, PendingInv, PlacedInv, Whole, Delivered, Sending
<1>3. PartialInv' /\ StepInv' /\ UnharmedInv'
  BY <1>1 DEF PartialInv, Replace, StepInv, UnharmedInv, Finishing
<1> QED
  BY <1>2, <1>3

LEMMA RenameHolds == ASSUME UploadInv, UploadTypeOK', NEW lost \in BOOLEAN, Rename(lost) PROVE UploadInv'
<1> USE DEF UploadInv
<1>1. /\ UNCHANGED <<local, rec, sum, damages, placed>> /\ pc = "rename" /\ pc' \in {"idle", "confirm"}
      /\ final' = temp /\ temp' = Absent /\ doubt' = IF "temp" \in doubt THEN {"final"} ELSE {}
  BY DEF Rename, Abandon
<1>2. /\ temp.len = Size[rec.archive] /\ ("temp" \in doubt \/ Whole(temp, rec.archive))
      /\ rec.archive \in 1..rec.archive /\ rec.pending.id = rec.archive
  BY <1>1, RecordFields DEF StepInv, PendingInv, Sending, UploadTypeOK, Revs
<1>3. ~Delivered /\ placed # rec.archive
  BY <1>1, NotReplaced DEF PendingInv, Sending
<1>4. LocalInv' /\ PartialInv' /\ PlacedInv'
  BY <1>1, <1>3 DEF LocalInv, PartialInv, PlacedInv, Absent
<1>5. FinalInv'
  BY <1>1, <1>2 DEF FinalInv, Whole
<1>6. PendingInv' /\ StepInv' /\ UnharmedInv'
  BY <1>1, <1>2, <1>3 DEF PendingInv, StepInv, UnharmedInv, Delivered, Whole, Sending, Finishing
<1> QED
  BY <1>4, <1>5, <1>6

LEMMA ConfirmHolds == ASSUME UploadInv, UploadTypeOK', Confirm PROVE UploadInv'
<1> USE DEF UploadInv
<1>1. /\ rec'.archive = rec.archive /\ rec'.receipt = rec.receipt
      /\ rec'.pending.id = rec.pending.id /\ rec'.pending.published = TRUE
      /\ UNCHANGED <<local, final, temp, sum, damages, doubt>> /\ pc = "confirm" /\ pc' = "sum"
      /\ final.len = Size[rec.archive] /\ placed' = rec.archive
  BY DEF Confirm, UploadTypeOK, Records, target
<1>2. LocalInv' /\ FinalInv' /\ PartialInv' /\ StepInv'
  BY <1>1 DEF LocalInv, FinalInv, Whole, PartialInv, StepInv, Finishing
<1>3. rec.pending.id = rec.archive /\ rec.archive \in 0..rec.archive
  BY <1>1, ArchiveRev DEF PendingInv
<1>4. PendingInv' /\ PlacedInv'
  BY <1>1, <1>3 DEF PendingInv, PlacedInv, Delivered, Sending
<1>5. UnharmedInv'
  BY <1>1 DEF UnharmedInv, Finishing
<1> QED
  BY <1>2, <1>4, <1>5

LEMMA RenameSumHolds ==
  ASSUME UploadInv, UploadTypeOK', NEW lost \in BOOLEAN, RenameSum(lost)
  PROVE  UploadInv'
<1> USE DEF UploadInv
<1>1. /\ UNCHANGED <<local, rec, final, temp, damages, doubt, placed>> /\ pc = "sumRename"
      /\ sum' = rec.archive /\ pc' \in {"idle", "receipt"}
  BY DEF RenameSum, Abandon, StepInv, uploadHistory
<1>2. LocalInv' /\ FinalInv' /\ PendingInv' /\ PlacedInv'
  BY <1>1 DEF LocalInv, FinalInv, PendingInv, PlacedInv, Whole, Delivered, Sending
<1>3. PartialInv' /\ StepInv' /\ UnharmedInv'
  BY <1>1 DEF PartialInv, StepInv, UnharmedInv, Replace, Finishing
<1> QED
  BY <1>2, <1>3

LEMMA SettleHolds == ASSUME UploadInv, UploadTypeOK', Settle PROVE UploadInv'
<1> USE DEF UploadInv
<1>1. /\ rec'.archive = rec.archive /\ rec'.receipt.archive = rec.archive /\ rec'.pending.id = None
      /\ UNCHANGED <<local, final, temp, sum, damages, doubt, placed>>
      /\ pc = "receipt" /\ pc' = "idle"
  BY DEF Settle, UploadTypeOK, Records, target, uploadHistory, NoPending, Receipt
<1>2. /\ final.len = Size[rec.archive] /\ sum = rec.archive
      /\ rec.archive \in 0..rec.archive /\ rec.archive # None /\ None \in 0..rec.archive
  BY <1>1, ArchiveRev DEF StepInv, Finishing, None, Revs
<1>3. LocalInv' /\ FinalInv' /\ PartialInv' /\ StepInv'
  BY <1>1, <1>2 DEF LocalInv, FinalInv, Whole, PartialInv, StepInv, Finishing
<1>4. PendingInv' /\ PlacedInv' /\ UnharmedInv'
  BY <1>1, <1>2 DEF PendingInv, PlacedInv, UnharmedInv, Delivered, Sending, Finishing
<1> QED
  BY <1>3, <1>4

LEMMA UploadNextHolds == UploadInv /\ [UploadNext]_uploadVars => UploadInv'
<1> SUFFICES ASSUME UploadInv, [UploadNext]_uploadVars PROVE UploadInv'
  OBVIOUS
<1>t. UploadTypeOK'
  BY UploadTypeNext DEF UploadInv
<1>1. CASE Environment
  <2>1. CASE NextDay
    BY <1>t, <2>1, QuietSteps DEF NextDay, attempt, target, uploadHistory
  <2>2. CASE Crash
    BY <1>t, <2>2, CutOffHolds DEF Crash, target
  <2> QED
    BY <1>t, <1>1, <2>1, <2>2, ReviseHolds, RepairHolds, TamperHolds DEF Environment
<1>2. ASSUME NEW lost \in BOOLEAN, Rename(lost) \/ SendSum(lost) \/ RenameSum(lost) \/ Complete(lost)
      PROVE  UploadInv'
  <2>1. CASE SendSum(lost)
    BY <1>t, <2>1, QuietSteps DEF SendSum, Abandon, uploadHistory
  <2>2. CASE Complete(lost)
    BY <1>t, <2>2, QuietSteps DEF Complete, target, uploadHistory
  <2> QED
    BY <1>t, <1>2, <2>1, <2>2, RenameHolds, RenameSumHolds
<1>3. CASE Upload
  <2>1. CASE Begin \/ Mismatch \/ SumRefused
    BY <1>t, <2>1, QuietSteps DEF Begin, Mismatch, SumRefused, Abandon, target, uploadHistory
  <2>2. CASE SkipArchive \/ Check
    BY <1>t, <2>2, QuietSteps DEF SkipArchive, Check, target, uploadHistory
  <2> QED
    BY <1>t, <1>2, <1>3, <2>1, <2>2, ProbeHolds, StorHolds, DataHolds, RestRejectedHolds,
       ConfirmHolds, SettleHolds DEF Upload
<1>4. CASE Drop
  BY <1>t, <1>4, CutOffHolds DEF Drop, Abandon, target
<1>5. CASE UNCHANGED uploadVars
  BY <1>t, <1>5, QuietSteps DEF uploadVars
<1> QED
  BY <1>1, <1>2, <1>3, <1>4, <1>5 DEF UploadNext, Trouble

(***************************************************************************)
(* Theorems.                                                               *)
(***************************************************************************)
\* Whatever the number of revisions, sizes, lost replies, crashes and changes of the
\* local archive (mosaic_push.py, upload()): under the final name is nothing, the
\* stranger's file that was there, or one whole revision, unless what was renamed
\* had come by its claim in one of the two ways that history keeps.
THEOREM ShownIsWhole == UploadSpec => []PublishedWhole
<1>1. UploadInit => UploadInv
  BY UploadInitHolds
<1>2. UploadInv /\ [UploadNext]_uploadVars => UploadInv'
  BY UploadNextHolds
<1>3. UploadInv => PublishedWhole
  BY RecordFields DEF UploadInv, FinalInv, PublishedWhole, Untorn, UploadTypeOK, Revs
<1> QED
  BY <1>1, <1>2, <1>3, PTL DEF UploadSpec

\* The two ways need a harmed local archive: the target of a mirror whose archives
\* are left alone only ever shows whole files.
THEOREM UnharmedIsWhole == UploadSpec => [](damages = 0 => Untorn)
<1>1. UploadInit => UploadInv
  BY UploadInitHolds
<1>2. UploadInv /\ [UploadNext]_uploadVars => UploadInv'
  BY UploadNextHolds
<1>3. UploadInv => (damages = 0 => Untorn)
  BY RecordFields DEF UploadInv, UnharmedInv, FinalInv, Untorn, UploadTypeOK, Revs
<1> QED
  BY <1>1, <1>2, <1>3, PTL DEF UploadSpec

\* From the record of its publication until the next revision, an archive is not
\* sent or renamed again: Settle, the daily check, a lost checksum and a rebuilt
\* archive leave what Replace looks at as it was.
THEOREM NotSentAgain == UploadSpec => SentOnce
<1>1. UploadInit => UploadInv
  BY UploadInitHolds
<1>2. UploadInv /\ [UploadNext]_uploadVars => UploadInv'
  BY UploadNextHolds
<1>3. ASSUME UploadInv, [UploadNext]_uploadVars, placed = rec.archive
      PROVE  UNCHANGED <<final, temp>>
  <2>1. pc \notin {"stor", "data", "rename"}
    BY <1>3 DEF UploadInv, PlacedInv, Sending
  <2> QED
    BY <1>3, <2>1 DEF UploadNext, Environment, Upload, Trouble, Revise, Repair, NextDay, Tamper, Crash, Begin, Probe,
         SkipArchive, Stor, Data, Complete, Check, Mismatch, Confirm, SumRefused, Settle, RestRejected, Rename,
         SendSum, RenameSum, Drop, target, uploadVars
<1>4. UploadInv /\ [UploadNext]_uploadVars
        => [placed = rec.archive /\ rec'.archive = rec.archive => UNCHANGED <<final, temp>>]_uploadVars
  BY <1>3
<1> QED
  BY <1>1, <1>2, <1>4, PTL DEF UploadSpec, SentOnce

(***************************************************************************)
(* Refinement.  The state function that MosaicUpload substitutes for shown *)
(* is r exactly when the final name shows the whole of revision r.         *)
(***************************************************************************)
Shown == IF \E r \in Revs : Whole(final, r) THEN CHOOSE r \in Revs : Whole(final, r) ELSE 0

LEMMA ShownUnique ==
  ASSUME NEW f, NEW r \in Revs, Whole(f, r)
  PROVE  (IF \E q \in Revs : Whole(f, q) THEN CHOOSE q \in Revs : Whole(f, q) ELSE 0) = r
<1>1. ASSUME NEW q \in Revs, Whole(f, q)
      PROVE  q = r
  <2>1. f.from = {q} /\ f.from = {r}
    BY <1>1 DEF Whole
  <2> QED
    BY <2>1
<1>2. (CHOOSE q \in Revs : Whole(f, q)) = r
  BY <1>1
<1> QED
  BY <1>2

LEMMA ShownRev ==
  ASSUME NEW f
  PROVE  (IF \E q \in Revs : Whole(f, q) THEN CHOOSE q \in Revs : Whole(f, q) ELSE 0) \in 0..MaxRev
<1>1. (\E q \in Revs : Whole(f, q)) => (CHOOSE q \in Revs : Whole(f, q)) \in Revs
  OBVIOUS
<1> QED
  BY <1>1 DEF Revs

LEMMA SentInit == UploadInit => SentInv
BY DEF UploadInit, SentInv, NoPending, Finishing, None

LEMMA SentHolds ==
  ASSUME UploadInv, UploadInv', SentInv, [UploadNext]_uploadVars
  PROVE  SentInv'
<1> USE DEF UploadInv
<1>r. /\ rec.archive \in Nat /\ rec.archive # None /\ rec.pending.id \in 0..rec.archive
  BY ArchiveRev DEF Revs, PendingInv
<1>1. CASE /\ UNCHANGED <<rec, final>> /\ (pc' \notin Finishing \/ pc \in Finishing)
           /\ ("final" \in doubt => "final" \in doubt')
  BY <1>1 DEF SentInv, Delivered, Whole
<1>2. CASE Revise
  <2>1. /\ rec'.archive = rec.archive + 1 /\ rec'.pending = rec.pending /\ pc' = "idle"
    BY <1>2 DEF Revise, UploadTypeOK, Records
  <2> QED
    BY <1>r, <2>1 DEF SentInv, Finishing
<1>3. CASE Probe
  <2>1. ~rec'.pending.published /\ pc' \in {"stor", "check"}
    BY <1>3 DEF Probe, UploadTypeOK, Records
  <2> QED
    BY <2>1 DEF SentInv, Finishing
<1>4. CASE SkipArchive
  <2>1. ~Replace /\ UNCHANGED <<rec, final, doubt>> /\ pc' = "sum"
    BY <1>4 DEF SkipArchive, target, uploadHistory
  <2>2. \/ Delivered \/ rec.receipt.archive = None
        \/ rec.pending.id = rec.archive /\ rec.pending.published
    BY <2>1 DEF Replace, Delivered
  <2> QED
    BY <2>1, <2>2 DEF SentInv, Delivered, Whole
<1>5. CASE RestRejected
  <2>1. /\ rec'.archive = rec.archive /\ UNCHANGED <<final, doubt>> /\ pc' = "idle"
        /\ rec'.pending.id = rec.pending.id /\ rec'.pending.published = rec.pending.published
    BY <1>5 DEF RestRejected, UploadTypeOK, Records, target, uploadHistory, Abandon
  <2> QED
    BY <2>1 DEF SentInv, Finishing, Whole
<1>6. ASSUME NEW lost \in BOOLEAN, Rename(lost)
      PROVE  SentInv'
  <2>1. /\ rec' = rec /\ final' = temp /\ pc' \in {"idle", "confirm"}
        /\ "final" \in doubt' \/ Whole(temp, rec.archive)
    BY <1>6 DEF Rename, StepInv, Abandon
  <2> QED
    BY <2>1 DEF SentInv, Whole, Finishing
<1>7. CASE Confirm
  <2>1. /\ rec'.archive = rec.archive /\ UNCHANGED <<final, doubt>>
        /\ "final" \in doubt \/ Whole(final, rec.archive)
    BY <1>7 DEF Confirm, UploadTypeOK, Records, target, StepInv
  <2> QED
    BY <2>1 DEF SentInv, Whole
<1>8. CASE Settle
  <2>1. rec'.archive = rec.archive /\ rec'.pending.id = None /\ pc' = "idle"
    BY <1>8 DEF Settle, UploadTypeOK, Records, Receipt, NoPending
  <2> QED
    BY <1>r, <2>1 DEF SentInv, Finishing
<1>9. ASSUME NEW lost \in BOOLEAN, SendSum(lost) \/ RenameSum(lost) \/ Complete(lost)
      PROVE  SentInv'
  BY <1>1, <1>9 DEF SendSum, RenameSum, Complete, target, uploadHistory, Abandon, Finishing
<1>10. CASE Repair \/ Crash \/ Drop \/ Stor
  BY <1>1, <1>10 DEF Repair, Crash, Drop, Stor, Doubt, target, Abandon, Finishing
<1>11. CASE NextDay \/ Tamper \/ Begin \/ Data \/ Check \/ Mismatch \/ SumRefused \/ UNCHANGED uploadVars
  BY <1>1, <1>11 DEF NextDay, Tamper, Begin, Data, Check, Mismatch, SumRefused, Abandon,
                     attempt, target, uploadHistory, uploadVars, Finishing
<1> QED
  BY <1>2, <1>3, <1>4, <1>5, <1>6, <1>7, <1>8, <1>9, <1>10, <1>11 DEF UploadNext, Environment, Upload, Trouble

LEMMA MapsInit == UploadInit => Delivery!Init
<1> SUFFICES ASSUME UploadInit PROVE Delivery!Init
  OBVIOUS
<1>1. \A r \in Revs : ~Whole(final, r)
  <2>1. final = Absent \/ final.from = {Foreign}
    BY DEF UploadInit
  <2>2. \A r \in Revs : {r} # {} /\ {r} # {Foreign}
    <3>1. \A r \in Revs : r # Foreign
      BY DEF Revs, Foreign
    <3> QED
      BY <3>1
  <2> QED
    BY <2>1, <2>2 DEF Whole, Absent
<1>2. rec.archive = 1 /\ rec.receipt.archive = 0 /\ sum = 0 /\ doubt = {} /\ ~(damages > 0)
  BY DEF UploadInit, NoReceipt, None
<1>3. final.len \in {-1} \cup StrangerSizes
  BY DEF UploadInit, Absent
<1> QED
  BY <1>1, <1>2, <1>3 DEF Delivery!Init

\* What the mirror takes for delivered passes for it, or was taken for it before.
LEMMA FinishingPasses ==
  ASSUME UploadInv, SentInv, pc \in Finishing, ~Delivered
  PROVE  Delivery!Passes
<1> USE DEF UploadInv
<1>1. rec.archive \in Revs /\ final.len = Size[rec.archive]
  BY RecordFields DEF UploadTypeOK, StepInv
<1>2. Whole(final, rec.archive) => Shown = rec.archive
  BY <1>1, ShownUnique DEF Shown
<1> QED
  BY <1>1, <1>2 DEF SentInv, Delivery!Passes, Shown, None

LEMMA MapsNext ==
  ASSUME UploadInv, SentInv, UploadInv', [UploadNext]_uploadVars
  PROVE  [Delivery!Next]_(Delivery!deliveryVars)
<1> USE DEF UploadInv
<1>r. rec.archive \in Revs /\ rec'.archive \in Revs /\ damages \in Nat
  BY RecordFields DEF UploadTypeOK, Records
<1>h. damages > 0 \/ /\ local = rec.archive /\ doubt = {} /\ ~Unfounded
  BY <1>r DEF UnharmedInv, Unfounded, Absent
<1>1. CASE UNCHANGED <<rec, final, sum, damages, doubt>>
  BY <1>1 DEF Delivery!deliveryVars, Whole
<1>2. CASE Revise
  <2>1. /\ rec'.archive = rec.archive + 1 /\ rec'.receipt = rec.receipt
        /\ UNCHANGED <<final, sum, damages, doubt>>
    BY <1>2 DEF Revise, UploadTypeOK, Records, target, uploadHistory
  <2>2. rec.receipt.archive = rec.archive \/ damages > 0
    BY <1>h, <1>2 DEF Revise, Delivered
  <2>3. rec.archive < MaxRev
    BY <1>2 DEF Revise
  <2> QED
    BY <2>1, <2>2, <2>3 DEF Delivery!Next, Delivery!NewRevision, Whole
<1>3. CASE Tamper
  <2>1. UNCHANGED <<rec, final, sum, doubt>> /\ damages' > 0
    BY <1>r, <1>3 DEF Tamper, target, uploadHistory
  <2> QED
    BY <2>1 DEF Delivery!Next, Delivery!Harm, Whole
<1>4. CASE Repair \/ Crash \/ Drop \/ Stor
  <2>1. UNCHANGED <<rec, final, sum, damages>> /\ doubt' \in {doubt, doubt \cup {"temp"}, doubt \ {"temp"}}
    BY <1>4 DEF Repair, Crash, Drop, Stor, Doubt, target
  <2>2. doubt' # doubt => damages > 0
    BY <1>h, <1>4 DEF Repair, Crash, Drop, Stor, Doubt
  <2>3. CASE doubt' = doubt
    BY <1>1, <2>1, <2>3
  <2>4. CASE doubt' # doubt
    BY <2>1, <2>2, <2>4 DEF Delivery!Next, Delivery!Doubt, Whole
  <2> QED
    BY <2>3, <2>4
<1>5. CASE Probe \/ RestRejected \/ Confirm
  <2>1. /\ rec'.archive = rec.archive /\ rec'.receipt = rec.receipt
        /\ UNCHANGED <<final, sum, damages, doubt>>
    <3>1. rec'.archive = rec.archive /\ rec'.receipt = rec.receipt
      <4>1. CASE Probe
        BY <4>1 DEF Probe, UploadTypeOK, Records
      <4>2. CASE RestRejected
        BY <4>2 DEF RestRejected, UploadTypeOK, Records
      <4>3. CASE Confirm
        BY <4>3 DEF Confirm, UploadTypeOK, Records
      <4> QED
        BY <1>5, <4>1, <4>2, <4>3
    <3>2. UNCHANGED <<final, sum, damages, doubt>>
      BY <1>5 DEF Probe, RestRejected, Confirm, target, uploadHistory
    <3> QED
      BY <3>1, <3>2
  <2> QED
    BY <2>1 DEF Delivery!deliveryVars, Whole
<1>6. ASSUME NEW lost \in BOOLEAN, Rename(lost)
      PROVE  Delivery!Next
  <2>1. /\ UNCHANGED <<rec, sum, damages>> /\ final' = temp /\ temp.len = Size[rec.archive]
        /\ doubt' = IF "temp" \in doubt THEN {"final"} ELSE {}
        /\ "temp" \in doubt \/ Whole(temp, rec.archive)
    BY <1>6 DEF Rename, StepInv
  <2>2. Shown' \in 0..MaxRev /\ ("temp" \notin doubt => Shown' = rec.archive)
    <3>1. Shown' = IF \E q \in Revs : Whole(temp, q) THEN CHOOSE q \in Revs : Whole(temp, q) ELSE 0
      BY <2>1 DEF Shown, Whole
    <3> QED
      BY <1>r, <2>1, <3>1, ShownUnique, ShownRev
  <2> QED
    BY <2>1, <2>2 DEF Delivery!Next, Delivery!ShowArchive, Shown
<1>7. ASSUME NEW lost \in BOOLEAN, RenameSum(lost)
      PROVE  [Delivery!Next]_(Delivery!deliveryVars)
  <2>1. sum' = rec.archive /\ UNCHANGED <<rec, final, damages, doubt>> /\ pc \in Finishing
    BY <1>7 DEF RenameSum, StepInv, uploadHistory, Finishing
  <2>2. CASE Delivered
    BY <1>1, <2>1, <2>2 DEF PendingInv
  <2>3. CASE ~Delivered
    BY <2>1, <2>3, FinishingPasses DEF Delivery!Next, Delivery!ShowSum, Whole
  <2> QED
    BY <2>2, <2>3
<1>8. CASE Settle
  <2>1. /\ rec'.archive = rec.archive /\ rec'.receipt.archive = rec.archive
        /\ UNCHANGED <<final, sum, damages, doubt>> /\ sum = rec.archive /\ pc \in Finishing
    BY <1>8 DEF Settle, UploadTypeOK, Records, target, uploadHistory, Receipt, StepInv, Finishing
  <2>2. CASE Delivered
    BY <2>1, <2>2 DEF Delivered, Delivery!deliveryVars, Whole
  <2>3. CASE ~Delivered
    BY <2>1, <2>3, FinishingPasses DEF Delivery!Next, Delivery!Acknowledge, Whole
  <2> QED
    BY <2>2, <2>3
<1>9. NextDay \/ Begin \/ SkipArchive \/ Data \/ Complete(TRUE) \/ Complete(FALSE) \/ Check \/ Mismatch
        \/ SumRefused \/ SendSum(TRUE) \/ SendSum(FALSE) \/ UNCHANGED uploadVars
        => UNCHANGED <<rec, final, sum, damages, doubt>>
  BY DEF NextDay, Begin, SkipArchive, Data, Complete, Check, Mismatch, SumRefused, SendSum,
         target, uploadHistory, uploadVars
<1> QED
  BY <1>1, <1>2, <1>3, <1>4, <1>5, <1>6, <1>7, <1>8, <1>9 DEF UploadNext, Environment, Upload, Trouble

\* upload() implements the delivery that eviction and the rest of the mirror rely
\* on: under the final name the target goes from whole revision to whole revision,
\* the checksum follows its archive, and the receipt follows both, through every
\* loss, retry and crash; what a harmed local archive, or a target known by its
\* SIZE alone, takes away from that is what MosaicDelivery says and no more.
THEOREM UploadDelivers == UploadSpec => ImplementsDelivery
<1>1. UploadInit => UploadInv /\ SentInv /\ Delivery!Init
  BY UploadInitHolds, SentInit, MapsInit
<1>2. UploadInv /\ SentInv /\ [UploadNext]_uploadVars => UploadInv' /\ SentInv'
  BY UploadNextHolds, SentHolds
<1>3. UploadInv /\ SentInv /\ UploadInv' /\ SentInv' /\ [UploadNext]_uploadVars => [Delivery!Next]_(Delivery!deliveryVars)
  BY MapsNext
<1> QED
  BY <1>1, <1>2, <1>3, PTL DEF UploadSpec, ImplementsDelivery, Delivery!Spec
=============================================================================
