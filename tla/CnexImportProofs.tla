------------------------- MODULE CnexImportProofs -------------------------
(***************************************************************************)
(* Proofs about the publication of an import, for all constants, runs,     *)
(* crashes and failures: a writer a catalog thread is still compressing    *)
(* into is never closed (NeverClosedBusy of CnexImport); what a state      *)
(* names is whole, once and in order (StateHolds); and a reader of a day   *)
(* finds no observations twice (ObservationsOnce).                         *)
(*                                                                         *)
(* NeverClosedBusy is not inductive: publishing clears the writers, so it  *)
(* has to be known that no catalog thread is busy from the end of a job    *)
(* on (Drains).  The other two are about the disk, but what a step does to *)
(* it rests on the invocation: ImportInv says what the parts written so    *)
(* far and the ones on disk hold together (Shelf, Reach), and that the     *)
(* parts still to be renamed come after all of their key on disk, those    *)
(* no state names included (FreshInv).                                     *)
(***************************************************************************)
EXTENDS CnexImport, TLAPS

Fields == {"name", "recs", "open"}

WriterRecords == \A k \in DOMAIN writers : DOMAIN writers[k] = Fields

\* No catalog thread is busy outside the writing of a job, unless one failed.
QuietOutside ==
    /\ step \notin {"idle", "write"} => Idle
    /\ step = "idle" /\ ~failure => Idle
    /\ failure \in BOOLEAN

Drains == NeverClosedBusy /\ QuietOutside /\ WriterRecords

LEMMA EmptyWriters == ASSUME NEW f, f = <<>> PROVE \A k \in DOMAIN f : FALSE
OBVIOUS

LEMMA InitDrains == Init => Drains
<1> SUFFICES ASSUME Init PROVE Drains
  OBVIOUS
<1>1. Idle
  BY Zenon DEF Init, Idle, NoWrites
<1>2. WriterRecords
  BY EmptyWriters, Zenon DEF Init, WriterRecords
<1> QED
  BY <1>1, <1>2 DEF Init, Drains, NeverClosedBusy, QuietOutside, Idle

LEMMA PoisonDrains ==
  ASSUME Drains, Poison PROVE Drains'
BY DEF Drains, NeverClosedBusy, QuietOutside, WriterRecords, Idle, Poison, IsOpen

LEMMA GoneDrains ==
  ASSUME Gone PROVE Drains'
<1>1. Idle'
  BY Zenon DEF Gone, Idle, NoWrites
<1>2. WriterRecords'
  BY EmptyWriters, Zenon DEF Gone, WriterRecords
<1> QED
  BY <1>1, <1>2 DEF Gone, Drains, NeverClosedBusy, QuietOutside, Idle

(***************************************************************************)
(* The writer thread opens, evicts and fills writers.                      *)
(***************************************************************************)
LEMMA WriteDrains ==
  ASSUME Drains, NEW key, Write(key) PROVE Drains'
<1> USE DEF Drains
<1>1. /\ step = "write" /\ step' = step /\ failure' = failure
      /\ busy' = [busy EXCEPT ![key[2]] = key]
      /\ writers' = IF IsOpen(key) THEN writers ELSE Opened(key)
  BY DEF Write, Writable, Submit, thread
<1>2. /\ key \in DOMAIN writers' /\ writers'[key].open
      /\ WriterRecords'
      /\ \A k \in DOMAIN writers : writers[k].open => k \in DOMAIN writers' /\ writers'[k].open
  <2>1. CASE IsOpen(key)
    BY <1>1, <2>1 DEF IsOpen, WriterRecords
  <2>2. CASE ~IsOpen(key)
    <3>1. writers' = [k \in DOMAIN writers \cup {key} |->
                        IF k = key THEN [name |-> Named(key), recs |-> <<>>, open |-> TRUE]
                        ELSE writers[k]]
      BY <1>1, <2>2 DEF Opened
    <3> QED
      BY <3>1, <2>2 DEF IsOpen, WriterRecords, Fields
  <2> QED
    BY <2>1, <2>2
<1>3. NeverClosedBusy'
  BY <1>1, <1>2 DEF NeverClosedBusy, IsOpen
<1>4. QuietOutside'
  BY <1>1 DEF QuietOutside, Idle
<1> QED
  BY <1>2, <1>3, <1>4

LEMMA EvictDrains ==
  ASSUME Drains, NEW key, Evict(key) PROVE Drains'
<1>1. /\ step = "write" /\ step' = step /\ failure' = failure /\ busy' = busy
      /\ Idle
      /\ writers' = [writers EXCEPT ![active[1]].open = FALSE]
  BY DEF Evict, Writable, Drained, thread
<1>2. WriterRecords'
  BY <1>1 DEF Drains, WriterRecords
<1> QED
  BY <1>1, <1>2 DEF Drains, NeverClosedBusy, QuietOutside, Idle

LEMMA CatalogDrains ==
  ASSUME Drains, NEW k \in Range(Catalogs), CatalogDone(k) \/ CatalogFails(k)
  PROVE  Drains'
<1> USE DEF Drains
<1>1. /\ step' = step /\ failure' = failure
      /\ busy' = [busy EXCEPT ![k] = None]
      /\ \/ writers' = writers
         \/ \E recs : writers' = [writers EXCEPT ![busy[k]].recs = recs]
  BY DEF CatalogDone, CatalogFails, thread
<1>2. /\ WriterRecords' /\ DOMAIN writers' = DOMAIN writers
      /\ \A key \in DOMAIN writers : writers'[key].open = writers[key].open
  <2>1. CASE writers' = writers
    BY <2>1 DEF WriterRecords
  <2>2. ASSUME NEW recs, writers' = [writers EXCEPT ![busy[k]].recs = recs]
        PROVE  /\ WriterRecords' /\ DOMAIN writers' = DOMAIN writers
               /\ \A key \in DOMAIN writers : writers'[key].open = writers[key].open
    BY <2>2 DEF WriterRecords, Fields
  <2> QED
    BY <1>1, <2>1, <2>2
<1>3. NeverClosedBusy'
  BY <1>1, <1>2 DEF NeverClosedBusy, IsOpen
<1>4. QuietOutside'
  BY <1>1 DEF QuietOutside, Idle
<1> QED
  BY <1>2, <1>3, <1>4
(***************************************************************************)
(* Publication starts with every catalog thread at rest, and clears.       *)
(***************************************************************************)
LEMMA ClearedDrains ==
  ASSUME Drains, Idle, Published, failure' = failure PROVE Drains'
<1>1. writers' = <<>> /\ busy' = busy /\ step' = "idle"
  BY DEF Published, Cleared
<1>2. WriterRecords'
  BY <1>1, EmptyWriters, Zenon DEF WriterRecords
<1> QED
  BY <1>1, <1>2 DEF Drains, NeverClosedBusy, QuietOutside, Idle

LEMMA PublicationDrains ==
  ASSUME Drains, Publication PROVE Drains'
<1> USE DEF Drains
<1>1. Idle
  BY DEF Publication, QuietOutside, Close, Rename, SaveBegin, Save, MarkBegin, Mark
<1>2. CASE Poison
  BY <1>2, PoisonDrains
<1>3. CASE Published /\ failure' = failure
  BY <1>1, <1>3, ClearedDrains
<1>4. CASE UNCHANGED <<busy, writers, failure>>
  BY <1>1, <1>4 DEF NeverClosedBusy, QuietOutside, WriterRecords, Idle, IsOpen
<1>5. Close => Poison \/ UNCHANGED <<busy, writers, failure>>
  BY DEF Close, thread
<1>6. (\E o \in outputs : Rename(o)) \/ SaveBegin \/ MarkBegin => Poison \/ UNCHANGED <<busy, writers, failure>>
  BY DEF Rename, SaveBegin, MarkBegin, OpenState, thread, staging
<1>7. Save \/ Mark => (Published /\ failure' = failure) \/ UNCHANGED <<busy, writers, failure>>
  BY DEF Save, Mark, staging
<1> QED
  BY <1>2, <1>3, <1>4, <1>5, <1>6, <1>7 DEF Publication

(***************************************************************************)
(* The theorem.                                                            *)
(***************************************************************************)
LEMMA NextDrains == Drains /\ [Next]_vars => Drains'
<1> SUFFICES ASSUME Drains, [Next]_vars PROVE Drains'
  OBVIOUS
<1> USE DEF Drains
<1>1. CASE UNCHANGED <<step, failure, busy, writers>>
  BY <1>1 DEF NeverClosedBusy, QuietOutside, WriterRecords, Idle, IsOpen
<1>2. CASE Begin \/ Resume
  BY <1>1, <1>2 DEF Begin, Resume, Launch, staging
<1>3. CASE MainThread
  <2>1. CASE Feed \/ Notice
    BY <1>1, <2>1 DEF Feed, Notice, staging
  <2>2. CASE Finish
    BY <2>2 DEF Finish, staging, NeverClosedBusy, QuietOutside, WriterRecords, Idle, IsOpen
  <2>3. CASE Exit
    BY <2>3, GoneDrains DEF Exit
  <2> QED
    BY <1>3, <2>1, <2>2, <2>3 DEF MainThread
<1>4. CASE WriterThread
  <2>1. CASE Take \/ EndJob
    BY <2>1 DEF Take, EndJob, staging, NeverClosedBusy, QuietOutside, WriterRecords, Idle, IsOpen
  <2>2. CASE WriteRaises
    BY <2>2, PoisonDrains DEF WriteRaises
  <2> QED
    BY <1>4, <2>1, <2>2, WriteDrains, EvictDrains DEF WriterThread
<1>5. CASE Publication
  BY <1>5, PublicationDrains
<1>6. CASE CatalogThreads
  BY <1>6, CatalogDrains DEF CatalogThreads
<1>7. CASE Failures
  <2>1. CASE FeedFails
    BY <1>1, <2>1 DEF FeedFails, staging
  <2>2. CASE RenameFails
    BY <2>2, PoisonDrains DEF RenameFails
  <2>3. CASE \E k \in Range(Catalogs) : CatalogFails(k)
    BY <2>3, CatalogDrains
  <2>4. CASE Crash
    BY <2>4, GoneDrains DEF Crash
  <2> QED
    BY <1>7, <2>1, <2>2, <2>3, <2>4 DEF Failures
<1>8. CASE Tidy \/ UNCHANGED vars
  BY <1>1, <1>8 DEF Tidy, vars, staging, thread
<1> QED
  BY <1>2, <1>3, <1>4, <1>5, <1>6, <1>7, <1>8 DEF Next

\* No catalog thread compresses into a writer that was evicted or published under
\* it, for any catalogs, chunks, pool size and any number of runs and failures
\* (drain_catalogs in get_writer, write_catalogs and publish).
THEOREM CompressionIsSafe == Spec => []NeverClosedBusy
<1>1. Drains => NeverClosedBusy
  BY DEF Drains
<1> QED
  BY <1>1, InitDrains, NextDrains, PTL DEF Spec

(***************************************************************************)
(* What a state names, and what a reader of a day finds.                   *)
(***************************************************************************)
AllKeys == Int \X Range(Catalogs)
Names == [key : AllKeys, rev : Nat, part : Nat]
Papers == [name : Names, recs : Seq(Nat)]

ImportTypes ==
    /\ fed \in Nat /\ last \in Nat /\ queue \in Seq(Nat) /\ failure \in BOOLEAN
    /\ todo \subseteq AllKeys /\ busy \in [Range(Catalogs) -> AllKeys \cup {None}]
    /\ DOMAIN writers \subseteq AllKeys
    /\ writers \in [DOMAIN writers -> [name : Names, recs : Seq(Nat), open : BOOLEAN]]
    /\ closed \subseteq Papers /\ outputs \subseteq Papers /\ active \in Seq(AllKeys)
    /\ published \subseteq Names /\ DOMAIN parts \subseteq Names
    /\ parts \in [DOMAIN parts -> Seq(Nat)]
    /\ states \in [DOMAIN states -> [next : Nat, published : SUBSET Names, continued : BOOLEAN]]

\* The queue holds the last chunks fed; a job is under way while its chunk is first.
FlowInv ==
    /\ main = "off" =>
         /\ step = "idle" /\ queue = <<>> /\ ~failure /\ Idle
         /\ DOMAIN writers = {} /\ closed = {} /\ active = <<>> /\ started = {} /\ outputs = {}
    /\ main # "off" => last \in Chunks /\ fed <= last
    /\ Len(queue) <= fed /\ \A i \in 1..Len(queue) : queue[i] = fed - Len(queue) + i
    /\ main = "final" => queue = <<>> /\ fed = last /\ step # "write"
    /\ step # "idle" /\ main # "final" => queue # <<>>
    /\ failure => step = "idle"
    /\ broken # {} => step = "write" \/ failure
    /\ step \in {"save", "mark", "marking"} => outputs = {}
    /\ step = "write" =>
         /\ todo \subseteq Rows[Job]
         /\ \A k \in Range(Catalogs) : busy[k] # None =>
              busy[k] \in Rows[Job] /\ busy[k] \notin todo /\ busy[k][2] = k

Live == main # "off" /\ ~failure /\ broken = {}

\* Each key has at most one open part, the last of those it was given.
WriterInv ==
    /\ \A i, j \in 1..Len(active) : active[i] = active[j] => i = j
    /\ \A i \in 1..Len(active) : IsOpen(active[i])
    /\ \A k \in DOMAIN writers :
         /\ k \in started /\ writers[k].name.key = k
         /\ writers[k].open \/ Staged(k) \in closed
    /\ \A o \in closed :
         LET k == o.name.key
         IN  /\ k \in DOMAIN writers /\ o.name.part <= writers[k].name.part
             /\ writers[k].open => o.name.part < writers[k].name.part

\* The parts the invocation has begun, and with them what the next state will name.
Fresh ==
    IF step \in {"rename", "save", "mark", "marking"} THEN outputs
    ELSE closed \cup {Staged(k) : k \in DOMAIN writers}
OnDisk == {[name |-> p, recs |-> parts[p]] : p \in published}
Shelf == OnDisk \cup Fresh

\* The chunk up to which the records of a key have been written.
Reach == [key \in AllKeys |->
    IF step = "idle" THEN fed - Len(queue)
    ELSE IF step # "write" THEN Snapshot
    ELSE IF key \in todo \/ busy[key[2]] = key THEN Job - 1 ELSE Job]

\* Parts that hold every record up to a chunk, once and in order.
Less(r, s) == \A i \in 1..Len(r), j \in 1..Len(s) : r[i] < s[j]
Good(shelf, reach) ==
    /\ \A o \in shelf :
         /\ Increasing(o.recs)
         /\ \A i \in 1..Len(o.recs) :
              o.recs[i] \in 1..reach[o.name.key] /\ o.name.key \in Rows[o.recs[i]]
    /\ \A o, p \in shelf : o.name.key = p.name.key =>
         /\ o.name.rev = p.name.rev
         /\ o.name.part = p.name.part => o = p
         /\ o.name.part < p.name.part => Less(o.recs, p.recs)
    /\ \A key \in Keys : \A c \in 1..reach[key] : key \in Rows[c] =>
         \E o \in shelf : o.name.key = key /\ \E i \in 1..Len(o.recs) : o.recs[i] = c

\* New parts come after the ones on disk, those no state names included.
FreshInv ==
    /\ \A o \in Fresh : \A p \in PartsOf(o.name.key) :
         /\ Precedes(p, o.name)
         /\ p.rev = o.name.rev =>
              /\ mode # "tail" => p \in published
              /\ o.name.key[2] = "observations" => Less(parts[p], o.recs)

\* What a catalog thread is writing comes after them, too.
BusyInv ==
    step = "write" => \A k \in Range(Catalogs) : busy[k] # None /\ k = "observations" =>
        \A p \in PartsOf(busy[k]) : p.rev = writers[busy[k]].name.rev =>
            \A i \in 1..Len(parts[p]) : parts[p][i] < Job

NamedInv ==
    /\ mode \in {"new", "tail", "rebuild"}
    /\ started \subseteq Keys /\ \A o \in Fresh : o.name.key \in started
    /\ published \subseteq DOMAIN parts /\ \A p \in published : p \in LatestParts(p.key)
    /\ mode = "rebuild" => \A p \in published : p.key \in started
    /\ mode # "tail" => \A key \in started :
         (\E o \in Fresh : o.name.key = key) \/ LatestParts(key) \subseteq published

DiskInv ==
    /\ \A p \in DOMAIN parts :
         /\ \E q \in LatestParts(p.key) : \A r \in LatestParts(p.key) : r.part <= q.part
         /\ Increasing(parts[p]) /\ p.key \in Keys
    /\ \A p, q \in DOMAIN parts :
         p.key = q.key /\ p.key[2] = "observations" /\ p.rev = q.rev /\ p.part < q.part
           => Less(parts[p], parts[q])
    /\ StateHolds

LiveInv == WriterInv /\ Good(Shelf, Reach) /\ FreshInv /\ BusyInv /\ NamedInv

ImportInv ==
    /\ Drains /\ ImportTypes /\ FlowInv /\ DiskInv
    /\ Live => LiveInv

(***************************************************************************)
(* Sequences of chunks, and what they do to a shelf.                       *)
(***************************************************************************)
LEMMA AppendFacts ==
  ASSUME NEW s \in Seq(Nat), NEW x \in Nat
  PROVE  /\ Append(s, x) \in Seq(Nat) /\ Len(s) \in Nat /\ Len(Append(s, x)) = Len(s) + 1
         /\ Append(s, x)[Len(s) + 1] = x /\ \A i \in 1..Len(s) : Append(s, x)[i] = s[i]
OBVIOUS

LEMMA AppendLarger ==
  ASSUME NEW s \in Seq(Nat), NEW x \in Nat, \A i \in 1..Len(s) : s[i] < x
  PROVE  /\ Increasing(s) => Increasing(Append(s, x))
         /\ \A t \in Seq(Nat) : Less(t, s) /\ (\A i \in 1..Len(t) : t[i] < x) => Less(t, Append(s, x))
<1>1. /\ Append(s, x) \in Seq(Nat) /\ Len(s) \in Nat /\ Len(Append(s, x)) = Len(s) + 1
      /\ Append(s, x)[Len(s) + 1] = x /\ \A i \in 1..Len(s) : Append(s, x)[i] = s[i]
  BY AppendFacts
<1>2. \A i \in 1..Len(Append(s, x)) : i \in 1..Len(s) \/ i = Len(s) + 1
  BY <1>1
<1>3. ASSUME Increasing(s) PROVE Increasing(Append(s, x))
  <2> SUFFICES ASSUME NEW i \in 1..Len(Append(s, x)), NEW j \in 1..Len(Append(s, x)), i < j
               PROVE  Append(s, x)[i] < Append(s, x)[j]
    BY DEF Increasing
  <2>1. i \in 1..Len(s)
    BY <1>1
  <2>2. CASE j \in 1..Len(s)
    BY <1>1, <1>3, <2>1, <2>2 DEF Increasing
  <2>3. CASE j = Len(s) + 1
    BY <1>1, <2>1, <2>3
  <2> QED
    BY <1>2, <2>2, <2>3
<1>4. ASSUME NEW t \in Seq(Nat), Less(t, s), \A i \in 1..Len(t) : t[i] < x PROVE Less(t, Append(s, x))
  BY <1>1, <1>2, <1>4 DEF Less
<1> QED
  BY <1>3, <1>4

LEMMA EmptyParts == ASSUME NEW t PROVE Increasing(<<>>) /\ Less(t, <<>>) /\ Less(<<>>, t) /\ <<>> \in Seq(Nat)
BY DEF Increasing, Less

LEMMA KeysTyped == Keys \subseteq AllKeys /\ \A c \in Chunks : Rows[c] \subseteq AllKeys /\ Rows[c] \subseteq Keys
BY ImportAssumption DEF Keys, AllKeys, Chunks

\* New parts, still empty, behind those of the same key.
LEMMA GoodNew ==
  ASSUME NEW S \in SUBSET Papers, NEW T \in SUBSET Papers, NEW r, Good(S, r),
         \A o \in T : o.recs = <<>>,
         \A o \in T, p \in S : o.name.key = p.name.key => o.name.rev = p.name.rev /\ p.name.part < o.name.part,
         \A o, p \in T : o.name.key = p.name.key => o = p
  PROVE  Good(S \cup T, r)
<1>t. \A o \in S \cup T : o.name.part \in Nat
  BY DEF Papers, Names
<1>1. ASSUME NEW o \in S \cup T
      PROVE  /\ Increasing(o.recs)
             /\ \A i \in 1..Len(o.recs) : o.recs[i] \in 1..r[o.name.key] /\ o.name.key \in Rows[o.recs[i]]
  <2>1. CASE o \in S
    BY <2>1 DEF Good
  <2>2. CASE o \in T
    <3>1. o.recs = <<>>
      BY <2>2
    <3> QED
      BY <3>1, EmptyParts
  <2> QED
    BY <2>1, <2>2
<1>2. ASSUME NEW o \in S \cup T, NEW p \in S \cup T, o.name.key = p.name.key
      PROVE  /\ o.name.rev = p.name.rev
             /\ o.name.part = p.name.part => o = p
             /\ o.name.part < p.name.part => Less(o.recs, p.recs)
  <2>1. CASE o \in S /\ p \in S
    BY <1>2, <2>1 DEF Good
  <2>2. CASE o \in T /\ p \in S
    <3>1. o.name.rev = p.name.rev /\ p.name.part < o.name.part /\ o.recs = <<>>
      BY <1>2, <2>2
    <3> QED
      BY <1>t, <3>1
  <2>3. CASE o \in S /\ p \in T
    <3>1. o.name.rev = p.name.rev /\ o.name.part < p.name.part /\ p.recs = <<>>
      BY <1>2, <2>3
    <3> QED
      BY <1>t, <3>1, EmptyParts
  <2>4. CASE o \in T /\ p \in T
    <3>1. o = p
      BY <1>2, <2>4
    <3> QED
      BY <1>t, <3>1
  <2> QED
    BY <2>1, <2>2, <2>3, <2>4
<1>3. ASSUME NEW key \in Keys, NEW c \in 1..r[key], key \in Rows[c]
      PROVE  \E o \in S \cup T : o.name.key = key /\ \E i \in 1..Len(o.recs) : o.recs[i] = c
  BY <1>3 DEF Good
<1> QED
  BY <1>1, <1>2, <1>3 DEF Good

\* Chunks without records of a key.
LEMMA GoodReach ==
  ASSUME NEW S \in SUBSET Papers, NEW r \in [AllKeys -> Int], NEW q \in [AllKeys -> Int], Good(S, r),
         \A key \in AllKeys : r[key] <= q[key] /\ \A c \in 1..q[key] : key \in Rows[c] => c <= r[key]
  PROVE  Good(S, q)
<1>1. ASSUME NEW o \in S
      PROVE  /\ Increasing(o.recs)
             /\ \A i \in 1..Len(o.recs) : o.recs[i] \in 1..q[o.name.key] /\ o.name.key \in Rows[o.recs[i]]
  <2>1. o.name.key \in AllKeys
    BY DEF Papers, Names
  <2>2. 1..r[o.name.key] \subseteq 1..q[o.name.key]
    BY <2>1
  <2> QED
    BY <2>2 DEF Good
<1>2. ASSUME NEW key \in Keys, NEW c \in 1..q[key], key \in Rows[c]
      PROVE  \E o \in S : o.name.key = key /\ \E i \in 1..Len(o.recs) : o.recs[i] = c
  <2>1. key \in AllKeys /\ c \in 1..r[key]
    BY <1>2, KeysTyped
  <2> QED
    BY <1>2, <2>1 DEF Good
<1> QED
  BY <1>1, <1>2 DEF Good

\* A chunk is appended to the last part of its key.
LEMMA GoodFill ==
  ASSUME NEW S \in SUBSET Papers, NEW r \in [AllKeys -> Int], NEW q \in [AllKeys -> Int], Good(S, r),
         NEW o \in S, NEW n \in Papers, NEW c \in Nat \ {0},
         n.name = o.name, n.recs = Append(o.recs, c), o.name.key \in Rows[c],
         c = r[o.name.key] + 1, q = [r EXCEPT ![o.name.key] = c],
         \A p \in S : p.name.key = o.name.key => p.name.part <= o.name.part
  PROVE  Good((S \ {o}) \cup {n}, q)
<1> DEFINE k == o.name.key
<1>1. /\ k \in AllKeys /\ n.name.key = k /\ o.recs \in Seq(Nat) /\ q[k] = c /\ r[k] = c - 1
      /\ \A key \in AllKeys : key # k => q[key] = r[key]
      /\ \A p \in S : p.name.key \in AllKeys /\ p.name.part \in Nat /\ p.recs \in Seq(Nat)
  <2>1. \A p \in Papers : p.name.key \in AllKeys /\ p.name.part \in Nat /\ p.recs \in Seq(Nat)
    BY DEF Papers, Names
  <2>2. k \in AllKeys /\ r[k] \in Int
    BY <2>1
  <2> QED
    BY <2>1, <2>2
<1>2. \A p \in S : p.name.key = k => \A i \in 1..Len(p.recs) : p.recs[i] < c
  <2> SUFFICES ASSUME NEW p \in S, p.name.key = k, NEW i \in 1..Len(p.recs) PROVE p.recs[i] < c
    OBVIOUS
  <2>1. p.recs[i] \in 1..r[k]
    BY DEF Good
  <2> QED
    BY <1>1, <2>1
<1>3. /\ Len(o.recs) \in Nat /\ Len(n.recs) = Len(o.recs) + 1 /\ n.recs[Len(o.recs) + 1] = c
      /\ \A i \in 1..Len(o.recs) : n.recs[i] = o.recs[i]
  BY <1>1, AppendFacts
<1>4. ASSUME NEW p \in (S \ {o}) \cup {n}
      PROVE  /\ Increasing(p.recs)
             /\ \A i \in 1..Len(p.recs) : p.recs[i] \in 1..q[p.name.key] /\ p.name.key \in Rows[p.recs[i]]
  <2>1. CASE p \in S
    <3>1. 1..r[p.name.key] \subseteq 1..q[p.name.key]
      <4>1. p.name.key \in AllKeys
        BY <1>1, <2>1
      <4> QED
        BY <1>1, <4>1
    <3> QED
      BY <2>1, <3>1 DEF Good
  <2>2. CASE p = n
    <3>1. Increasing(n.recs)
      <4>1. \A i \in 1..Len(o.recs) : o.recs[i] < c
        BY <1>2
      <4>2. Increasing(o.recs)
        BY DEF Good
      <4> QED
        <5> DEFINE s == o.recs
        <5>1. s \in Seq(Nat) /\ c \in Nat /\ n.recs = Append(s, c)
          BY <1>1
        <5> QED
          BY <4>1, <4>2, <5>1, AppendLarger
    <3>2. ASSUME NEW i \in 1..Len(n.recs) PROVE n.recs[i] \in 1..c /\ k \in Rows[n.recs[i]]
      <4>1. CASE i \in 1..Len(o.recs)
        <5>1. o.recs[i] \in 1..r[k] /\ k \in Rows[o.recs[i]]
          BY <4>1 DEF Good
        <5> QED
          BY <1>1, <1>3, <4>1, <5>1
      <4>2. CASE i = Len(o.recs) + 1
        BY <1>3, <4>2
      <4> QED
        BY <1>3, <4>1, <4>2
    <3> QED
      BY <1>1, <2>2, <3>1, <3>2
  <2> QED
    BY <2>1, <2>2
<1>5. ASSUME NEW p \in S \ {o}, p.name.key = k
      PROVE  p.name.rev = n.name.rev /\ p.name.part < n.name.part /\ Less(p.recs, n.recs)
  <2>1. p.name.rev = o.name.rev /\ p.name.part < o.name.part /\ Less(p.recs, o.recs)
    <3>1. /\ p.name.rev = o.name.rev /\ p.name.part # o.name.part
          /\ p.name.part < o.name.part => Less(p.recs, o.recs)
      BY <1>5 DEF Good
    <3>2. p.name.part <= o.name.part /\ p.name.part \in Nat /\ o.name.part \in Nat
      BY <1>1, <1>5
    <3> QED
      BY <3>1, <3>2
  <2>2. \A i \in 1..Len(p.recs) : p.recs[i] < c
    BY <1>2, <1>5
  <2>3. \A i \in 1..Len(o.recs) : o.recs[i] < c
    BY <1>2
  <2> DEFINE s == o.recs
             t == p.recs
  <2>4. s \in Seq(Nat) /\ t \in Seq(Nat) /\ c \in Nat
    BY <1>1
  <2>5. Less(t, Append(s, c))
    BY <2>1, <2>2, <2>3, <2>4, AppendLarger
  <2> QED
    BY <2>1, <2>5
<1>6. ASSUME NEW x \in (S \ {o}) \cup {n}, NEW y \in (S \ {o}) \cup {n}, x.name.key = y.name.key
      PROVE  /\ x.name.rev = y.name.rev
             /\ x.name.part = y.name.part => x = y
             /\ x.name.part < y.name.part => Less(x.recs, y.recs)
  <2>1. CASE x \in S \ {o} /\ y \in S \ {o}
    BY <1>6, <2>1 DEF Good
  <2>2. CASE x \in S \ {o} /\ y = n
    <3>1. x.name.rev = y.name.rev /\ x.name.part < y.name.part /\ Less(x.recs, y.recs)
      BY <1>1, <1>5, <1>6, <2>2
    <3>2. x.name.part \in Nat /\ y.name.part \in Nat
      BY <1>1, <2>2
    <3> QED
      BY <3>1, <3>2
  <2>3. CASE x = n /\ y \in S \ {o}
    <3>1. y.name.rev = n.name.rev /\ y.name.part < n.name.part
      BY <1>1, <1>5, <1>6, <2>3
    <3>2. y.name.part \in Nat /\ n.name.part \in Nat
      BY <1>1, <2>3
    <3> QED
      BY <2>3, <3>1, <3>2
  <2>4. CASE x = n /\ y = n
    <3>1. n.name.part \in Nat
      BY <1>1
    <3> QED
      BY <2>4, <3>1
  <2> QED
    BY <2>1, <2>2, <2>3, <2>4
<1>7. ASSUME NEW key \in Keys, NEW d \in 1..q[key], key \in Rows[d]
      PROVE  \E x \in (S \ {o}) \cup {n} : x.name.key = key /\ \E i \in 1..Len(x.recs) : x.recs[i] = d
  <2>1. CASE key = k /\ d = c
    <3>1. Len(n.recs) \in 1..Len(n.recs) /\ n.recs[Len(n.recs)] = c
      BY <1>3
    <3> QED
      BY <1>1, <2>1, <3>1
  <2>2. CASE key # k \/ d # c
    <3>1. d \in 1..r[key] /\ key \in AllKeys
      <4>1. key \in AllKeys
        BY KeysTyped
      <4> QED
        BY <1>1, <1>7, <2>2, <4>1
    <3>2. PICK x \in S : x.name.key = key /\ \E i \in 1..Len(x.recs) : x.recs[i] = d
      BY <1>7, <3>1 DEF Good
    <3>3. CASE x # o
      BY <3>2, <3>3
    <3>4. CASE x = o
      <4>1. PICK i \in 1..Len(o.recs) : o.recs[i] = d
        BY <3>2, <3>4
      <4>2. i \in 1..Len(n.recs) /\ n.recs[i] = d
        BY <1>3, <4>1
      <4> QED
        BY <1>1, <3>2, <3>4, <4>2
    <3> QED
      BY <3>3, <3>4
  <2> QED
    BY <2>1, <2>2
<1> QED
  BY <1>4, <1>6, <1>7 DEF Good

(***************************************************************************)
(* Names.                                                                  *)
(***************************************************************************)
LEMMA MaxIs ==
  ASSUME NEW S \in SUBSET Nat, NEW m \in S, \A x \in S : x <= m PROVE Max(S) = m
<1>1. \E x \in S : \A y \in S : x >= y
  OBVIOUS
<1>2. Max(S) \in S /\ \A y \in S : Max(S) >= y
  BY <1>1 DEF Max
<1>3. Max(S) \in Nat /\ m \in Nat /\ Max(S) >= m /\ Max(S) <= m
  BY <1>2
<1> QED
  BY <1>3

LEMMA NameTyped ==
  ASSUME NEW key \in AllKeys, NEW rev \in Nat, NEW part \in Nat
  PROVE  /\ Name(key, rev, part) \in Names
         /\ Name(key, rev, part).key = key /\ Name(key, rev, part).rev = rev /\ Name(key, rev, part).part = part
BY DEF Name, Names

LEMMA NamesFields == ASSUME NEW n \in Names PROVE n.key \in AllKeys /\ n.rev \in Nat /\ n.part \in Nat
BY DEF Names

\* The next name of a key lies behind all its parts; unless the day is rebuilt it
\* continues those of the highest revision.
LEMMA NextNamed ==
  ASSUME ImportTypes, DiskInv, NEW key \in AllKeys, NEW how
  PROVE  /\ NextName(key, how) \in Names /\ NextName(key, how).key = key
         /\ \A p \in PartsOf(key) : Precedes(p, NextName(key, how))
         /\ \A p \in PartsOf(key) : p.rev = NextName(key, how).rev => p \in LatestParts(key)
         /\ how # "rebuild" => \A p \in LatestParts(key) : p.rev = NextName(key, how).rev
         /\ how = "rebuild" => NextName(key, how).part = 0
<1> DEFINE n == NextName(key, how)
<1>1. \A p \in PartsOf(key) : p \in Names /\ p.key = key /\ p.rev \in Nat /\ p.part \in Nat /\ p \in DOMAIN parts
  BY NamesFields DEF ImportTypes, PartsOf
<1>2. CASE PartsOf(key) = {}
  <2>1. n = Name(key, 0, 0)
    BY <1>2 DEF NextName
  <2> QED
    BY <1>2, <2>1, NameTyped DEF LatestParts
<1>3. CASE PartsOf(key) # {}
  <2>1. PICK last_ \in LatestParts(key) : \A p \in LatestParts(key) : p.part <= last_.part
    BY <1>1, <1>3 DEF DiskInv
  <2>2. last_ \in PartsOf(key) /\ \A p \in PartsOf(key) : p.rev <= last_.rev
    BY DEF LatestParts
  <2>3. \A p \in LatestParts(key) : p \in PartsOf(key) /\ p.rev = last_.rev
    <3>1. \A p \in LatestParts(key) : p \in PartsOf(key) /\ last_.rev <= p.rev
      BY <2>2 DEF LatestParts
    <3> QED
      BY <1>1, <2>2, <3>1
  <2>4. \A p \in PartsOf(key) : p.rev = last_.rev => p \in LatestParts(key)
    BY <2>2 DEF LatestParts
  <2>5. Max({p.rev : p \in LatestParts(key)}) = last_.rev
    BY <1>1, <2>3, MaxIs
  <2>6. Max({p.part : p \in LatestParts(key)}) = last_.part
    BY <1>1, <2>1, <2>3, MaxIs
  <2>7. last_.rev \in Nat /\ last_.part \in Nat
    BY <1>1, <2>2
  <2>8. CASE how = "rebuild"
    <3>1. n = Name(key, last_.rev + 1, 0)
      BY <1>3, <2>5, <2>8 DEF NextName
    <3>2. n \in Names /\ n.key = key /\ n.rev = last_.rev + 1 /\ n.part = 0
      BY <2>7, <3>1, NameTyped
    <3>3. \A p \in PartsOf(key) : p.key = n.key /\ p.rev < n.rev
      BY <1>1, <2>2, <2>7, <3>2
    <3> QED
      BY <1>1, <2>7, <2>8, <3>2, <3>3 DEF Precedes
  <2>9. CASE how # "rebuild"
    <3>1. n = Name(key, last_.rev, 1 + last_.part)
      BY <1>3, <2>5, <2>6, <2>9 DEF NextName
    <3>2. n \in Names /\ n.key = key /\ n.rev = last_.rev /\ n.part = last_.part + 1
      BY <2>7, <3>1, NameTyped
    <3>3. \A p \in PartsOf(key) : Precedes(p, n)
      <4> SUFFICES ASSUME NEW p \in PartsOf(key) PROVE Precedes(p, n)
        OBVIOUS
      <4>1. p.key = n.key /\ p.rev <= n.rev /\ p.rev \in Nat /\ p.part \in Nat
        BY <1>1, <2>2, <3>2
      <4>2. p.rev = n.rev => p.part <= last_.part
        BY <2>1, <2>4, <3>2
      <4> QED
        BY <2>7, <3>2, <4>1, <4>2 DEF Precedes
    <3> QED
      BY <2>3, <2>4, <2>9, <3>2, <3>3
  <2> QED
    BY <2>8, <2>9
<1> QED
  BY <1>2, <1>3

(***************************************************************************)
(* Types.                                                                  *)
(***************************************************************************)
LEMMA EmptyFunction == ASSUME NEW f, f = <<>>, NEW S PROVE DOMAIN f = {} /\ f \in [DOMAIN f -> S]
<1>1. DOMAIN f = {}
  OBVIOUS
<1>2. f = [x \in DOMAIN f |-> f[x]]
  OBVIOUS
<1> QED
  BY <1>1, <1>2

LEMMA QueueTail == ASSUME NEW s \in Seq(Nat) PROVE s # <<>> => Tail(s) \in Seq(Nat)
OBVIOUS

LEMMA PoisonTypes == ASSUME ImportTypes, Poison, queue # <<>> \/ main = "final" PROVE ImportTypes'
<1>1. queue' \in Seq(Nat)
  BY QueueTail DEF Poison, ImportTypes
<1> QED
  BY <1>1 DEF Poison, ImportTypes, disk, publication

LEMMA GoneTypes == ASSUME ImportTypes, Gone, UNCHANGED disk PROVE ImportTypes'
<1>1. DOMAIN writers' = {} /\ writers' \in [DOMAIN writers' -> [name : Names, recs : Seq(Nat), open : BOOLEAN]]
  BY EmptyFunction DEF Gone
<1>2. busy' \in [Range(Catalogs) -> AllKeys \cup {None}]
  BY DEF Gone, NoWrites
<1>3. fed' \in Nat /\ last' \in Nat /\ queue' \in Seq(Nat) /\ failure' \in BOOLEAN /\ todo' \subseteq AllKeys
  <2>1. fed' = 0 /\ last' = 0 /\ queue' = <<>> /\ todo' = {}
    BY DEF Gone
  <2>2. failure' \in BOOLEAN
    BY Zenon DEF Gone
  <2> QED
    BY <2>1, <2>2
<1>4. closed' \subseteq Papers /\ outputs' \subseteq Papers /\ active' \in Seq(AllKeys) /\ published' \subseteq Names
  BY DEF Gone
<1> QED
  BY <1>1, <1>2, <1>3, <1>4 DEF ImportTypes, disk

LEMMA PublishedTypes == ASSUME ImportTypes, Published, queue # <<>> \/ main = "final"
  PROVE  /\ DOMAIN writers' = {} /\ writers' \in [DOMAIN writers' -> [name : Names, recs : Seq(Nat), open : BOOLEAN]]
         /\ queue' \in Seq(Nat) /\ closed' = {} /\ active' = <<>>
         /\ UNCHANGED <<busy, broken, started, todo, outputs, published>>
<1>1. queue' \in Seq(Nat)
  BY QueueTail DEF Published, ImportTypes
<1>2. writers' = <<>>
  BY DEF Published, Cleared
<1>3. DOMAIN writers' = {} /\ writers' \in [DOMAIN writers' -> [name : Names, recs : Seq(Nat), open : BOOLEAN]]
  BY <1>2, EmptyFunction
<1> QED
  BY <1>1, <1>3 DEF Published, Cleared

LEMMA JobFacts ==
  ASSUME ImportTypes, FlowInv, queue # <<>>
  PROVE  /\ Job = fed - Len(queue) + 1 /\ Job \in Nat \ {0} /\ Job <= fed /\ Len(queue) \in Nat \ {0}
         /\ Tail(queue) \in Seq(Nat) /\ Len(Tail(queue)) = Len(queue) - 1
         /\ \A i \in 1..Len(Tail(queue)) : Tail(queue)[i] = queue[i + 1] /\ i + 1 \in 1..Len(queue)
         /\ main # "off" /\ Job \in Chunks /\ Rows[Job] \subseteq AllKeys /\ Rows[Job] \subseteq Keys
<1>1. /\ queue \in Seq(Nat) /\ fed \in Nat /\ Len(queue) <= fed /\ Len(queue) \in Nat \ {0}
      /\ \A i \in 1..Len(queue) : queue[i] = fed - Len(queue) + i
  BY DEF ImportTypes, FlowInv
<1>2. main # "off" /\ last \in Chunks /\ fed <= last
  BY DEF FlowInv
<1>3. Chunks = 1..Len(Rows) /\ Len(Rows) \in Nat
  BY ImportAssumption DEF Chunks
<1>4. 1 \in 1..Len(queue) /\ Job = queue[1]
  BY <1>1 DEF Job
<1>5. Job = fed - Len(queue) + 1 /\ Job \in Nat \ {0} /\ Job <= fed
  BY <1>1, <1>4
<1>6. Job \in Chunks
  BY <1>1, <1>2, <1>3, <1>5
<1>7. /\ Tail(queue) \in Seq(Nat) /\ Len(Tail(queue)) = Len(queue) - 1
      /\ \A i \in 1..Len(Tail(queue)) : Tail(queue)[i] = queue[i + 1] /\ i + 1 \in 1..Len(queue)
  BY <1>1
<1> QED
  BY <1>1, <1>2, <1>5, <1>6, <1>7, KeysTyped

\* The name of a part that is opened.
LEMMA NamedTyped ==
  ASSUME ImportTypes, DiskInv, NEW key \in AllKeys
  PROVE  Named(key) \in Names
<1>1. CASE key \in DOMAIN writers
  <2>1. writers[key].name \in Names
    BY <1>1 DEF ImportTypes
  <2>2. Named(key) = [writers[key].name EXCEPT !.part = @ + 1]
    BY <1>1 DEF Named
  <2> QED
    BY <2>1, <2>2 DEF Names
<1>2. CASE key \notin DOMAIN writers
  BY <1>2, NextNamed DEF Named
<1> QED
  BY <1>1, <1>2

LEMMA StagedTyped == ASSUME ImportTypes, NEW k \in DOMAIN writers PROVE Staged(k) \in Papers
<1>1. writers[k] \in [name : Names, recs : Seq(Nat), open : BOOLEAN]
  BY DEF ImportTypes
<1> QED
  BY <1>1 DEF Staged, Papers

LEMMA OpenedTyped ==
  ASSUME ImportTypes, DiskInv, NEW key \in AllKeys
  PROVE  /\ DOMAIN Opened(key) = DOMAIN writers \cup {key}
         /\ Opened(key) \in [DOMAIN Opened(key) -> [name : Names, recs : Seq(Nat), open : BOOLEAN]]
         /\ Opened(key)[key] = [name |-> Named(key), recs |-> <<>>, open |-> TRUE]
         /\ \A k \in DOMAIN writers : k # key => Opened(key)[k] = writers[k]
<1>1. [name |-> Named(key), recs |-> <<>>, open |-> TRUE] \in [name : Names, recs : Seq(Nat), open : BOOLEAN]
  BY NamedTyped, EmptyParts
<1> QED
  BY <1>1 DEF Opened, ImportTypes

\* The least recently used writers, and the one used now.
LEMMA RecentFacts ==
  ASSUME ImportTypes, \A i, j \in 1..Len(active) : active[i] = active[j] => i = j, NEW key \in AllKeys
  PROVE  /\ Recent(key) \in Seq(AllKeys)
         /\ \A i \in 1..Len(Recent(key)) : Recent(key)[i] = key \/ \E j \in 1..Len(active) : Recent(key)[i] = active[j]
         /\ \A i, j \in 1..Len(Recent(key)) : Recent(key)[i] = Recent(key)[j] => i = j
<1>1. active \in Seq(AllKeys) /\ Len(active) \in Nat /\ DOMAIN active = 1..Len(active)
  BY DEF ImportTypes
<1>2. ASSUME NEW s \in Seq(AllKeys), \A i \in 1..Len(s) : s[i] # key /\ \E j \in 1..Len(active) : s[i] = active[j],
             \A i, j \in 1..Len(s) : s[i] = s[j] => i = j, Recent(key) = Append(s, key)
      PROVE  /\ Recent(key) \in Seq(AllKeys)
             /\ \A i \in 1..Len(Recent(key)) : Recent(key)[i] = key \/ \E j \in 1..Len(active) : Recent(key)[i] = active[j]
             /\ \A i, j \in 1..Len(Recent(key)) : Recent(key)[i] = Recent(key)[j] => i = j
  <2>1. /\ Len(s) \in Nat /\ Len(Append(s, key)) = Len(s) + 1 /\ Append(s, key)[Len(s) + 1] = key
        /\ \A i \in 1..Len(s) : Append(s, key)[i] = s[i] /\ Append(s, key) \in Seq(AllKeys)
        /\ Append(s, key) \in Seq(AllKeys)
    OBVIOUS
  <2>2. \A i \in 1..Len(Append(s, key)) : i \in 1..Len(s) \/ i = Len(s) + 1
    BY <2>1
  <2>3. \A i, j \in 1..Len(Append(s, key)) : Append(s, key)[i] = Append(s, key)[j] => i = j
    BY <1>2, <2>1, <2>2
  <2> QED
    BY <1>2, <2>1, <2>2, <2>3
<1>3. CASE key \notin Range(active)
  <2>1. \A i \in 1..Len(active) : active[i] # key
    BY <1>1, <1>3 DEF Range
  <2>2. Recent(key) = Append(active, key)
    BY <1>3 DEF Recent
  <2> QED
    BY <1>1, <1>2, <2>1, <2>2
<1>4. CASE key \in Range(active)
  <2> DEFINE at == CHOOSE i \in DOMAIN active : active[i] = key
             s == [i \in 1..Len(active) - 1 |-> active[IF i < at THEN i ELSE i + 1]]
  <2>1. at \in 1..Len(active) /\ active[at] = key
    BY <1>1, <1>4 DEF Range
  <2>2. Recent(key) = Append(s, key)
    BY <1>4 DEF Recent
  <2> HIDE DEF at
  <2>3. Len(active) - 1 \in Nat /\ at \in Nat
    BY <1>1, <2>1
  <2>4. \A i \in 1..Len(active) - 1 : (IF i < at THEN i ELSE i + 1) \in 1..Len(active)
    BY <1>1, <2>1
  <2>5. s \in Seq(AllKeys) /\ Len(s) = Len(active) - 1
    BY <1>1, <2>3, <2>4
  <2>6. \A i \in 1..Len(s) : s[i] = active[IF i < at THEN i ELSE i + 1]
    BY <2>5
  <2>7. ASSUME NEW i \in 1..Len(s), NEW j \in 1..Len(s), s[i] = s[j] PROVE i = j
    <3>1. (IF i < at THEN i ELSE i + 1) = (IF j < at THEN j ELSE j + 1)
      BY <2>4, <2>5, <2>6, <2>7
    <3> QED
      BY <2>3, <2>5, <3>1
  <2>8. ASSUME NEW i \in 1..Len(s) PROVE s[i] # key
    <3>1. (IF i < at THEN i ELSE i + 1) # at
      BY <2>3, <2>5
    <3> QED
      BY <2>1, <2>4, <2>5, <2>6, <3>1
  <2>9. \A i \in 1..Len(s) : \E j \in 1..Len(active) : s[i] = active[j]
    BY <2>4, <2>5, <2>6
  <2> HIDE DEF s
  <2> QED
    BY <1>2, <2>2, <2>5, <2>7, <2>8, <2>9
<1> QED
  BY <1>3, <1>4

LEMMA ChunkTyped == \A c \in Chunks : c \in Nat \ {0}
BY ImportAssumption DEF Chunks

LEMMA BeginTypes == ASSUME ImportTypes, Begin \/ Resume PROVE ImportTypes'
<1>1. /\ UNCHANGED <<disk, queue, failure, staging, outputs>> /\ last' \in Chunks /\ fed' \in Nat
      /\ published' \subseteq Names
  BY ChunkTyped DEF Begin, Resume, Launch, ImportTypes
<1>2. last' \in Nat
  BY <1>1, ChunkTyped
<1> QED
  BY <1>1, <1>2 DEF ImportTypes, disk, staging

LEMMA MainTypes == ASSUME ImportTypes, MainThread PROVE ImportTypes'
<1>1. CASE Feed
  <2>1. fed' \in Nat /\ queue' \in Seq(Nat)
    BY <1>1 DEF Feed, ImportTypes
  <2> QED
    BY <1>1, <2>1 DEF Feed, ImportTypes, disk, staging, publication
<1>2. CASE Notice
  BY <1>2 DEF Notice, ImportTypes, disk, staging, publication
<1>3. CASE Finish
  BY <1>3 DEF Finish, ImportTypes, disk, staging, publication
<1>4. CASE Exit
  BY <1>4, GoneTypes DEF Exit
<1> QED
  BY <1>1, <1>2, <1>3, <1>4 DEF MainThread

LEMMA WriteTypes == ASSUME ImportInv, NEW key \in todo, Write(key) PROVE ImportTypes'
<1>1. ImportTypes /\ FlowInv /\ DiskInv /\ key \in AllKeys /\ step = "write"
  BY DEF ImportInv, ImportTypes, Write, Writable
<1>2. main # "final" /\ queue # <<>> /\ key \in Rows[Job] /\ key[2] \in Range(Catalogs)
  BY <1>1 DEF FlowInv, AllKeys
<1>3. busy' \in [Range(Catalogs) -> AllKeys \cup {None}] /\ todo' \subseteq AllKeys
  BY <1>1, <1>2 DEF ImportTypes, Write, Submit
<1>4. DOMAIN writers' \subseteq AllKeys /\ writers' \in [DOMAIN writers' -> [name : Names, recs : Seq(Nat), open : BOOLEAN]]
  <2>1. CASE IsOpen(key)
    BY <1>1, <2>1 DEF ImportTypes, Write
  <2>2. CASE ~IsOpen(key)
    <3>1. writers' = Opened(key) /\ DOMAIN writers \subseteq AllKeys
      BY <1>1, <2>2 DEF ImportTypes, Write
    <3>2. /\ DOMAIN Opened(key) = DOMAIN writers \cup {key}
          /\ Opened(key) \in [DOMAIN Opened(key) -> [name : Names, recs : Seq(Nat), open : BOOLEAN]]
      BY <1>1, OpenedTyped
    <3> QED
      BY <1>1, <3>1, <3>2
  <2> QED
    BY <2>1, <2>2
<1>5. active' \in Seq(AllKeys)
  <2>1. active' = Recent(key)
    BY DEF Write, Submit
  <2>2. DOMAIN active = 1..Len(active) /\ Len(active) \in Nat
    BY <1>1 DEF ImportTypes
  <2>3. CASE key \in Range(active)
    <3> DEFINE at == CHOOSE i \in DOMAIN active : active[i] = key
    <3>1. at \in 1..Len(active)
      BY <2>2, <2>3 DEF Range
    <3>2. Recent(key) = Append([i \in 1..Len(active) - 1 |-> active[IF i < at THEN i ELSE i + 1]], key)
      BY <2>3 DEF Recent
    <3> HIDE DEF at
    <3>3. \A i \in 1..Len(active) - 1 : (IF i < at THEN i ELSE i + 1) \in 1..Len(active)
      BY <2>2, <3>1
    <3>4. Len(active) - 1 \in Nat
      BY <2>2, <3>1
    <3>5. [i \in 1..Len(active) - 1 |-> active[IF i < at THEN i ELSE i + 1]] \in Seq(AllKeys)
      BY <1>1, <3>3, <3>4 DEF ImportTypes
    <3> QED
      BY <1>1, <2>1, <3>2, <3>5
  <2>4. CASE key \notin Range(active)
    BY <1>1, <2>1, <2>4 DEF Recent, ImportTypes
  <2> QED
    BY <2>3, <2>4
<1> QED
  BY <1>1, <1>3, <1>4, <1>5 DEF Write, ImportTypes, disk, thread, publication, Submit

LEMMA FirstUsed ==
  ASSUME ImportTypes, NEW key, MustEvict(key)
  PROVE  /\ 1 \in 1..Len(active) /\ active[1] \in AllKeys /\ Tail(active) \in Seq(AllKeys)
         /\ Len(Tail(active)) = Len(active) - 1 /\ Len(active) \in Nat
         /\ \A i \in 1..Len(Tail(active)) : Tail(active)[i] = active[i + 1] /\ i + 1 \in 1..Len(active)
<1>1. active \in Seq(AllKeys) /\ Len(active) \in Nat /\ Len(active) >= 1
  BY ImportAssumption DEF MustEvict, ImportTypes
<1> QED
  BY <1>1

LEMMA EvictLive == ASSUME ImportInv, NEW key, Evict(key) PROVE Live /\ LiveInv /\ step = "write"
BY DEF Evict, Writable, Drained, ImportInv, FlowInv, Live

LEMMA EvictTypes == ASSUME ImportInv, NEW key, Evict(key) PROVE ImportTypes'
<1>0. ImportTypes /\ WriterInv
  BY EvictLive DEF ImportInv, LiveInv
<1>1. /\ MustEvict(key) /\ closed' = closed \cup {Staged(active[1])} /\ active' = Tail(active)
      /\ writers' = [writers EXCEPT ![active[1]].open = FALSE]
      /\ UNCHANGED <<disk, thread, step, todo, busy, broken, started, publication, budget>>
  BY DEF Evict
<1>2. active' \in Seq(AllKeys) /\ active[1] \in DOMAIN writers
  BY <1>0, <1>1, FirstUsed DEF WriterInv, IsOpen
<1>3. Staged(active[1]) \in Papers
  BY <1>0, <1>2, StagedTyped
<1>4. DOMAIN writers' = DOMAIN writers /\ writers' \in [DOMAIN writers -> [name : Names, recs : Seq(Nat), open : BOOLEAN]]
  <2>1. writers[active[1]] \in [name : Names, recs : Seq(Nat), open : BOOLEAN]
    BY <1>0, <1>2 DEF ImportTypes
  <2>2. [writers[active[1]] EXCEPT !.open = FALSE] \in [name : Names, recs : Seq(Nat), open : BOOLEAN]
    BY <2>1
  <2> QED
    BY <1>0, <1>1, <2>2 DEF ImportTypes
<1> QED
  BY <1>0, <1>1, <1>2, <1>3, <1>4 DEF ImportTypes, disk, thread, publication

LEMMA CatalogTypes ==
  ASSUME ImportInv, NEW k \in Range(Catalogs), CatalogDone(k) \/ CatalogFails(k)
  PROVE  ImportTypes'
<1>1. /\ busy' = [busy EXCEPT ![k] = None] /\ busy[k] # None
      /\ UNCHANGED <<disk, thread, step, todo, closed, active, started, publication>>
      /\ \/ writers' = writers
         \/ step = "write" /\ writers' = [writers EXCEPT ![busy[k]].recs = Append(@, Job)]
  BY DEF CatalogDone, CatalogFails
<1>2. ImportTypes /\ FlowInv
  BY DEF ImportInv
<1>3. busy' \in [Range(Catalogs) -> AllKeys \cup {None}]
  BY <1>1, <1>2 DEF ImportTypes
<1>4. DOMAIN writers' = DOMAIN writers /\ writers' \in [DOMAIN writers -> [name : Names, recs : Seq(Nat), open : BOOLEAN]]
  <2>1. CASE writers' = writers
    BY <1>2, <2>1 DEF ImportTypes
  <2>2. CASE step = "write" /\ writers' = [writers EXCEPT ![busy[k]].recs = Append(@, Job)]
    <3>1. busy[k] \in DOMAIN writers
      BY <1>1 DEF ImportInv, Drains, NeverClosedBusy, IsOpen, ImportTypes
    <3>2. writers[busy[k]] \in [name : Names, recs : Seq(Nat), open : BOOLEAN]
      BY <1>2, <3>1 DEF ImportTypes
    <3>3. Job \in Nat
      BY <1>2, <2>2, JobFacts DEF FlowInv
    <3>4. Append(writers[busy[k]].recs, Job) \in Seq(Nat)
      BY <3>2, <3>3
    <3>5. [writers[busy[k]] EXCEPT !.recs = Append(@, Job)] \in [name : Names, recs : Seq(Nat), open : BOOLEAN]
      BY <3>2, <3>4
    <3> QED
      BY <1>2, <2>2, <3>5 DEF ImportTypes
  <2> QED
    BY <1>1, <2>1, <2>2
<1> QED
  BY <1>1, <1>2, <1>3, <1>4 DEF ImportTypes, disk, thread, publication

LEMMA WriterTypes == ASSUME ImportInv, WriterThread PROVE ImportTypes'
<1>0. ImportTypes /\ FlowInv
  BY DEF ImportInv
<1>1. CASE Take
  <2>1. queue # <<>> /\ Tail(queue) \in Seq(Nat) /\ Rows[Job] \subseteq AllKeys
    BY <1>0, <1>1, JobFacts DEF Take
  <2>2. queue' \in Seq(Nat) /\ todo' \subseteq AllKeys
    BY <1>0, <1>1, <2>1 DEF Take, ImportTypes
  <2> QED
    BY <1>0, <1>1, <2>2 DEF Take, ImportTypes, disk, publication
<1>2. CASE WriteRaises
  BY <1>0, <1>2, PoisonTypes DEF WriteRaises, FlowInv
<1>3. CASE EndJob
  <2>1. queue' \in Seq(Nat)
    BY <1>0, <1>3, JobFacts DEF EndJob, FlowInv, ImportTypes
  <2> QED
    BY <1>0, <1>3, <2>1 DEF EndJob, ImportTypes, disk, publication, staging
<1>4. CASE \E key \in todo : Write(key) \/ Evict(key)
  BY <1>4, WriteTypes, EvictTypes
<1> QED
  BY <1>1, <1>2, <1>3, <1>4 DEF WriterThread

LEMMA PublishTypes == ASSUME ImportInv, Publication PROVE ImportTypes'
<1>0. /\ ImportTypes /\ FlowInv /\ DiskInv
      /\ step # "idle" => queue # <<>> \/ main = "final"
  BY DEF ImportInv, FlowInv
<1>1. CASE Poison /\ step # "idle"
  BY <1>0, <1>1, PoisonTypes
<1>2. CASE Close
  <2> DEFINE all == closed \cup {Staged(key) : key \in {k \in DOMAIN writers : writers[k].open}}
                           \cup {[name |-> Named(key), recs |-> <<>>] : key \in Emptied}
  <2>1. Emptied \subseteq AllKeys
    BY <1>0 DEF Emptied, ImportTypes, AllKeys
  <2>2. \A key \in AllKeys : [name |-> Named(key), recs |-> <<>>] \in Papers
    BY <1>0, NamedTyped, EmptyParts DEF Papers
  <2>3. all \subseteq Papers
    BY <1>0, <2>1, <2>2, StagedTyped DEF ImportTypes
  <2>4. \/ Poison
        \/ outputs' = all /\ UNCHANGED <<disk, thread, todo, busy, broken, writers, closed, active, published>>
    BY <1>2 DEF Close
  <2> HIDE DEF all
  <2> QED
    BY <1>0, <1>1, <1>2, <2>3, <2>4 DEF ImportTypes, disk, thread, Close
<1>3. ASSUME NEW o \in outputs, Rename(o) PROVE ImportTypes'
  <2>1. /\ parts' = [p \in DOMAIN parts \cup {o.name} |-> IF p = o.name THEN o.recs ELSE parts[p]]
        /\ published' = published \cup {o.name} /\ outputs' = outputs \ {o}
        /\ UNCHANGED <<states, thread, staging>>
    BY <1>3 DEF Rename
  <2>2. o.name \in Names /\ o.recs \in Seq(Nat)
    BY <1>0 DEF ImportTypes, Papers
  <2>3. DOMAIN parts' \subseteq Names /\ parts' \in [DOMAIN parts' -> Seq(Nat)]
    BY <1>0, <2>1, <2>2 DEF ImportTypes
  <2> QED
    BY <1>0, <2>1, <2>2, <2>3 DEF ImportTypes, thread, staging
<1>4. CASE SaveBegin \/ MarkBegin
  <2>1. Poison \/ UNCHANGED <<parts, states, thread, staging, publication>>
    BY <1>4 DEF SaveBegin, MarkBegin, OpenState
  <2> QED
    BY <1>0, <1>1, <1>4, <2>1 DEF ImportTypes, thread, staging, publication, SaveBegin, MarkBegin
<1>5. ASSUME Save \/ Mark PROVE ImportTypes'
  <2> DEFINE State == [next : Nat, published : SUBSET Names, continued : BOOLEAN]
  <2>1. states' \in [DOMAIN states' -> State]
    <3>1. CASE Save
      <4>1. Snapshot \in Nat
        BY <1>0, <3>1, JobFacts DEF Snapshot, Save, ImportTypes
      <4>2. [next |-> Snapshot, published |-> published, continued |-> FALSE] \in State
        BY <1>0, <4>1 DEF ImportTypes
      <4> QED
        BY <1>0, <3>1, <4>2 DEF Save, Put, ImportTypes
    <3>2. CASE Mark
      <4>1. states \in [DOMAIN states -> State]
        BY <1>0 DEF ImportTypes
      <4>2. states' = [states EXCEPT ![current].continued = TRUE]
        BY <3>2 DEF Mark
      <4> QED
        BY <4>1, <4>2
    <3> QED
      BY <1>5, <3>1, <3>2
  <2>2. /\ UNCHANGED <<parts, fed, last, failure>>
        /\ Published \/ UNCHANGED <<queue, staging, outputs, published>>
    BY <1>5 DEF Save, Mark
  <2>3. queue # <<>> \/ main = "final"
    BY <1>0, <1>5 DEF Save, Mark
  <2>4. CASE Published
    <3>1. /\ DOMAIN writers' = {} /\ writers' \in [DOMAIN writers' -> [name : Names, recs : Seq(Nat), open : BOOLEAN]]
          /\ queue' \in Seq(Nat) /\ closed' = {} /\ active' = <<>>
          /\ UNCHANGED <<busy, broken, started, todo, outputs, published>>
      BY <1>0, <2>3, <2>4, PublishedTypes
    <3>2. active' \in Seq(AllKeys)
      BY <3>1
    <3> QED
      BY <1>0, <2>1, <2>2, <3>1, <3>2 DEF ImportTypes
  <2>5. CASE UNCHANGED <<queue, staging, outputs, published>>
    BY <1>0, <2>1, <2>2, <2>5 DEF ImportTypes, staging
  <2> QED
    BY <2>2, <2>4, <2>5
<1> QED
  BY <1>2, <1>3, <1>4, <1>5 DEF Publication

LEMMA TypesStep == ASSUME ImportInv, [Next]_vars PROVE ImportTypes'
<1>0. ImportTypes /\ FlowInv
  BY DEF ImportInv
<1>1. CASE UNCHANGED <<parts, states, fed, last, queue, failure, staging, outputs, published>>
  BY <1>0, <1>1 DEF ImportTypes, staging
<1>2. CASE FeedFails \/ Tidy \/ UNCHANGED vars
  BY <1>1, <1>2 DEF FeedFails, Tidy, vars, disk, thread, publication
<1>3. CASE RenameFails
  BY <1>0, <1>3, PoisonTypes DEF RenameFails, FlowInv
<1>4. CASE Crash
  BY <1>0, <1>4, GoneTypes DEF Crash
<1>5. CASE Begin \/ Resume
  BY <1>0, <1>5, BeginTypes
<1>6. CASE MainThread
  BY <1>0, <1>6, MainTypes
<1>7. CASE \E k \in Range(Catalogs) : CatalogDone(k) \/ CatalogFails(k)
  BY <1>7, CatalogTypes
<1> QED
  BY <1>2, <1>3, <1>4, <1>5, <1>6, <1>7, WriterTypes, PublishTypes DEF Next, Failures, CatalogThreads

(***************************************************************************)
(* The flow of the chunks.                                                 *)
(***************************************************************************)
QueueShape == Len(queue) <= fed /\ \A i \in 1..Len(queue) : queue[i] = fed - Len(queue) + i

LEMMA EmptyDomain == ASSUME NEW f, f = <<>> PROVE DOMAIN f = {}
OBVIOUS

LEMMA TailShape ==
  ASSUME ImportTypes, FlowInv, queue # <<>>, queue' = Tail(queue), fed' = fed
  PROVE  QueueShape' /\ fed' - Len(queue') = Job
<1>1. /\ Job = fed - Len(queue) + 1 /\ Len(queue) \in Nat \ {0} /\ Len(queue') = Len(queue) - 1
      /\ \A i \in 1..Len(queue') : queue'[i] = queue[i + 1] /\ i + 1 \in 1..Len(queue)
  BY JobFacts
<1>2. fed \in Nat /\ QueueShape
  BY DEF ImportTypes, FlowInv, QueueShape
<1>3. ASSUME NEW i \in 1..Len(queue') PROVE queue'[i] = fed - Len(queue') + i
  <2>1. queue'[i] = fed - Len(queue) + (i + 1)
    BY <1>1, <1>2 DEF QueueShape
  <2> QED
    BY <1>1, <1>2, <2>1
<1> QED
  BY <1>1, <1>2, <1>3 DEF QueueShape

LEMMA PoisonFlow ==
  ASSUME ImportTypes, FlowInv, Poison, queue # <<>> \/ main = "final", main # "off" PROVE FlowInv'
<1>1. /\ failure' = TRUE /\ step' = "idle"
      /\ queue' = IF main = "final" THEN queue ELSE Tail(queue)
      /\ UNCHANGED <<fed, main, last>>
  BY DEF Poison
<1>2. QueueShape'
  BY <1>1, TailShape DEF FlowInv, QueueShape
<1> QED
  BY <1>1, <1>2 DEF FlowInv, QueueShape

LEMMA GoneFlow == ASSUME Gone PROVE FlowInv'
<1>1. /\ main' = "off" /\ step' = "idle" /\ queue' = <<>> /\ failure' = FALSE /\ broken' = {} /\ fed' = 0
      /\ closed' = {} /\ active' = <<>> /\ started' = {} /\ outputs' = {} /\ writers' = <<>>
  BY DEF Gone
<1>2. Idle'
  BY Zenon DEF Gone, Idle, NoWrites
<1>3. DOMAIN writers' = {}
  BY <1>1, EmptyDomain
<1>4. ~failure'
  BY <1>1
<1>5. QueueShape'
  BY <1>1 DEF QueueShape
<1> QED
  BY <1>1, <1>2, <1>3, <1>4, <1>5 DEF FlowInv, QueueShape

LEMMA BeginFlow == ASSUME ImportTypes, FlowInv, Begin \/ Resume PROVE FlowInv'
<1>1. /\ main = "off" /\ main' = "feeding" /\ last' \in Chunks /\ fed' \in Nat /\ fed' <= last'
      /\ UNCHANGED <<queue, failure, step, staging, outputs>>
  BY ChunkTyped DEF Begin, Resume, Launch, ImportTypes
<1>2. queue = <<>> /\ step = "idle"
  BY <1>1 DEF FlowInv
<1>3. QueueShape'
  BY <1>1, <1>2 DEF QueueShape
<1> QED
  BY <1>1, <1>2, <1>3 DEF FlowInv, QueueShape, staging

LEMMA FeedFlow == ASSUME ImportTypes, FlowInv, Feed
  PROVE  FlowInv' /\ fed' - Len(queue') = fed - Len(queue) /\ (queue # <<>> => queue'[1] = queue[1])
<1>1. /\ main = "feeding" /\ fed' = fed + 1 /\ queue' = Append(queue, fed') /\ fed < last
      /\ UNCHANGED <<main, last, failure, step, staging, outputs>>
  BY DEF Feed, publication
<1>2. /\ queue \in Seq(Nat) /\ fed \in Nat /\ QueueShape /\ last \in Chunks
  BY <1>1 DEF ImportTypes, FlowInv, QueueShape
<1>3. /\ Len(queue') = Len(queue) + 1 /\ queue'[Len(queue) + 1] = fed + 1 /\ Len(queue) \in Nat
      /\ \A i \in 1..Len(queue) : queue'[i] = queue[i]
  BY <1>1, <1>2
<1>4. QueueShape'
  <2>1. ASSUME NEW i \in 1..Len(queue') PROVE queue'[i] = fed' - Len(queue') + i
    <3>1. CASE i \in 1..Len(queue)
      BY <1>1, <1>2, <1>3, <3>1 DEF QueueShape
    <3>2. CASE i = Len(queue) + 1
      BY <1>1, <1>2, <1>3, <3>2
    <3> QED
      BY <1>3, <3>1, <3>2
  <2> QED
    BY <1>1, <1>2, <1>3, <2>1 DEF QueueShape
<1>5. queue' # <<>> /\ (queue # <<>> => queue'[1] = queue[1])
  BY <1>2, <1>3
<1>6. fed' <= last /\ fed' - Len(queue') = fed - Len(queue)
  BY <1>1, <1>2, <1>3, ChunkTyped
<1> QED
  BY <1>1, <1>4, <1>5, <1>6 DEF FlowInv, QueueShape, Job, staging

LEMMA FlowStep == ASSUME ImportInv, [Next]_vars PROVE FlowInv'
<1>0. ImportTypes /\ FlowInv /\ Drains
  BY DEF ImportInv
<1>1. CASE UNCHANGED <<main, fed, last, queue, failure, step, staging, outputs>>
  BY <1>0, <1>1 DEF FlowInv, staging, Job, Idle
<1>2. CASE Tidy \/ UNCHANGED vars
  BY <1>1, <1>2 DEF Tidy, vars, thread, publication
<1>3. CASE Begin \/ Resume
  BY <1>0, <1>3, BeginFlow
<1>4. CASE FeedFails \/ Notice
  BY <1>0, <1>4 DEF FeedFails, Notice, FlowInv, staging, publication, Job
<1>5. CASE Feed
  BY <1>0, <1>5, FeedFlow
<1>6. CASE Finish
  BY <1>0, <1>6 DEF Finish, FlowInv, staging, publication, Job
<1>7. CASE Exit \/ Crash
  BY <1>7, GoneFlow DEF Exit, Crash
<1>8. CASE RenameFails
  BY <1>0, <1>8, PoisonFlow DEF RenameFails, FlowInv
<1>9. CASE WriterThread
  <2>1. CASE Take
    <3>0. queue # <<>> /\ main \in {"feeding", "raised"} /\ step = "idle"
      BY <2>1 DEF Take
    <3>1. CASE failure
      <4>1. queue' = Tail(queue) /\ UNCHANGED <<fed, main, last, failure, broken, outputs, step>>
        BY <2>1, <3>1 DEF Take, publication
      <4>2. QueueShape'
        BY <1>0, <3>0, <4>1, TailShape
      <4> QED
        BY <1>0, <3>0, <3>1, <4>1, <4>2 DEF FlowInv, QueueShape
    <3>2. CASE ~failure
      <4>1. Idle
        BY <1>0, <3>0, <3>2 DEF Drains, QuietOutside
      <4>2. /\ step' = "write" /\ todo' = Rows[Job]
            /\ UNCHANGED <<queue, fed, main, last, failure, broken, outputs, busy>>
        BY <2>1, <3>2 DEF Take, publication
      <4>3. \A k \in Range(Catalogs) : busy'[k] = None
        BY <1>0, <4>1, <4>2 DEF ImportTypes, Idle
      <4>4. todo' \subseteq Rows[Job'] /\ main \notin {"off", "final"}
        BY <3>0, <4>2 DEF Job
      <4> QED
        BY <1>0, <3>0, <3>2, <4>2, <4>3, <4>4 DEF FlowInv
    <3> QED
      BY <3>1, <3>2
  <2>2. CASE WriteRaises
    BY <1>0, <2>2, PoisonFlow DEF WriteRaises, FlowInv
  <2>3. ASSUME NEW key \in todo, Write(key) PROVE FlowInv'
    <3>1. /\ step = "write" /\ busy' = [busy EXCEPT ![key[2]] = key] /\ todo' = todo \ {key}
          /\ UNCHANGED <<queue, fed, main, last, failure, broken, outputs, step>>
      BY <2>3 DEF Write, Writable, Submit, thread, publication
    <3>2. key \in Rows[Job] /\ key \in AllKeys /\ main \notin {"off", "final"}
      BY <1>0, <3>1 DEF FlowInv, ImportTypes
    <3>3. DOMAIN busy = Range(Catalogs)
      BY <1>0 DEF ImportTypes
    <3>4. \A k \in Range(Catalogs) : busy'[k] # None =>
              busy'[k] \in Rows[Job] /\ busy'[k] \notin todo' /\ busy'[k][2] = k
      <4> SUFFICES ASSUME NEW k \in Range(Catalogs), busy'[k] # None
                   PROVE  busy'[k] \in Rows[Job] /\ busy'[k] \notin todo' /\ busy'[k][2] = k
        OBVIOUS
      <4>1. CASE k = key[2]
        BY <3>1, <3>2, <3>3, <4>1
      <4>2. CASE k # key[2]
        BY <1>0, <3>1, <3>3, <4>2 DEF FlowInv
      <4> QED
        BY <4>1, <4>2
    <3> QED
      BY <1>0, <3>1, <3>2, <3>4 DEF FlowInv, Job
  <2>4. ASSUME NEW key \in todo, Evict(key) PROVE FlowInv'
    BY <1>0, <2>4 DEF Evict, Writable, FlowInv, Job, thread, publication
  <2>5. CASE EndJob
    <3>1. /\ step = "write" /\ todo = {} /\ Idle /\ broken = {}
          /\ IF Due THEN step' = "close" /\ UNCHANGED queue ELSE step' = "idle" /\ queue' = Tail(queue)
          /\ UNCHANGED <<main, fed, last, failure, staging, outputs>>
      BY <2>5 DEF EndJob, publication
    <3>2. QueueShape' /\ queue # <<>> /\ main \notin {"off", "final"}
      BY <1>0, <3>1, TailShape DEF FlowInv, QueueShape
    <3> QED
      BY <1>0, <3>1, <3>2 DEF FlowInv, QueueShape, staging
  <2> QED
    BY <1>9, <2>1, <2>2, <2>3, <2>4, <2>5 DEF WriterThread
<1>10. CASE Publication
  <2>0. (queue # <<>> \/ main = "final") /\ main # "off" /\ ~failure /\ broken = {}
    BY <1>0, <1>10 DEF Publication, FlowInv, Close, Rename, SaveBegin, Save, MarkBegin, Mark
  <2>1. CASE Poison
    BY <1>0, <2>0, <2>1, PoisonFlow
  <2>2. CASE Published /\ UNCHANGED <<main, fed, last, failure>>
    <3>1. /\ step' = "idle" /\ queue' = (IF main = "final" THEN queue ELSE Tail(queue))
          /\ UNCHANGED <<busy, broken, todo, outputs>>
      BY <2>2 DEF Published, Cleared
    <3>2. QueueShape'
      BY <1>0, <2>0, <2>2, <3>1, TailShape DEF FlowInv, QueueShape
    <3> QED
      BY <1>0, <2>0, <2>2, <3>1, <3>2 DEF FlowInv, QueueShape
  <2>3. CASE Close
    <3>1. Poison \/ (step' = "rename" /\ UNCHANGED <<thread, busy, broken, todo>>)
      BY <2>3 DEF Close
    <3> QED
      BY <1>0, <2>0, <2>1, <2>3, <3>1 DEF FlowInv, thread, Close
  <2>4. CASE (\E o \in outputs : Rename(o)) \/ SaveBegin \/ MarkBegin
    <3>1. CASE \E o \in outputs : Rename(o)
      BY <1>0, <2>0, <3>1 DEF Rename, FlowInv, thread, staging
    <3>2. CASE SaveBegin
      <4>1. Poison \/ (step' = "save" /\ outputs = {} /\ step = "rename" /\ UNCHANGED <<thread, staging, publication>>)
        BY <3>2 DEF SaveBegin, OpenState
      <4> QED
        BY <1>0, <2>0, <2>1, <4>1 DEF FlowInv, thread, staging, publication
    <3>3. CASE MarkBegin
      <4>1. Poison \/ (step' = "marking" /\ step = "mark" /\ UNCHANGED <<thread, staging, publication>>)
        BY <3>3 DEF MarkBegin, OpenState
      <4> QED
        BY <1>0, <2>0, <2>1, <4>1 DEF FlowInv, thread, staging, publication
    <3> QED
      BY <2>4, <3>1, <3>2, <3>3
  <2>5. CASE Save \/ Mark
    <3>1. \/ Published /\ UNCHANGED <<main, fed, last, failure>>
          \/ step' = "mark" /\ step = "save" /\ UNCHANGED <<main, fed, last, failure, queue, staging, outputs>>
      BY <2>5 DEF Save, Mark
    <3> QED
      BY <1>0, <2>0, <2>2, <3>1 DEF FlowInv, staging
  <2> QED
    BY <1>10, <2>3, <2>4, <2>5 DEF Publication
<1>11. CASE \E k \in Range(Catalogs) : CatalogDone(k) \/ CatalogFails(k)
  <2>1. PICK k \in Range(Catalogs) : CatalogDone(k) \/ CatalogFails(k)
    BY <1>11
  <2>2. /\ busy[k] # None /\ busy' = [busy EXCEPT ![k] = None]
        /\ UNCHANGED <<thread, step, todo, closed, active, started, publication>>
        /\ DOMAIN writers' = DOMAIN writers
    BY <2>1 DEF CatalogDone, CatalogFails
  <2>3. DOMAIN busy = Range(Catalogs) /\ ~Idle
    BY <1>0, <2>2 DEF ImportTypes, Idle
  <2>4. main # "off" /\ (step = "write" \/ failure)
    BY <1>0, <2>3 DEF Drains, QuietOutside, FlowInv
  <2> QED
    BY <1>0, <2>2, <2>3, <2>4 DEF FlowInv, thread, publication, Job
<1> QED
  BY <1>2, <1>3, <1>4, <1>5, <1>6, <1>7, <1>8, <1>9, <1>10, <1>11
  DEF Next, MainThread, Failures, CatalogThreads

(***************************************************************************)
(* The disk.                                                               *)
(***************************************************************************)
\* What a state promises.
Holds(s) ==
    /\ s.published \subseteq DOMAIN parts
    /\ InOrder(s.published)
    /\ \A key \in Keys : Contents(s.published, key) = {c \in 1..s.next : key \in Rows[c]}

LEMMA HoldsIs == StateHolds <=> \A d \in DOMAIN states : Holds(states[d])
BY DEF StateHolds, Holds

\* Parts are never rewritten, so what a state promises stays true.
LEMMA HoldsKept ==
  ASSUME DOMAIN parts \subseteq DOMAIN parts', \A p \in DOMAIN parts : parts'[p] = parts[p],
         NEW s, Holds(s)
  PROVE  s.published \subseteq DOMAIN parts' /\ InOrder(s.published)'
         /\ \A key \in Keys : Contents(s.published, key)' = {c \in 1..s.next : key \in Rows[c]}
<1>1. s.published \subseteq DOMAIN parts
  BY DEF Holds
<1>2. \A p \in s.published : parts'[p] = parts[p]
  BY <1>1
<1>3. InOrder(s.published)'
  BY <1>2 DEF Holds, InOrder, Increasing
<1>4. \A key : Contents(s.published, key)' = Contents(s.published, key)
  BY <1>2 DEF Contents
<1> QED
  BY <1>1, <1>3, <1>4 DEF Holds

LEMMA StatesKept ==
  ASSUME StateHolds, states' = states, DOMAIN parts \subseteq DOMAIN parts', \A p \in DOMAIN parts : parts'[p] = parts[p]
  PROVE  StateHolds'
BY HoldsIs, HoldsKept DEF StateHolds

LEMMA DiskBy == ASSUME DiskInv, parts' = parts, StateHolds' PROVE DiskInv'
<1>1. \A key : LatestParts(key)' = LatestParts(key)
  BY DEF LatestParts, PartsOf
<1>2. \A p \in DOMAIN parts' :
        /\ \E q \in LatestParts(p.key)' : \A r \in LatestParts(p.key)' : r.part <= q.part
        /\ Increasing(parts'[p]) /\ p.key \in Keys
  BY <1>1 DEF DiskInv
<1>3. \A p, q \in DOMAIN parts' :
        p.key = q.key /\ p.key[2] = "observations" /\ p.rev = q.rev /\ p.part < q.part
          => Less(parts'[p], parts'[q])
  BY DEF DiskInv
<1> QED
  BY <1>2, <1>3 DEF DiskInv, Increasing, Less

LEMMA DiskKept == ASSUME DiskInv, UNCHANGED <<parts, states>> PROVE DiskInv'
<1>1. StateHolds'
  BY StatesKept DEF DiskInv
<1> QED
  BY <1>1, DiskBy

\* A part that is renamed into place is the last of its key.
LEMMA RenameFacts ==
  ASSUME ImportInv, NEW o \in outputs, Rename(o)
  PROVE  /\ LiveInv /\ ImportTypes /\ DiskInv /\ Fresh = outputs /\ o \in Shelf /\ o \in Papers /\ step = "rename"
         /\ o.name \in Names /\ o.name.key \in AllKeys /\ o.recs \in Seq(Nat)
         /\ o.name \notin DOMAIN parts /\ DOMAIN parts' = DOMAIN parts \cup {o.name}
         /\ parts'[o.name] = o.recs /\ \A p \in DOMAIN parts : parts'[p] = parts[p]
         /\ \A key : key # o.name.key => PartsOf(key)' = PartsOf(key) /\ LatestParts(key)' = LatestParts(key)
         /\ PartsOf(o.name.key)' = PartsOf(o.name.key) \cup {o.name}
         /\ \A p \in PartsOf(o.name.key) : p.rev <= o.name.rev /\ (p.rev = o.name.rev => p.part < o.name.part)
         /\ o.name \in LatestParts(o.name.key)'
         /\ \A p \in PartsOf(o.name.key) : p.rev = o.name.rev => p \in LatestParts(o.name.key)'
         /\ \A p \in LatestParts(o.name.key)' : p = o.name \/ (p \in PartsOf(o.name.key) /\ p.rev = o.name.rev)
<1> DEFINE n == o.name
<1>1. /\ parts' = [p \in DOMAIN parts \cup {n} |-> IF p = n THEN o.recs ELSE parts[p]]
      /\ step = "rename"
  BY DEF Rename
<1>2. ImportTypes /\ DiskInv /\ LiveInv
  BY <1>1 DEF ImportInv, FlowInv, Live
<1>3. Fresh = outputs /\ o \in Shelf /\ o \in Papers
  BY <1>1, <1>2 DEF Fresh, Shelf, ImportTypes
<1>4. n \in Names /\ o.recs \in Seq(Nat)
  BY <1>3 DEF Papers
<1>5. n.key \in AllKeys /\ n.rev \in Nat /\ n.part \in Nat
  BY <1>4, NamesFields
<1>6. ASSUME NEW p \in PartsOf(n.key)
      PROVE  p \in Names /\ p.key = n.key /\ p.rev \in Nat /\ p.part \in Nat /\ p.rev <= n.rev
             /\ (p.rev = n.rev => p.part < n.part)
  <2>1. p \in Names /\ p.key = n.key
    BY <1>2 DEF PartsOf, ImportTypes
  <2>2. Precedes(p, n)
    BY <1>2, <1>3 DEF LiveInv, FreshInv
  <2> QED
    BY <1>5, <2>1, <2>2, NamesFields DEF Precedes
<1>7. n \notin DOMAIN parts
  BY <1>5, <1>6 DEF PartsOf
<1>8. DOMAIN parts' = DOMAIN parts \cup {n} /\ parts'[n] = o.recs /\ \A p \in DOMAIN parts : parts'[p] = parts[p]
  BY <1>1, <1>7
<1>9. PartsOf(n.key)' = PartsOf(n.key) \cup {n} /\ \A key : key # n.key => PartsOf(key)' = PartsOf(key)
  BY <1>8 DEF PartsOf
<1>10. \A key : key # n.key => LatestParts(key)' = LatestParts(key)
  BY <1>9 DEF LatestParts
<1>11. n \in LatestParts(n.key)' /\ \A p \in PartsOf(n.key) : p.rev = n.rev => p \in LatestParts(n.key)'
  BY <1>5, <1>6, <1>9 DEF LatestParts
<1>12. \A p \in LatestParts(n.key)' : p = n \/ (p \in PartsOf(n.key) /\ p.rev = n.rev)
  <2> SUFFICES ASSUME NEW p \in LatestParts(n.key)', p # n PROVE p \in PartsOf(n.key) /\ p.rev = n.rev
    OBVIOUS
  <2>1. p \in PartsOf(n.key) /\ n.rev <= p.rev
    BY <1>9 DEF LatestParts
  <2> QED
    BY <1>5, <1>6, <2>1
<1> QED
  BY <1>1, <1>2, <1>3, <1>4, <1>5, <1>6, <1>7, <1>8, <1>9, <1>10, <1>11, <1>12

LEMMA RenameDisk == ASSUME ImportInv, NEW o \in outputs, Rename(o) PROVE DiskInv'
<1> DEFINE n == o.name
<1>1. /\ LiveInv /\ DiskInv /\ ImportTypes /\ o \in Fresh /\ o \in Shelf /\ n \notin DOMAIN parts
      /\ DOMAIN parts' = DOMAIN parts \cup {n}
      /\ parts'[n] = o.recs /\ \A p \in DOMAIN parts : parts'[p] = parts[p]
  BY RenameFacts
<1>2. ASSUME NEW p \in DOMAIN parts'
      PROVE  \E q \in LatestParts(p.key)' : \A r \in LatestParts(p.key)' : r.part <= q.part
  <2>1. CASE p.key = n.key
    <3>1. n \in LatestParts(n.key)'
      BY RenameFacts
    <3>2. \A r \in LatestParts(n.key)' : r.part <= n.part
      <4> SUFFICES ASSUME NEW r \in LatestParts(n.key)' PROVE r.part <= n.part
        OBVIOUS
      <4>1. CASE r = n
        <5>1. n.part \in Nat
          BY RenameFacts, NamesFields
        <5> QED
          BY <4>1, <5>1
      <4>2. CASE r # n
        <5>1. r \in PartsOf(n.key) /\ r.part < n.part
          BY <4>2, RenameFacts
        <5>2. r.part \in Nat /\ n.part \in Nat
          BY <1>1, <5>1, RenameFacts, NamesFields DEF PartsOf, ImportTypes
        <5> QED
          BY <5>1, <5>2
      <4> QED
        BY <4>1, <4>2
    <3> QED
      BY <2>1, <3>1, <3>2
  <2>2. CASE p.key # n.key
    <3>1. p \in DOMAIN parts /\ LatestParts(p.key)' = LatestParts(p.key)
      BY <1>1, <2>2, RenameFacts
    <3> QED
      BY <1>1, <3>1 DEF DiskInv
  <2> QED
    BY <2>1, <2>2
<1>3. \A p \in DOMAIN parts' : Increasing(parts'[p]) /\ p.key \in Keys
  <2>1. Increasing(o.recs) /\ n.key \in Keys
    BY <1>1 DEF LiveInv, Good, NamedInv
  <2>2. \A p \in DOMAIN parts : Increasing(parts[p]) /\ p.key \in Keys
    BY <1>1 DEF DiskInv
  <2> QED
    BY <1>1, <2>1, <2>2
<1>4. ASSUME NEW p \in DOMAIN parts', NEW q \in DOMAIN parts',
             p.key = q.key, p.key[2] = "observations", p.rev = q.rev, p.part < q.part
      PROVE  Less(parts'[p], parts'[q])
  <2>1. CASE p \in DOMAIN parts /\ q \in DOMAIN parts
    BY <1>1, <1>4, <2>1 DEF DiskInv
  <2>2. CASE p \in DOMAIN parts /\ q = n
    <3>1. p \in PartsOf(n.key)
      BY <1>4, <2>2 DEF PartsOf
    <3>2. Less(parts[p], o.recs)
      BY <1>1, <1>4, <2>2, <3>1 DEF LiveInv, FreshInv
    <3> QED
      BY <1>1, <2>2, <3>2
  <2>3. CASE p = n
    <3>1. n.part \in Nat
      BY RenameFacts, NamesFields
    <3>2. q # n
      BY <1>4, <2>3, <3>1
    <3>3. q \in PartsOf(n.key) /\ q \in Names
      BY <1>1, <1>4, <2>3, <3>2 DEF PartsOf, ImportTypes
    <3>4. q.part < n.part /\ q.part \in Nat
      BY <1>4, <2>3, <3>3, RenameFacts, NamesFields
    <3> QED
      BY <1>4, <2>3, <3>1, <3>4
  <2> QED
    BY <1>1, <2>1, <2>2, <2>3
<1>5. StateHolds'
  <2>1. states' = states
    BY DEF Rename
  <2> QED
    BY <1>1, <2>1, StatesKept DEF DiskInv
<1> QED
  BY <1>2, <1>3, <1>4, <1>5 DEF DiskInv, Less, Increasing

\* What is on disk once everything is renamed is what the next state promises.
LEMMA SaveHolds ==
  ASSUME ImportInv, step = "save", NEW s, s.published = published, s.next = Snapshot PROVE Holds(s)
<1>1. ImportTypes /\ LiveInv /\ outputs = {}
  BY DEF ImportInv, FlowInv, Live
<1>2. Shelf = OnDisk
  BY <1>1 DEF Shelf, Fresh
<1>3. published \subseteq DOMAIN parts
  BY <1>1 DEF LiveInv, NamedInv
<1>4. \A key \in AllKeys : Reach[key] = Snapshot
  BY DEF Reach
<1>5. \A p \in published : /\ [name |-> p, recs |-> parts[p]] \in Shelf /\ p.key \in AllKeys
                           /\ parts[p] \in Seq(Nat) /\ DOMAIN parts[p] = 1..Len(parts[p])
  <2> SUFFICES ASSUME NEW p \in published
               PROVE  /\ [name |-> p, recs |-> parts[p]] \in Shelf /\ p.key \in AllKeys
                      /\ parts[p] \in Seq(Nat) /\ DOMAIN parts[p] = 1..Len(parts[p])
    OBVIOUS
  <2>1. [name |-> p, recs |-> parts[p]] \in Shelf
    BY <1>2 DEF OnDisk
  <2>2. p \in Names /\ parts[p] \in Seq(Nat)
    BY <1>1, <1>3 DEF ImportTypes
  <2> QED
    BY <2>1, <2>2, NamesFields
<1>6. Good(Shelf, Reach)
  BY <1>1 DEF LiveInv
<1>7. InOrder(published)
  <2>1. ASSUME NEW p \in published PROVE Increasing(parts[p])
    <3>1. Increasing([name |-> p, recs |-> parts[p]].recs)
      BY <1>5, <1>6 DEF Good
    <3> QED
      BY <3>1
  <2>2. ASSUME NEW p \in published, NEW q \in published, Precedes(p, q) PROVE Less(parts[p], parts[q])
    <3> DEFINE a == [name |-> p, recs |-> parts[p]]
               b == [name |-> q, recs |-> parts[q]]
    <3>1. a \in Shelf /\ b \in Shelf /\ a.name = p /\ b.name = q /\ a.recs = parts[p] /\ b.recs = parts[q]
      BY <1>5
    <3> HIDE DEF a, b
    <3>2. p.key = q.key => p.rev = q.rev /\ (p.part < q.part => Less(parts[p], parts[q]))
      BY <1>6, <3>1 DEF Good
    <3>3. p.rev \in Nat /\ q.rev \in Nat
      BY <1>1, NamesFields DEF ImportTypes
    <3> QED
      BY <2>2, <3>2, <3>3 DEF Precedes
  <2> QED
    BY <2>1, <2>2 DEF InOrder, Less
<1>8. ASSUME NEW key \in Keys PROVE Contents(published, key) = {c \in 1..Snapshot : key \in Rows[c]}
  <2>0. key \in AllKeys
    BY KeysTyped
  <2>1. ASSUME NEW c \in Contents(published, key) PROVE c \in 1..Snapshot /\ key \in Rows[c]
    <3>1. PICK p \in published : p.key = key /\ c \in Range(parts[p])
      BY <2>1 DEF Contents
    <3>2. PICK i \in 1..Len(parts[p]) : parts[p][i] = c
      BY <1>5, <3>1 DEF Range
    <3> DEFINE a == [name |-> p, recs |-> parts[p]]
    <3>3. a \in Shelf /\ a.name = p /\ a.recs = parts[p]
      BY <1>5
    <3> HIDE DEF a
    <3>4. parts[p][i] \in 1..Reach[p.key] /\ p.key \in Rows[parts[p][i]]
      BY <1>6, <3>3 DEF Good
    <3> QED
      BY <1>4, <1>5, <3>1, <3>2, <3>4
  <2>2. ASSUME NEW c \in 1..Snapshot, key \in Rows[c] PROVE c \in Contents(published, key)
    <3>0. c \in 1..Reach[key]
      BY <1>4, <2>0
    <3>1. PICK a \in Shelf : a.name.key = key /\ \E i \in 1..Len(a.recs) : a.recs[i] = c
      BY <1>6, <2>2, <3>0 DEF Good
    <3>2. PICK p \in published : a = [name |-> p, recs |-> parts[p]]
      BY <1>2 DEF OnDisk
    <3>3. p.key = key /\ c \in Range(parts[p])
      BY <1>5, <3>1, <3>2 DEF Range
    <3> QED
      BY <3>3 DEF Contents
  <2> QED
    BY <2>1, <2>2
<1> QED
  BY <1>3, <1>7, <1>8 DEF Holds

LEMMA DiskStep == ASSUME ImportInv, [Next]_vars PROVE DiskInv'
<1>0. DiskInv /\ ImportTypes
  BY DEF ImportInv
<1>1. CASE UNCHANGED <<parts, states>>
  BY <1>0, <1>1, DiskKept
<1>2. ASSUME parts' = parts, StateHolds' PROVE DiskInv'
  BY <1>0, <1>2, DiskBy
<1>3. ASSUME parts' = parts, NEW s, Holds(s)
      PROVE  /\ s.published \subseteq DOMAIN parts' /\ InOrder(s.published)'
             /\ \A key \in Keys : Contents(s.published, key)' = {c \in 1..s.next : key \in Rows[c]}
  BY <1>3, HoldsKept
<1>4. CASE Save
  <2> DEFINE rec == [next |-> Snapshot, published |-> published, continued |-> FALSE]
  <2>1. parts' = parts /\ states' = Put(NextDay, rec) /\ step = "save"
    BY <1>4 DEF Save
  <2>2. rec.published = published /\ rec.next = Snapshot
    OBVIOUS
  <2>3. Holds(rec)
    BY <2>1, <2>2, SaveHolds
  <2>4. \A d \in DOMAIN states' : states'[d] = rec \/ (d \in DOMAIN states /\ states'[d] = states[d])
    BY <2>1 DEF Put
  <2> HIDE DEF rec
  <2>5. \A d \in DOMAIN states' : Holds(states'[d])
    BY <1>0, <2>3, <2>4, HoldsIs DEF DiskInv
  <2>6. StateHolds'
    BY <1>3, <2>1, <2>5 DEF StateHolds
  <2> QED
    BY <1>2, <2>1, <2>6
<1>5. CASE Mark
  <2>1. parts' = parts /\ states' = [states EXCEPT ![current].continued = TRUE]
    BY <1>5 DEF Mark
  <2>2. ASSUME NEW d \in DOMAIN states' PROVE d \in DOMAIN states /\ states'[d].published = states[d].published
                                              /\ states'[d].next = states[d].next
    <3>1. d \in DOMAIN states /\ states[d] \in [next : Nat, published : SUBSET Names, continued : BOOLEAN]
      BY <1>0, <2>1 DEF ImportTypes
    <3> QED
      BY <2>1, <3>1
  <2>3. \A d \in DOMAIN states' : Holds(states'[d])
    BY <1>0, <2>2, HoldsIs DEF DiskInv, Holds
  <2>4. StateHolds'
    BY <1>3, <2>1, <2>3 DEF StateHolds
  <2> QED
    BY <1>2, <2>1, <2>4
<1>6. CASE Begin \/ Resume
  BY <1>1, <1>6 DEF Begin, Resume, Launch, disk
<1>7. CASE MainThread
  BY <1>1, <1>7 DEF MainThread, Feed, Notice, Finish, Exit, disk
<1>8. CASE WriterThread
  BY <1>1, <1>8 DEF WriterThread, Take, WriteRaises, Poison, EndJob, Write, Evict, disk
<1>9. CASE CatalogThreads \/ Failures
  BY <1>1, <1>9 DEF CatalogThreads, CatalogDone, Failures, FeedFails, RenameFails, Poison, CatalogFails, Crash, disk
<1>10. CASE Close \/ SaveBegin \/ MarkBegin
  BY <1>1, <1>10 DEF Close, SaveBegin, MarkBegin, OpenState, Poison, disk
<1>11. CASE Tidy \/ UNCHANGED vars
  BY <1>1, <1>11 DEF Tidy, vars, disk
<1> QED
  BY <1>4, <1>5, <1>6, <1>7, <1>8, <1>9, <1>10, <1>11, RenameDisk DEF Next, Publication

(***************************************************************************)
(* The invocation under way.                                               *)
(***************************************************************************)
LEMMA LiveBy == ASSUME WriterInv', Good(Shelf, Reach)', FreshInv', BusyInv', NamedInv' PROVE LiveInv'
BY DEF LiveInv

LEMMA WriterKept == ASSUME WriterInv, UNCHANGED <<writers, closed, active, started>> PROVE WriterInv'
BY DEF WriterInv, IsOpen, Staged

LEMMA FreshKept == ASSUME FreshInv, Fresh' = Fresh, UNCHANGED <<parts, published, mode>> PROVE FreshInv'
BY DEF FreshInv, PartsOf, Less

LEMMA NamedKept ==
  ASSUME NamedInv, Fresh' = Fresh, UNCHANGED <<parts, published, mode, started>> PROVE NamedInv'
BY DEF NamedInv, LatestParts, PartsOf

LEMMA ShelfKept == ASSUME Fresh' = Fresh, UNCHANGED <<parts, published>> PROVE Shelf' = Shelf
BY DEF Shelf, OnDisk

LEMMA GoodKept == ASSUME Good(Shelf, Reach), Shelf' = Shelf, Reach' = Reach PROVE Good(Shelf, Reach)'
BY DEF Good, Increasing, Less

\* Most steps touch neither the parts nor what has been written of them.
LEMMA LiveKept ==
  ASSUME LiveInv, Fresh' = Fresh, Reach' = Reach, BusyInv',
         UNCHANGED <<parts, published, writers, closed, active, started, mode>>
  PROVE  LiveInv'
<1>1. WriterInv'
  BY WriterKept DEF LiveInv
<1>2. FreshInv'
  BY FreshKept DEF LiveInv
<1>3. NamedInv'
  BY NamedKept DEF LiveInv
<1>4. Good(Shelf, Reach)'
  BY ShelfKept, GoodKept DEF LiveInv
<1> QED
  BY <1>1, <1>2, <1>3, <1>4 DEF LiveInv

LEMMA ShelfTyped == ASSUME ImportTypes, NamedInv PROVE Shelf \in SUBSET Papers /\ Fresh \in SUBSET Papers
<1>1. OnDisk \subseteq Papers
  BY DEF NamedInv, OnDisk, Papers, ImportTypes
<1>2. Fresh \subseteq Papers
  BY StagedTyped DEF Fresh, ImportTypes
<1> QED
  BY <1>1, <1>2 DEF Shelf

LEMMA KeyNone == \A key \in AllKeys : key # None
BY ImportAssumption DEF AllKeys

(***************************************************************************)
(* The main thread.                                                        *)
(***************************************************************************)
LEMMA FeedLive == ASSUME ImportInv, Live, Feed PROVE LiveInv'
<1>1. ImportTypes /\ FlowInv /\ LiveInv
  BY DEF ImportInv
<1>2. /\ main = "feeding" /\ UNCHANGED <<disk, main, last, mode, failure, step, staging, publication>>
  BY DEF Feed
<1>3. fed' - Len(queue') = fed - Len(queue) /\ (queue # <<>> => queue'[1] = queue[1])
  BY <1>1, FeedFlow
<1>4. step # "idle" => Job' = Job
  BY <1>1, <1>2, <1>3 DEF FlowInv, Job
<1>5. Fresh' = Fresh
  BY <1>2 DEF Fresh, Staged, staging, publication
<1>6. Reach' = Reach
  BY <1>2, <1>3, <1>4 DEF Reach, Snapshot, staging
<1>7. BusyInv'
  BY <1>1, <1>2, <1>4 DEF LiveInv, BusyInv, PartsOf, staging, disk
<1> QED
  BY <1>1, <1>2, <1>5, <1>6, <1>7, LiveKept DEF disk, staging, publication

LEMMA FeedFailsLive == ASSUME LiveInv, FeedFails PROVE LiveInv'
<1>1. /\ main = "feeding" /\ main' = "raised"
      /\ UNCHANGED <<disk, fed, last, mode, queue, failure, step, staging, publication>>
  BY DEF FeedFails
<1>2. Fresh' = Fresh
  BY <1>1 DEF Fresh, Staged, staging, publication
<1>3. Reach' = Reach
  BY <1>1 DEF Reach, Snapshot, Job, staging
<1>4. BusyInv'
  BY <1>1 DEF LiveInv, BusyInv, PartsOf, Job, staging, disk
<1> QED
  BY <1>1, <1>2, <1>3, <1>4, LiveKept DEF disk, staging, publication

LEMMA FinishLive == ASSUME ImportInv, Live, Finish PROVE LiveInv'
<1>1. ImportTypes /\ FlowInv /\ LiveInv /\ Drains
  BY DEF ImportInv
<1>2. /\ main = "feeding" /\ ~failure /\ fed = last /\ queue = <<>> /\ step = "idle"
      /\ \/ step' = step
         \/ main' = "final" /\ step' = "close"
      /\ UNCHANGED <<disk, fed, last, mode, queue, failure, staging, publication>>
  BY DEF Finish
<1>3. Fresh' = Fresh
  BY <1>2 DEF Fresh, Staged, staging, publication
<1>4. Len(queue) = 0 /\ fed \in Nat
  BY <1>1, <1>2 DEF ImportTypes
<1>5. Reach' = Reach
  <2>1. \A key \in AllKeys : Reach[key] = fed
    BY <1>2, <1>4 DEF Reach
  <2>2. CASE step' = step
    BY <1>2, <2>2 DEF Reach
  <2>3. CASE main' = "final" /\ step' = "close"
    <3>1. Snapshot' = fed
      BY <1>2, <2>3 DEF Snapshot
    <3>2. Reach' = [key \in AllKeys |-> fed]
      BY <2>3, <3>1 DEF Reach
    <3>3. Reach = [key \in AllKeys |-> fed]
      BY <1>2, <1>4 DEF Reach
    <3> QED
      BY <3>2, <3>3
  <2> QED
    BY <1>2, <2>2, <2>3
<1>6. BusyInv'
  BY <1>2 DEF BusyInv
<1> QED
  BY <1>1, <1>2, <1>3, <1>5, <1>6, LiveKept DEF disk, staging, publication

(***************************************************************************)
(* A job begins and ends.                                                  *)
(***************************************************************************)
LEMMA TakeLive == ASSUME ImportInv, Live, Take PROVE LiveInv'
<1>1. ImportTypes /\ FlowInv /\ LiveInv /\ Drains /\ ~failure
  BY DEF ImportInv, Live
<1>2. /\ step = "idle" /\ queue # <<>> /\ step' = "write" /\ todo' = Rows[Job]
      /\ UNCHANGED <<disk, main, fed, last, mode, queue, failure, busy, broken, writers, closed,
                     active, started, publication>>
  BY <1>1 DEF Take
<1>3. Idle
  BY <1>1, <1>2 DEF Drains, QuietOutside
<1>4. Job \in Nat \ {0} /\ Job = fed - Len(queue) + 1 /\ Job' = Job /\ Len(queue) \in Nat /\ fed \in Nat
  <2>1. Job \in Nat \ {0} /\ Job = fed - Len(queue) + 1 /\ Len(queue) \in Nat
    BY <1>1, <1>2, JobFacts
  <2> QED
    BY <1>1, <1>2, <2>1 DEF Job, ImportTypes
<1>5. Fresh' = Fresh
  BY <1>2 DEF Fresh, Staged, publication
<1> DEFINE J == Job
<1>6. Reach = [key \in AllKeys |-> J - 1]
  <2>1. fed - Len(queue) = J - 1
    BY <1>4
  <2> QED
    BY <1>2, <2>1 DEF Reach
<1>7. ASSUME NEW key \in AllKeys PROVE Reach'[key] = IF key \in Rows[J] THEN J - 1 ELSE J
  <2>1. busy'[key[2]] = None /\ key # None
    BY <1>1, <1>2, <1>3, KeyNone DEF Idle, ImportTypes, AllKeys
  <2>2. Reach'[key] = IF key \in todo' \/ busy'[key[2]] = key THEN Job' - 1 ELSE Job'
    BY <1>2 DEF Reach
  <2> QED
    BY <1>2, <1>4, <2>1, <2>2
<1> HIDE DEF J
<1>8. J \in Nat \ {0}
  BY <1>4 DEF J
<1>9. Good(Shelf, Reach')
  <2>1. Good(Shelf, Reach) /\ Shelf \in SUBSET Papers
    BY <1>1, ShelfTyped DEF LiveInv
  <2>2. Reach \in [AllKeys -> Int] /\ Reach' \in [AllKeys -> Int]
    <3>1. Reach' = [key \in AllKeys |-> Reach'[key]]
      BY <1>2 DEF Reach
    <3>2. \A key \in AllKeys : Reach'[key] \in Int
      BY <1>7, <1>8
    <3> QED
      BY <1>6, <1>8, <3>1, <3>2
  <2>3. \A key \in AllKeys : Reach[key] <= Reach'[key] /\ \A c \in 1..Reach'[key] : key \in Rows[c] => c <= Reach[key]
    <3> SUFFICES ASSUME NEW key \in AllKeys
                 PROVE  Reach[key] <= Reach'[key] /\ \A c \in 1..Reach'[key] : key \in Rows[c] => c <= Reach[key]
      OBVIOUS
    <3>1. Reach[key] = J - 1
      BY <1>6
    <3>2. CASE key \in Rows[J]
      BY <1>7, <1>8, <3>1, <3>2
    <3>3. CASE key \notin Rows[J]
      <4>1. Reach'[key] = J
        BY <1>7, <3>3
      <4>2. \A c \in 1..J : c # J => c <= J - 1
        BY <1>8
      <4> QED
        BY <1>8, <3>1, <3>3, <4>1, <4>2
    <3> QED
      BY <3>2, <3>3
  <2> HIDE DEF Good
  <2> QED
    BY <2>1, <2>2, <2>3, GoodReach
<1>10. Good(Shelf, Reach)'
  <2>1. Shelf' = Shelf
    BY <1>2, <1>5, ShelfKept DEF disk, publication
  <2> QED
    BY <1>9, <2>1 DEF Good, Increasing, Less
<1>11. BusyInv'
  <2>1. \A k \in Range(Catalogs) : busy'[k] = None
    BY <1>1, <1>2, <1>3 DEF Idle, ImportTypes
  <2> QED
    BY <2>1 DEF BusyInv
<1>12. WriterInv' /\ FreshInv' /\ NamedInv'
  BY <1>1, <1>2, <1>5, WriterKept, FreshKept, NamedKept DEF LiveInv, disk, publication
<1> QED
  BY <1>10, <1>11, <1>12, LiveBy

LEMMA EndJobLive == ASSUME ImportInv, Live, EndJob PROVE LiveInv'
<1>1. ImportTypes /\ FlowInv /\ LiveInv
  BY DEF ImportInv
<1>2. /\ step = "write" /\ todo = {} /\ Idle
      /\ IF Due THEN step' = "close" /\ UNCHANGED queue ELSE step' = "idle" /\ queue' = Tail(queue)
      /\ UNCHANGED <<disk, main, fed, last, mode, failure, staging, publication>>
  BY DEF EndJob
<1>3. queue # <<>> /\ main # "final"
  BY <1>1, <1>2 DEF FlowInv
<1>4. Fresh' = Fresh
  BY <1>2 DEF Fresh, Staged, staging, publication
<1>5. Reach = [key \in AllKeys |-> Job]
  <2>1. \A key \in AllKeys : busy[key[2]] = None /\ key # None
    BY <1>1, <1>2, KeyNone DEF Idle, ImportTypes, AllKeys
  <2> QED
    BY <1>2, <2>1 DEF Reach
<1>6. Reach' = [key \in AllKeys |-> Job]
  <2>1. CASE Due
    <3>1. Snapshot' = Job
      BY <1>2, <1>3, <2>1 DEF Snapshot, Job
    <3> QED
      BY <1>2, <2>1, <3>1 DEF Reach
  <2>2. CASE ~Due
    <3>1. fed' - Len(queue') = Job
      BY <1>1, <1>2, <1>3, <2>2, TailShape
    <3> QED
      BY <1>2, <2>2, <3>1 DEF Reach
  <2> QED
    BY <2>1, <2>2
<1>7. BusyInv'
  BY <1>2 DEF BusyInv
<1> QED
  BY <1>1, <1>2, <1>4, <1>5, <1>6, <1>7, LiveKept DEF disk, staging, publication

(***************************************************************************)
(* An invocation starts, from nothing or from a state.                     *)
(***************************************************************************)
LEMMA NothingYet ==
  ASSUME ImportTypes, FlowInv, main = "off", UNCHANGED <<queue, step, staging, outputs>>
  PROVE  WriterInv' /\ Fresh' = {} /\ started' = {} /\ step' = "idle" /\ FreshInv' /\ BusyInv'
<1>1. /\ DOMAIN writers' = {} /\ closed' = {} /\ active' = <<>> /\ started' = {} /\ step' = "idle" /\ outputs' = {}
  BY DEF FlowInv, staging
<1>2. Fresh' = {}
  BY <1>1 DEF Fresh
<1>3. WriterInv'
  BY <1>1 DEF WriterInv
<1> QED
  BY <1>1, <1>2, <1>3 DEF FreshInv, BusyInv

LEMMA BeginLive == ASSUME ImportInv, Begin PROVE LiveInv'
<1>1. ImportTypes /\ FlowInv
  BY DEF ImportInv
<1>2. /\ main = "off" /\ UNCHANGED <<disk, queue, step, staging, outputs>>
      /\ fed' = 0 /\ published' = {} /\ mode' \in {"new", "rebuild"} /\ queue = <<>>
  BY <1>1 DEF Begin, Launch, FlowInv
<1>3. WriterInv' /\ Fresh' = {} /\ started' = {} /\ step' = "idle" /\ FreshInv' /\ BusyInv'
  BY <1>1, <1>2, NothingYet
<1>4. Shelf' = {}
  BY <1>2, <1>3 DEF Shelf, OnDisk
<1>5. Reach' = [key \in AllKeys |-> 0]
  <2>1. Len(queue') = 0 /\ fed' = 0
    BY <1>2
  <2> QED
    BY <1>3, <2>1 DEF Reach
<1>6. Good(Shelf, Reach)'
  <2>1. \A key \in Keys : 1..Reach'[key] = {}
    BY <1>5, KeysTyped
  <2> QED
    BY <1>4, <2>1 DEF Good
<1>7. NamedInv'
  BY <1>2, <1>3 DEF NamedInv
<1> QED
  BY <1>3, <1>6, <1>7, LiveBy

LEMMA ResumeLive == ASSUME ImportInv, Resume PROVE LiveInv'
<1>1. ImportTypes /\ FlowInv /\ DiskInv
  BY DEF ImportInv
<1>2. /\ main = "off" /\ UNCHANGED <<disk, queue, step, staging, outputs>> /\ queue = <<>> /\ mode' = "tail"
  BY <1>1 DEF Resume, Launch, FlowInv
<1>3. PICK d \in DOMAIN states :
        /\ \A p \in states[d].published : p \in LatestParts(p.key)
        /\ fed' = states[d].next /\ published' = states[d].published
  BY DEF Resume
<1>4. WriterInv' /\ Fresh' = {} /\ started' = {} /\ step' = "idle" /\ FreshInv' /\ BusyInv'
  BY <1>1, <1>2, NothingYet
<1>5. /\ published' \subseteq DOMAIN parts /\ InOrder(published')
      /\ \A key \in Keys : Contents(published', key) = {c \in 1..fed' : key \in Rows[c]}
  BY <1>1, <1>3 DEF DiskInv, StateHolds
<1>6. Shelf' = {[name |-> p, recs |-> parts[p]] : p \in published'} /\ parts' = parts
  BY <1>2, <1>4 DEF Shelf, OnDisk, disk
<1>7. Reach' = [key \in AllKeys |-> fed'] /\ fed' \in Nat
  <2>1. fed' \in Nat
    BY <1>1, <1>3 DEF ImportTypes
  <2>2. Len(queue') = 0
    BY <1>2
  <2>3. fed' - Len(queue') = fed'
    <3>1. \A x \in Nat : x - 0 = x
      OBVIOUS
    <3> QED
      BY <2>1, <2>2, <3>1, Zenon
  <2> QED
    BY <1>4, <2>1, <2>3 DEF Reach
<1>8. \A p \in published' : /\ p \in Names /\ p.key \in AllKeys /\ p.rev \in Nat /\ p.part \in Nat
                            /\ parts[p] \in Seq(Nat) /\ DOMAIN parts[p] = 1..Len(parts[p])
  <2> SUFFICES ASSUME NEW p \in published'
               PROVE  /\ p \in Names /\ p.key \in AllKeys /\ p.rev \in Nat /\ p.part \in Nat
                      /\ parts[p] \in Seq(Nat) /\ DOMAIN parts[p] = 1..Len(parts[p])
    OBVIOUS
  <2>1. p \in Names /\ parts[p] \in Seq(Nat)
    BY <1>1, <1>5 DEF ImportTypes
  <2> QED
    BY <2>1, NamesFields
<1>9. ASSUME NEW p \in published', NEW q \in published', p.key = q.key
      PROVE  /\ p.rev = q.rev
             /\ p.part = q.part => p = q
             /\ p.part < q.part => Less(parts[p], parts[q])
  <2>1. p \in PartsOf(p.key) /\ q \in PartsOf(p.key)
    BY <1>5, <1>9 DEF PartsOf
  <2>2. p.rev <= q.rev /\ q.rev <= p.rev
    BY <1>3, <1>9, <2>1 DEF LatestParts
  <2>3. p.rev = q.rev
    BY <1>8, <2>2
  <2>4. p.part = q.part => p = q
    BY <1>8, <1>9, <2>3 DEF Names
  <2>5. p.part < q.part => Less(parts[p], parts[q])
    BY <1>5, <1>9, <2>3 DEF InOrder, Precedes, Less
  <2> QED
    BY <2>3, <2>4, <2>5
<1>10. Good(Shelf, Reach)'
  <2>1. ASSUME NEW o \in Shelf'
        PROVE  /\ Increasing(o.recs)
               /\ \A i \in 1..Len(o.recs) : o.recs[i] \in 1..fed' /\ o.name.key \in Rows[o.recs[i]]
               /\ o.name.key \in AllKeys
    <3>1. PICK p \in published' : o = [name |-> p, recs |-> parts[p]]
      BY <1>6
    <3>2. Increasing(parts[p]) /\ p.key \in AllKeys /\ DOMAIN parts[p] = 1..Len(parts[p])
      BY <1>5, <1>8 DEF InOrder
    <3>3. ASSUME NEW i \in 1..Len(parts[p]) PROVE parts[p][i] \in 1..fed' /\ p.key \in Rows[parts[p][i]]
      <4>1. p.key \in Keys
        BY <1>1, <1>5 DEF DiskInv
      <4>2. parts[p][i] \in Contents(published', p.key)
        BY <3>2 DEF Contents, Range
      <4> QED
        BY <1>5, <4>1, <4>2
    <3> QED
      BY <3>1, <3>2, <3>3
  <2>2. ASSUME NEW key \in Keys, NEW c \in 1..fed', key \in Rows[c]
        PROVE  \E o \in Shelf' : o.name.key = key /\ \E i \in 1..Len(o.recs) : o.recs[i] = c
    <3>1. c \in Contents(published', key)
      BY <1>5, <2>2
    <3>2. PICK p \in published' : p.key = key /\ c \in Range(parts[p])
      BY <3>1 DEF Contents
    <3>3. PICK i \in 1..Len(parts[p]) : parts[p][i] = c
      BY <1>8, <3>2 DEF Range
    <3> DEFINE o == [name |-> p, recs |-> parts[p]]
    <3>4. o \in Shelf' /\ o.name = p /\ o.recs = parts[p]
      BY <1>6
    <3> HIDE DEF o
    <3> QED
      BY <3>2, <3>3, <3>4
  <2>3. ASSUME NEW o \in Shelf', NEW p \in Shelf', o.name.key = p.name.key
        PROVE  /\ o.name.rev = p.name.rev
               /\ o.name.part = p.name.part => o = p
               /\ o.name.part < p.name.part => Less(o.recs, p.recs)
    <3>1. PICK a \in published' : o = [name |-> a, recs |-> parts[a]]
      BY <1>6
    <3>2. PICK b \in published' : p = [name |-> b, recs |-> parts[b]]
      BY <1>6
    <3> QED
      BY <1>9, <2>3, <3>1, <3>2
  <2>4. \A key \in Keys : Reach'[key] = fed'
    BY <1>7, KeysTyped
  <2> QED
    BY <1>7, <2>1, <2>2, <2>3, <2>4 DEF Good, Less, Increasing
<1>11. NamedInv'
  <2>1. \A p \in published' : p \in LatestParts(p.key)'
    BY <1>3, <1>6 DEF LatestParts, PartsOf
  <2> QED
    BY <1>2, <1>4, <1>5, <1>6, <2>1 DEF NamedInv
<1> QED
  BY <1>4, <1>10, <1>11, LiveBy

(***************************************************************************)
(* Publication.                                                            *)
(***************************************************************************)
LEMMA ReachPublishing ==
  ASSUME step \notin {"idle", "write"} PROVE Reach = [key \in AllKeys |-> Snapshot]
BY DEF Reach

LEMMA RenameLive == ASSUME ImportInv, NEW o \in outputs, Rename(o) PROVE LiveInv'
<1> DEFINE n == o.name
           k == o.name.key
<1>1. /\ LiveInv /\ ImportTypes /\ Fresh = outputs /\ o \in Shelf /\ o \in Papers /\ step = "rename"
      /\ n \in Names /\ n \notin DOMAIN parts /\ DOMAIN parts' = DOMAIN parts \cup {n}
      /\ parts'[n] = o.recs /\ \A p \in DOMAIN parts : parts'[p] = parts[p]
      /\ \A key : key # k => PartsOf(key)' = PartsOf(key) /\ LatestParts(key)' = LatestParts(key)
      /\ PartsOf(k)' = PartsOf(k) \cup {n} /\ n \in LatestParts(k)'
      /\ \A p \in PartsOf(k) : p.rev = n.rev => p \in LatestParts(k)'
      /\ \A p \in LatestParts(k)' : p = n \/ (p \in PartsOf(k) /\ p.rev = n.rev)
  BY RenameFacts
<1>2. /\ step' = step /\ outputs' = outputs \ {o} /\ published' = published \cup {n}
      /\ UNCHANGED <<thread, staging>>
      /\ \A other \in outputs : other.name.key = k => n.part <= other.name.part
  BY DEF Rename
<1>3. WriterInv'
  BY <1>1, <1>2, WriterKept DEF LiveInv, staging
<1>4. Fresh' = Fresh \ {o} /\ published \subseteq DOMAIN parts /\ Fresh \subseteq Shelf
  BY <1>1, <1>2 DEF Fresh, LiveInv, NamedInv, Shelf
<1>5. Shelf' = Shelf
  <2>1. o = [name |-> n, recs |-> o.recs]
    BY <1>1 DEF Papers
  <2>2. OnDisk' = OnDisk \cup {o}
    <3>1. OnDisk' = {[name |-> p, recs |-> parts'[p]] : p \in published \cup {n}}
      BY <1>2 DEF OnDisk
    <3>2. \A p \in published : parts'[p] = parts[p]
      BY <1>1, <1>4
    <3> QED
      BY <1>1, <2>1, <3>1, <3>2 DEF OnDisk
  <2> QED
    BY <1>1, <1>4, <2>2 DEF Shelf
<1>6. Reach' = Reach
  BY <1>1, <1>2 DEF Reach, Snapshot, Job, thread, staging
<1>7. Good(Shelf, Reach)'
  BY <1>1, <1>5, <1>6, GoodKept DEF LiveInv
<1>8. FreshInv'
  <2> SUFFICES ASSUME NEW x \in outputs \ {o}, NEW p \in PartsOf(x.name.key)'
               PROVE  /\ Precedes(p, x.name)
                      /\ p.rev = x.name.rev =>
                           /\ mode' # "tail" => p \in published'
                           /\ x.name.key[2] = "observations" => Less(parts'[p], x.recs)
    BY <1>1, <1>4 DEF FreshInv, Less
  <2>0. x \in Fresh /\ x \in Shelf /\ mode' = mode
    BY <1>1, <1>2, <1>4 DEF thread
  <2>1. CASE p \in PartsOf(x.name.key)
    <3>1. p \in DOMAIN parts
      BY <2>1 DEF PartsOf
    <3> QED
      BY <1>1, <1>2, <2>0, <2>1, <3>1 DEF LiveInv, FreshInv
  <2>2. CASE p \notin PartsOf(x.name.key)
    <3>1. p = n /\ x.name.key = k
      BY <1>1, <2>2
    <3>2. n.rev = x.name.rev /\ n.part <= x.name.part /\ n.part # x.name.part
          /\ (n.part < x.name.part => Less(o.recs, x.recs))
      <4>1. n.part <= x.name.part
        BY <1>2, <3>1
      <4> QED
        BY <1>1, <2>0, <3>1, <4>1 DEF LiveInv, Good
    <3>3. n.part \in Nat /\ x.name.part \in Nat
      <4>1. x.name \in Names
        BY <1>1, <2>0 DEF ImportTypes, Papers
      <4> QED
        BY <1>1, <4>1, NamesFields
    <3>4. n.part < x.name.part
      BY <3>2, <3>3
    <3> QED
      BY <1>1, <1>2, <3>1, <3>2, <3>4 DEF Precedes
  <2> QED
    BY <2>1, <2>2
<1>9. NamedInv'
  <2>0. /\ NamedInv /\ o \in Fresh /\ mode' = mode /\ started' = started
    BY <1>1, <1>2 DEF LiveInv, thread, staging
  <2>1. published' \subseteq DOMAIN parts'
    BY <1>1, <1>2, <1>4
  <2>2. ASSUME NEW p \in published' PROVE p \in LatestParts(p.key)'
    <3>1. CASE p = n
      BY <1>1, <3>1
    <3>2. CASE p \in published /\ p.key = k
      <4>1. [name |-> p, recs |-> parts[p]] \in Shelf
        BY <3>2 DEF Shelf, OnDisk
      <4>2. [name |-> p, recs |-> parts[p]].name.rev = n.rev
        BY <1>1, <3>2, <4>1 DEF LiveInv, Good
      <4>3. p \in PartsOf(k)
        BY <1>4, <3>2 DEF PartsOf
      <4> QED
        BY <1>1, <3>2, <4>2, <4>3
    <3>3. CASE p \in published /\ p.key # k
      BY <1>1, <2>0, <3>3 DEF NamedInv
    <3> QED
      BY <1>2, <3>1, <3>2, <3>3
  <2>3. n.key \in started
    BY <2>0 DEF NamedInv
  <2>4. mode # "tail" => \A key \in started :
          (\E x \in Fresh' : x.name.key = key) \/ LatestParts(key)' \subseteq published'
    <3> SUFFICES ASSUME mode # "tail", NEW key \in started
                 PROVE  (\E x \in Fresh' : x.name.key = key) \/ LatestParts(key)' \subseteq published'
      OBVIOUS
    <3>1. CASE key = k
      <4>1. \A p \in PartsOf(k) : p.rev = n.rev => p \in published
        BY <1>1, <2>0 DEF LiveInv, FreshInv
      <4> QED
        BY <1>1, <1>2, <3>1, <4>1
    <3>2. CASE key # k
      BY <1>1, <1>2, <1>4, <2>0, <3>2 DEF NamedInv
    <3> QED
      BY <3>1, <3>2
  <2>5. \A x \in Fresh' : x.name.key \in started
    BY <1>4, <2>0 DEF NamedInv
  <2> QED
    BY <1>2, <2>0, <2>1, <2>2, <2>3, <2>4, <2>5 DEF NamedInv
<1>10. BusyInv'
  BY <1>1, <1>2 DEF BusyInv
<1> QED
  BY <1>3, <1>7, <1>8, <1>9, <1>10, LiveBy

\* Nothing is left of a publication but what is on disk.
LEMMA PublishedLive ==
  ASSUME ImportInv, Live, step \in {"save", "marking"}, Published, UNCHANGED <<parts, main, fed, last, mode, failure>>
  PROVE  LiveInv'
<1>1. ImportTypes /\ FlowInv /\ LiveInv /\ outputs = {} /\ Fresh = {}
  BY DEF ImportInv, FlowInv, Fresh
<1>2. /\ step' = "idle" /\ queue' = (IF main = "final" THEN queue ELSE Tail(queue))
      /\ writers' = <<>> /\ closed' = {} /\ active' = <<>>
      /\ UNCHANGED <<busy, broken, started, todo, outputs, published>>
  BY DEF Published, Cleared
<1>3. DOMAIN writers' = {}
  BY <1>2, EmptyDomain
<1>4. Fresh' = {}
  BY <1>2, <1>3 DEF Fresh
<1>5. WriterInv'
  BY <1>2, <1>3 DEF WriterInv
<1>6. Reach' = Reach
  <2>1. Reach = [key \in AllKeys |-> Snapshot]
    BY ReachPublishing
  <2>2. fed' - Len(queue') = Snapshot
    <3>1. CASE main = "final"
      <4>1. queue = <<>> /\ fed = last /\ fed \in Nat
        BY <1>1, <3>1 DEF FlowInv, ImportTypes
      <4> QED
        BY <1>2, <3>1, <4>1 DEF Snapshot
    <3>2. CASE main # "final"
      <4>1. queue # <<>>
        BY <1>1, <3>2 DEF FlowInv
      <4>2. fed' - Len(queue') = Job
        BY <1>1, <1>2, <3>2, <4>1, TailShape
      <4> QED
        BY <3>2, <4>2 DEF Snapshot
    <3> QED
      BY <3>1, <3>2
  <2> QED
    BY <1>2, <2>1, <2>2 DEF Reach
<1>7. FreshInv' /\ NamedInv'
  BY <1>1, <1>2, <1>4, FreshKept, NamedKept DEF LiveInv
<1>8. Good(Shelf, Reach)'
  BY <1>1, <1>2, <1>4, <1>6, ShelfKept, GoodKept DEF LiveInv
<1>9. BusyInv'
  BY <1>2 DEF BusyInv
<1> QED
  BY <1>5, <1>7, <1>8, <1>9, LiveBy

LEMMA SaveLive == ASSUME ImportInv, Live, SaveBegin \/ Save \/ MarkBegin \/ Mark, ~failure' PROVE LiveInv'
<1>1. LiveInv
  BY DEF ImportInv
<1>2. CASE Published
  <2>1. step' = "idle"
    BY <1>2 DEF Published
  <2>2. ~SaveBegin /\ ~MarkBegin
    BY <2>1 DEF SaveBegin, MarkBegin, OpenState, Poison
  <2>3. step \in {"save", "marking"} /\ UNCHANGED <<parts, main, fed, last, mode, failure>>
    BY <2>2 DEF Save, Mark
  <2> QED
    BY <1>2, <2>3, PublishedLive
<1>3. CASE ~Published
  <2>1. /\ step \in {"rename", "save", "mark"} /\ step' \in {"save", "mark", "marking"}
        /\ UNCHANGED <<parts, thread, staging, outputs, published>>
    BY <1>3 DEF SaveBegin, Save, MarkBegin, Mark, OpenState, Poison, thread, publication
  <2>2. Fresh' = Fresh
    BY <2>1 DEF Fresh
  <2>3. Reach' = Reach
    BY <2>1 DEF Reach, Snapshot, Job, thread
  <2>4. BusyInv'
    BY <2>1 DEF BusyInv
  <2> QED
    BY <1>1, <2>1, <2>2, <2>3, <2>4, LiveKept DEF staging, thread
<1> QED
  BY <1>2, <1>3

(***************************************************************************)
(* Writers are opened, evicted, filled and closed.                         *)
(***************************************************************************)
LEMMA FreshOf ==
  ASSUME ImportTypes, WriterInv, step \in {"idle", "write", "close"}
  PROVE  /\ Fresh = closed \cup {Staged(k) : k \in DOMAIN writers}
         /\ \A o \in Fresh : o.name.key \in DOMAIN writers
         /\ \A k \in DOMAIN writers : /\ Staged(k) \in Fresh /\ Staged(k).name = writers[k].name
                                      /\ Staged(k).recs = writers[k].recs
                                      /\ writers[k].name \in Names /\ writers[k].recs \in Seq(Nat)
<1>1. Fresh = closed \cup {Staged(k) : k \in DOMAIN writers}
  BY DEF Fresh
<1>2. \A k \in DOMAIN writers : writers[k].name.key = k /\ Staged(k).name = writers[k].name /\ Staged(k).recs = writers[k].recs
  BY DEF WriterInv, Staged
<1>3. \A k \in DOMAIN writers : writers[k].name \in Names /\ writers[k].recs \in Seq(Nat)
  BY DEF ImportTypes
<1> QED
  BY <1>1, <1>2, <1>3 DEF WriterInv

\* The part of a writer is the last of its key.
LEMMA LastPart ==
  ASSUME ImportTypes, LiveInv, step \in {"idle", "write", "close"}, NEW k \in DOMAIN writers, NEW o \in Shelf, o.name.key = k
  PROVE  o.name.rev = writers[k].name.rev /\ o.name.part <= writers[k].name.part
<1> DEFINE n == writers[k].name
<1>1. /\ Staged(k) \in Shelf /\ Staged(k).name = n /\ n \in Names /\ n.key = k /\ Staged(k) \in Fresh
      /\ Fresh = closed \cup {Staged(x) : x \in DOMAIN writers}
  BY FreshOf DEF LiveInv, WriterInv, Shelf
<1>2. o.name.rev = n.rev
  BY <1>1 DEF LiveInv, Good
<1>3. o.name \in Names
  BY ShelfTyped DEF LiveInv, Papers
<1>4. o.name.part \in Nat /\ n.part \in Nat /\ o.name.rev \in Nat /\ n.rev \in Nat
  BY <1>1, <1>3, NamesFields
<1>5. CASE o \in closed
  BY <1>2, <1>5 DEF LiveInv, WriterInv
<1>6. ASSUME NEW x \in DOMAIN writers, o = Staged(x) PROVE o.name.part <= n.part
  <2>1. x = k
    BY <1>6, FreshOf DEF LiveInv, WriterInv
  <2> QED
    BY <1>1, <1>4, <1>6, <2>1
<1>7. ASSUME NEW p \in published, o = [name |-> p, recs |-> parts[p]] PROVE o.name.part <= n.part
  <2>1. o.name = p /\ p \in PartsOf(k)
    BY <1>7 DEF LiveInv, NamedInv, PartsOf
  <2>2. Precedes(p, n)
    BY <1>1, <2>1 DEF LiveInv, FreshInv
  <2> QED
    BY <1>2, <1>4, <2>1, <2>2 DEF Precedes
<1> QED
  BY <1>1, <1>2, <1>5, <1>6, <1>7 DEF Shelf, OnDisk

\* A name asked for lies behind all parts of its key, on disk or not.
LEMMA NewPart ==
  ASSUME ImportTypes, DiskInv, LiveInv, step \in {"write", "close"}, NEW key \in AllKeys,
         key \notin started => mode \in {"tail", "rebuild"} \/ PartsOf(key) = {}
  PROVE  /\ Named(key) \in Names /\ Named(key).key = key
         /\ \A p \in PartsOf(key) : Precedes(p, Named(key))
         /\ \A p \in PartsOf(key) : p.rev = Named(key).rev => p \in LatestParts(key) /\ (mode # "tail" => p \in published)
         /\ \A o \in Shelf : o.name.key = key => o.name.rev = Named(key).rev /\ o.name.part < Named(key).part
         /\ \A o \in closed : o.name.key = key => o.name.part < Named(key).part
<1> DEFINE n == Named(key)
<1>1. CASE key \in DOMAIN writers
  <2> DEFINE w == writers[key].name
  <2>1. /\ Staged(key) \in Fresh /\ Staged(key).name = w /\ w \in Names /\ w.key = key
    BY <1>1, FreshOf DEF LiveInv, WriterInv
  <2>2. n = [w EXCEPT !.part = @ + 1]
    BY <1>1 DEF Named
  <2>3. w.rev \in Nat /\ w.part \in Nat
    BY <2>1, NamesFields
  <2>4. n \in Names /\ n.key = key /\ n.rev = w.rev /\ n.part = w.part + 1
    BY <2>1, <2>2, <2>3 DEF Names
  <2>5. ASSUME NEW p \in PartsOf(key)
        PROVE  /\ Precedes(p, n)
               /\ p.rev = n.rev => p \in LatestParts(key) /\ (mode # "tail" => p \in published)
    <3>1. \A q \in PartsOf(key) : Precedes(q, w) /\ q \in Names
      BY <2>1 DEF LiveInv, FreshInv, PartsOf, ImportTypes
    <3>2. \A q \in PartsOf(key) : q.rev \in Nat /\ q.part \in Nat /\ q.rev <= w.rev
      BY <2>3, <3>1, NamesFields DEF Precedes
    <3>3. Precedes(p, n)
      BY <2>1, <2>3, <2>4, <3>1, <3>2 DEF Precedes
    <3>4. p.rev = n.rev => p \in LatestParts(key)
      BY <2>4, <3>2 DEF LatestParts
    <3>5. p.rev = n.rev /\ mode # "tail" => p \in published
      BY <2>1, <2>4 DEF LiveInv, FreshInv
    <3> QED
      BY <3>3, <3>4, <3>5
  <2>6. ASSUME NEW o \in Shelf, o.name.key = key PROVE o.name.rev = n.rev /\ o.name.part < n.part
    <3>1. o.name.rev = w.rev /\ o.name.part <= w.part
      BY <1>1, <2>6, LastPart
    <3>2. o.name.part \in Nat
      BY ShelfTyped, NamesFields DEF LiveInv, Papers
    <3> QED
      BY <2>3, <2>4, <3>1, <3>2
  <2>7. closed \subseteq Shelf
    BY FreshOf DEF LiveInv, Shelf
  <2> QED
    BY <2>4, <2>5, <2>6, <2>7
<1>2. CASE key \notin DOMAIN writers
  <2> DEFINE how == IF key \in started THEN "tail" ELSE mode
  <2>1. n = NextName(key, how)
    BY <1>2 DEF Named
  <2>2. /\ n \in Names /\ n.key = key /\ \A p \in PartsOf(key) : Precedes(p, n)
        /\ \A p \in PartsOf(key) : p.rev = n.rev => p \in LatestParts(key)
        /\ how # "rebuild" => \A p \in LatestParts(key) : p.rev = n.rev
        /\ how = "rebuild" => n.part = 0
    BY <2>1, NextNamed
  <2>3. n.rev \in Nat /\ n.part \in Nat
    BY <2>2, NamesFields
  <2>4. \A o \in Fresh : o.name.key # key
    BY <1>2, FreshOf DEF LiveInv
  <2>5. ASSUME NEW p \in PartsOf(key), p.rev = n.rev, mode # "tail" PROVE p \in published
    <3>1. p \in LatestParts(key)
      BY <2>2, <2>5
    <3>2. CASE key \in started
      BY <2>4, <2>5, <3>1, <3>2 DEF LiveInv, NamedInv
    <3>3. CASE key \notin started
      <4>1. how = "rebuild"
        BY <2>5, <3>3
      <4>2. p.part < 0
        BY <2>2, <2>3, <2>5, <4>1 DEF Precedes
      <4>3. p.part \in Nat
        BY NamesFields DEF PartsOf, ImportTypes
      <4> QED
        BY <4>2, <4>3
    <3> QED
      BY <3>2, <3>3
  <2>6. ASSUME NEW o \in Shelf, o.name.key = key PROVE o.name.rev = n.rev /\ o.name.part < n.part
    <3>1. PICK p \in published : o = [name |-> p, recs |-> parts[p]]
      BY <2>4, <2>6 DEF Shelf, OnDisk
    <3>2. o.name = p /\ p \in LatestParts(key) /\ p \in PartsOf(key)
      BY <2>6, <3>1 DEF LiveInv, NamedInv, PartsOf
    <3>3. how # "rebuild"
      BY <2>6, <3>2 DEF LiveInv, NamedInv
    <3>4. p.rev = n.rev
      BY <2>2, <3>2, <3>3
    <3>5. p.part < n.part
      BY <2>2, <2>3, <3>2, <3>4 DEF Precedes
    <3> QED
      BY <3>2, <3>4, <3>5
  <2>7. closed \subseteq Fresh
    BY FreshOf DEF LiveInv
  <2> HIDE DEF how, n
  <2> QED
    BY <2>2, <2>4, <2>5, <2>6, <2>7 DEF n
<1> QED
  BY <1>1, <1>2

\* New parts, still empty, join the shelf.
LEMMA NewFresh ==
  ASSUME ImportTypes, DiskInv, LiveInv, step \in {"write", "close"}, NEW K \in SUBSET AllKeys,
         \A key \in K : key \notin started => mode \in {"tail", "rebuild"} \/ PartsOf(key) = {},
         Fresh' = Fresh \cup {[name |-> Named(key), recs |-> <<>>] : key \in K},
         Reach' = Reach, UNCHANGED <<parts, published, mode>>, started' = started \cup K, K \subseteq Keys
  PROVE  Good(Shelf, Reach)' /\ FreshInv' /\ NamedInv'
<1> DEFINE New(key) == [name |-> Named(key), recs |-> <<>>]
           T == {New(key) : key \in K}
<1>1. \A key \in K : New(key).name = Named(key) /\ New(key).recs = <<>> /\ New(key) \in Papers
  BY NewPart, EmptyParts DEF Papers
<1>2. \A key \in K :
         /\ Named(key).key = key
         /\ \A p \in PartsOf(key) : Precedes(p, Named(key))
         /\ \A p \in PartsOf(key) : p.rev = Named(key).rev /\ mode # "tail" => p \in published
         /\ \A o \in Shelf : o.name.key = key => o.name.rev = Named(key).rev /\ o.name.part < Named(key).part
  BY NewPart
<1> HIDE DEF New
<1>3. Shelf' = Shelf \cup T
  BY DEF Shelf, OnDisk, New
<1>4. Good(Shelf \cup T, Reach)
  <2>1. Shelf \in SUBSET Papers /\ T \in SUBSET Papers
    BY <1>1, ShelfTyped DEF LiveInv
  <2>2. \A o \in T : o.recs = <<>>
    BY <1>1
  <2>3. \A o \in T, p \in Shelf : o.name.key = p.name.key => o.name.rev = p.name.rev /\ p.name.part < o.name.part
    BY <1>1, <1>2
  <2>4. \A o, p \in T : o.name.key = p.name.key => o = p
    BY <1>1, <1>2
  <2> HIDE DEF T
  <2> QED
    BY <2>1, <2>2, <2>3, <2>4, GoodNew DEF LiveInv
<1>5. Good(Shelf, Reach)'
  BY <1>3, <1>4 DEF Good, Increasing, Less
<1>6. FreshInv'
  <2> SUFFICES ASSUME NEW o \in Fresh', NEW p \in PartsOf(o.name.key)
               PROVE  /\ Precedes(p, o.name)
                      /\ p.rev = o.name.rev =>
                           /\ mode # "tail" => p \in published
                           /\ o.name.key[2] = "observations" => Less(parts[p], o.recs)
    BY DEF FreshInv, PartsOf, Less
  <2>1. CASE o \in Fresh
    BY <2>1 DEF LiveInv, FreshInv
  <2>2. CASE o \in T
    <3>1. PICK key \in K : o = New(key)
      BY <2>2
    <3> QED
      BY <1>1, <1>2, <3>1, EmptyParts
  <2> QED
    BY <2>1, <2>2 DEF New
<1>7. NamedInv'
  <2>1. \A key \in K : \E o \in Fresh' : o.name.key = key
    BY <1>1, <1>2 DEF New
  <2>2. \A o \in Fresh' : o.name.key \in started'
    <3>1. \A o \in T : o.name.key \in K
      BY <1>1, <1>2
    <3> QED
      BY <3>1 DEF LiveInv, NamedInv, New
  <2>3. NamedInv /\ Fresh \subseteq Fresh'
    BY DEF LiveInv
  <2>4. \A key : LatestParts(key)' = LatestParts(key)
    BY DEF LatestParts, PartsOf
  <2> QED
    BY <2>1, <2>2, <2>3, <2>4 DEF NamedInv
<1> QED
  BY <1>5, <1>6, <1>7

LEMMA CloseLive == ASSUME ImportInv, Live, Close, ~failure' PROVE LiveInv'
<1>0. ImportTypes /\ FlowInv /\ DiskInv /\ LiveInv /\ step = "close"
  BY DEF ImportInv, Close
<1> DEFINE T == {[name |-> Named(key), recs |-> <<>>] : key \in Emptied}
           all == closed \cup {Staged(key) : key \in {k \in DOMAIN writers : writers[k].open}} \cup T
<1>1. /\ outputs' = all /\ step' = "rename" /\ started' = started \cup Emptied
      /\ UNCHANGED <<disk, thread, todo, busy, broken, writers, closed, active, published, current>>
  BY DEF Close, Poison
<1>2. /\ Emptied \subseteq AllKeys
      /\ \A key \in Emptied : mode = "rebuild" /\ key \notin started /\ PartsOf(key) # {}
  BY <1>0 DEF Emptied, ImportTypes, AllKeys
<1>3. Emptied \subseteq Keys
  BY <1>0, <1>2 DEF DiskInv, PartsOf
<1>4. Fresh' = Fresh \cup T
  <2>1. Fresh' = all
    BY <1>1 DEF Fresh
  <2>2. Fresh = closed \cup {Staged(k) : k \in DOMAIN writers}
    BY <1>0 DEF Fresh
  <2>3. \A k \in DOMAIN writers : writers[k].open \/ Staged(k) \in closed
    BY <1>0 DEF LiveInv, WriterInv
  <2> HIDE DEF T
  <2> QED
    BY <2>1, <2>2, <2>3
<1>5. Reach' = Reach
  <2>1. Snapshot' = Snapshot
    BY <1>1 DEF Snapshot, Job, thread
  <2> QED
    BY <1>0, <1>1, <2>1 DEF Reach
<1>6. Good(Shelf, Reach)' /\ FreshInv' /\ NamedInv'
  <2>1. UNCHANGED <<parts, published, mode>>
    BY <1>1 DEF disk, thread
  <2> HIDE DEF all
  <2> QED
    BY <1>0, <1>1, <1>2, <1>3, <1>4, <1>5, <2>1, NewFresh
<1>7. WriterInv'
  BY <1>0, <1>1 DEF LiveInv, WriterInv, IsOpen, Staged
<1>8. BusyInv'
  BY <1>1 DEF BusyInv
<1> QED
  BY <1>6, <1>7, <1>8, LiveBy

LEMMA EvictKept == ASSUME ImportInv, NEW key, Evict(key) PROVE LiveInv'
<1>0. ImportTypes /\ FlowInv /\ LiveInv /\ WriterInv /\ step = "write"
  BY EvictLive DEF ImportInv, LiveInv
<1> DEFINE v == active[1]
<1>1. /\ MustEvict(key) /\ closed' = closed \cup {Staged(v)} /\ active' = Tail(active)
      /\ writers' = [writers EXCEPT ![v].open = FALSE]
      /\ UNCHANGED <<disk, thread, step, todo, busy, broken, started, publication, budget>>
  BY DEF Evict
<1>2. /\ 1 \in 1..Len(active) /\ Len(active') = Len(active) - 1 /\ Len(active) \in Nat
      /\ \A i \in 1..Len(active') : active'[i] = active[i + 1] /\ i + 1 \in 1..Len(active)
  BY <1>0, <1>1, FirstUsed
<1>3. v \in DOMAIN writers /\ writers[v].open
  BY <1>0, <1>2 DEF WriterInv, IsOpen
<1>4. /\ DOMAIN writers' = DOMAIN writers /\ ~writers'[v].open
      /\ \A k \in DOMAIN writers : /\ writers'[k].name = writers[k].name /\ writers'[k].recs = writers[k].recs
                                   /\ k # v => writers'[k] = writers[k]
  <2>1. \A k \in DOMAIN writers : writers[k] \in [name : Names, recs : Seq(Nat), open : BOOLEAN]
    BY <1>0 DEF ImportTypes
  <2> QED
    BY <1>1, <1>3, <2>1
<1> HIDE DEF v
<1>5. \A k \in DOMAIN writers : Staged(k)' = Staged(k)
  BY <1>4 DEF Staged
<1>6. Fresh' = Fresh
  BY <1>0, <1>1, <1>3, <1>4, <1>5 DEF Fresh
<1>7. WriterInv'
  <2>1. ASSUME NEW i \in 1..Len(active') PROVE IsOpen(active[i])'
    <3>1. active'[i] = active[i + 1] /\ i + 1 \in 1..Len(active) /\ i + 1 # 1
      BY <1>2
    <3>2. active[i + 1] # v
      BY <1>0, <1>2, <3>1 DEF WriterInv, v
    <3> QED
      BY <1>0, <1>4, <3>1, <3>2 DEF WriterInv, IsOpen
  <2>2. \A i, j \in 1..Len(active') : active'[i] = active'[j] => i = j
    BY <1>0, <1>2 DEF WriterInv
  <2>3. ASSUME NEW k \in DOMAIN writers'
        PROVE  k \in started' /\ writers'[k].name.key = k /\ (writers'[k].open \/ Staged(k)' \in closed')
    <3>1. k \in started /\ writers[k].name.key = k /\ (writers[k].open \/ Staged(k) \in closed)
      BY <1>0, <1>4 DEF WriterInv
    <3> QED
      BY <1>1, <1>4, <1>5, <3>1
  <2>4. ASSUME NEW o \in closed'
        PROVE  /\ o.name.key \in DOMAIN writers' /\ o.name.part <= writers'[o.name.key].name.part
               /\ writers'[o.name.key].open => o.name.part < writers'[o.name.key].name.part
    <3>1. CASE o \in closed
      <4>1. /\ o.name.key \in DOMAIN writers /\ o.name.part <= writers[o.name.key].name.part
            /\ writers[o.name.key].open => o.name.part < writers[o.name.key].name.part
        BY <1>0, <3>1 DEF WriterInv
      <4>2. writers'[o.name.key].open => writers[o.name.key].open
        BY <1>4, <4>1
      <4> QED
        BY <1>4, <4>1, <4>2
    <3>2. CASE o = Staged(v)
      <4>1. o.name = writers[v].name /\ o.name.key = v /\ o.name \in Names
        BY <1>0, <1>3, <3>2, FreshOf DEF WriterInv
      <4>2. o.name.part \in Nat
        BY <4>1, NamesFields
      <4> QED
        BY <1>3, <1>4, <4>1, <4>2
    <3> QED
      BY <1>1, <3>1, <3>2
  <2> QED
    BY <2>1, <2>2, <2>3, <2>4 DEF WriterInv
<1>8. Reach' = Reach
  BY <1>1 DEF Reach, Snapshot, Job, thread
<1>9. BusyInv'
  <2>1. Idle
    BY DEF Evict, Drained
  <2>2. \A k \in Range(Catalogs) : busy'[k] = None
    BY <1>0, <1>1, <2>1 DEF Idle, ImportTypes
  <2> QED
    BY <2>2 DEF BusyInv
<1>10. FreshInv' /\ NamedInv'
  BY <1>0, <1>1, <1>6, FreshKept, NamedKept DEF LiveInv, disk, thread, publication
<1>11. Good(Shelf, Reach)'
  BY <1>0, <1>1, <1>6, <1>8, ShelfKept, GoodKept DEF LiveInv, disk, publication
<1> QED
  BY <1>7, <1>9, <1>10, <1>11, LiveBy

\* What a catalog's thread is given has not been written before.
LEMMA WriteBusy ==
  ASSUME ImportTypes, FlowInv, LiveInv, NEW key \in todo, step = "write", ~BeforeTail(key, Job),
         Reach[key] = Job - 1, NEW n, n \in Names,
         \A p \in PartsOf(key) : Precedes(p, n),
         \A p \in PartsOf(key) : p.rev = n.rev /\ mode # "tail" => p \in published,
         key[2] = "observations", NEW p \in PartsOf(key), p.rev = n.rev, NEW i \in 1..Len(parts[p])
  PROVE  parts[p][i] < Job
<1>1. Job \in Nat /\ key \in AllKeys
  BY JobFacts DEF FlowInv, ImportTypes
<1>2. p \in DOMAIN parts /\ p.key = key /\ parts[p] \in Seq(Nat) /\ DOMAIN parts[p] = 1..Len(parts[p])
  BY DEF PartsOf, ImportTypes
<1>3. parts[p][i] \in Nat
  BY <1>2
<1>4. CASE mode = "tail"
  <2>1. \A q \in PartsOf(key) : q.rev <= p.rev
    <3> SUFFICES ASSUME NEW q \in PartsOf(key) PROVE q.rev <= p.rev
      OBVIOUS
    <3>1. q.rev \in Nat /\ n.rev \in Nat
      BY NamesFields DEF PartsOf, ImportTypes
    <3>2. Precedes(q, n)
      OBVIOUS
    <3> QED
      BY <3>1, <3>2 DEF Precedes
  <2>2. p \in LatestParts(key)
    BY <2>1 DEF LatestParts
  <2>3. ~(Job <= parts[p][i])
    BY <1>2, <1>4, <2>2 DEF BeforeTail
  <2> QED
    BY <1>1, <1>3, <2>3
<1>5. CASE mode # "tail"
  <2>1. p \in published
    BY <1>5
  <2> DEFINE a == [name |-> p, recs |-> parts[p]]
  <2>2. a \in Shelf /\ a.name = p /\ a.recs = parts[p]
    BY <2>1 DEF Shelf, OnDisk
  <2> HIDE DEF a
  <2>3. parts[p][i] \in 1..Reach[key]
    BY <1>2, <2>2 DEF LiveInv, Good
  <2> QED
    BY <1>1, <2>3
<1> QED
  BY <1>4, <1>5

LEMMA WriteLive == ASSUME ImportInv, Live, NEW key \in todo, Write(key) PROVE LiveInv'
<1>0. ImportTypes /\ FlowInv /\ DiskInv /\ LiveInv /\ WriterInv /\ step = "write"
  BY DEF ImportInv, LiveInv, Write, Writable
<1>1. /\ busy[key[2]] = None /\ ~BeforeTail(key, Job) /\ ~Refused(key)
      /\ writers' = (IF IsOpen(key) THEN writers ELSE Opened(key))
      /\ busy' = [busy EXCEPT ![key[2]] = key] /\ todo' = todo \ {key}
      /\ active' = Recent(key) /\ started' = started \cup {key}
      /\ UNCHANGED <<disk, thread, step, broken, closed, publication, budget>>
  BY DEF Write, Writable, Submit
<1>2. /\ key \in AllKeys /\ key \in Rows[Job] /\ key \in Keys /\ key[2] \in Range(Catalogs) /\ DOMAIN busy = Range(Catalogs)
      /\ key # None
  <2>1. key \in AllKeys /\ key \in Rows[Job] /\ queue # <<>>
    BY <1>0 DEF FlowInv, ImportTypes
  <2>2. Rows[Job] \subseteq Keys
    BY <1>0, <2>1, JobFacts
  <2> QED
    BY <1>0, <2>1, <2>2, KeyNone DEF AllKeys, ImportTypes
<1>3. Job' = Job /\ Reach[key] = Job - 1
  BY <1>0, <1>1, <1>2 DEF Job, Reach, thread
<1>4. Reach' = Reach
  <2>1. \A k \in AllKeys : (k \in todo' \/ busy'[k[2]] = k) <=> (k \in todo \/ busy[k[2]] = k)
    <3> SUFFICES ASSUME NEW k \in AllKeys, k # key
                 PROVE  (k \in todo' \/ busy'[k[2]] = k) <=> (k \in todo \/ busy[k[2]] = k)
      BY <1>1, <1>2
    <3>1. CASE k[2] = key[2]
      <4>1. busy[k[2]] # k /\ busy'[k[2]] # k
        BY <1>1, <1>2, <3>1, KeyNone
      <4> QED
        BY <1>1, <4>1
    <3>2. CASE k[2] # key[2]
      BY <1>1, <3>2
    <3> QED
      BY <3>1, <3>2
  <2> QED
    BY <1>0, <1>1, <1>3, <2>1 DEF Reach
<1>5. key \notin started => mode \in {"tail", "rebuild"} \/ PartsOf(key) = {}
  <2>1. mode \in {"new", "tail", "rebuild"} /\ DOMAIN writers \subseteq started
    BY <1>0 DEF LiveInv, NamedInv, WriterInv
  <2> QED
    BY <1>1, <2>1 DEF Refused
<1> DEFINE N == [name |-> Named(key), recs |-> <<>>]
<1>6. /\ Good(Shelf, Reach)' /\ FreshInv' /\ NamedInv'
      /\ key \in DOMAIN writers' /\ writers'[key].open /\ writers'[key].name \in Names /\ writers'[key].name.key = key
      /\ DOMAIN writers' = DOMAIN writers \cup {key} /\ \A k \in DOMAIN writers : k # key => writers'[k] = writers[k]
      /\ \A p \in PartsOf(key) : Precedes(p, writers'[key].name)
      /\ \A p \in PartsOf(key) : p.rev = writers'[key].name.rev /\ mode # "tail" => p \in published
      /\ \A o \in closed : o.name.key = key => o.name.part < writers'[key].name.part
  <2>0. UNCHANGED <<parts, published, mode>>
    BY <1>1 DEF disk, thread, publication
  <2>1. CASE IsOpen(key)
    <3>1. writers' = writers /\ key \in DOMAIN writers /\ writers[key].open
      BY <1>1, <2>1 DEF IsOpen
    <3>2. /\ Staged(key) \in Fresh /\ Staged(key).name = writers[key].name
          /\ writers[key].name.key = key /\ writers[key].name \in Names
      BY <1>0, <3>1, FreshOf DEF WriterInv
    <3>3. key \in started /\ started' = started
      BY <1>0, <1>1, <3>1 DEF WriterInv
    <3>4. Fresh' = Fresh
      BY <1>1, <3>1 DEF Fresh, Staged, publication
    <3>5. FreshInv' /\ NamedInv'
      BY <1>0, <2>0, <3>3, <3>4, FreshKept, NamedKept DEF LiveInv
    <3>6. Good(Shelf, Reach)'
      BY <1>0, <1>4, <2>0, <3>4, ShelfKept, GoodKept DEF LiveInv
    <3>7. \A o \in closed : o.name.key = key => o.name.part < writers[key].name.part
      BY <1>0, <3>1 DEF WriterInv
    <3>8. \A p \in PartsOf(key) : Precedes(p, writers[key].name)
                                  /\ (p.rev = writers[key].name.rev /\ mode # "tail" => p \in published)
      BY <1>0, <3>2 DEF LiveInv, FreshInv
    <3> QED
      BY <3>1, <3>2, <3>5, <3>6, <3>7, <3>8
  <2>2. CASE ~IsOpen(key)
    <3>1. writers' = Opened(key)
      BY <1>1, <2>2
    <3>2. /\ DOMAIN writers' = DOMAIN writers \cup {key} /\ \A k \in DOMAIN writers : k # key => writers'[k] = writers[k]
          /\ writers'[key] = [name |-> Named(key), recs |-> <<>>, open |-> TRUE]
      BY <1>0, <1>2, <3>1, OpenedTyped
    <3>3. writers'[key].name = Named(key) /\ writers'[key].open /\ writers'[key].recs = <<>>
      BY <3>2
    <3>4. /\ Named(key) \in Names /\ Named(key).key = key
          /\ \A p \in PartsOf(key) : Precedes(p, Named(key))
          /\ \A p \in PartsOf(key) : p.rev = Named(key).rev => (mode # "tail" => p \in published)
          /\ \A o \in closed : o.name.key = key => o.name.part < Named(key).part
      BY <1>0, <1>2, <1>5, NewPart
    <3>5. Fresh' = Fresh \cup {N}
      <4>1. Fresh' = closed \cup {Staged(k)' : k \in DOMAIN writers \cup {key}}
        BY <1>0, <1>1, <3>2 DEF Fresh
      <4>2. Staged(key)' = N /\ \A k \in DOMAIN writers : k # key => Staged(k)' = Staged(k)
        BY <3>2, <3>3 DEF Staged
      <4>3. key \in DOMAIN writers => Staged(key) \in closed
        BY <1>0, <2>2 DEF WriterInv, IsOpen
      <4>4. Fresh = closed \cup {Staged(k) : k \in DOMAIN writers}
        BY <1>0 DEF Fresh
      <4> HIDE DEF N
      <4> QED
        BY <4>1, <4>2, <4>3, <4>4
    <3>6. Good(Shelf, Reach)' /\ FreshInv' /\ NamedInv'
      <4> DEFINE K == {key}
      <4>1. K \in SUBSET AllKeys /\ K \subseteq Keys /\ started' = started \cup K
        BY <1>1, <1>2
      <4>2. \A k \in K : k \notin started => mode \in {"tail", "rebuild"} \/ PartsOf(k) = {}
        BY <1>5
      <4>3. Fresh' = Fresh \cup {[name |-> Named(k), recs |-> <<>>] : k \in K}
        BY <3>5
      <4> HIDE DEF K
      <4> QED
        BY <1>0, <1>4, <2>0, <4>1, <4>2, <4>3, NewFresh
    <3> QED
      BY <3>2, <3>3, <3>4, <3>6
  <2> QED
    BY <2>1, <2>2
<1> HIDE DEF N
<1>7. WriterInv'
  <2>1. /\ \A i \in 1..Len(active') : active'[i] = key \/ \E j \in 1..Len(active) : active'[i] = active[j]
        /\ \A i, j \in 1..Len(active') : active'[i] = active'[j] => i = j
    BY <1>0, <1>1, <1>2, RecentFacts DEF WriterInv
  <2>2. \A k \in DOMAIN writers : writers[k].open => k \in DOMAIN writers' /\ writers'[k].open
    BY <1>6
  <2>3. \A i \in 1..Len(active') : active'[i] \in DOMAIN writers' /\ writers'[active'[i]].open
    BY <1>0, <1>6, <2>1, <2>2 DEF WriterInv, IsOpen
  <2>4. \A k \in DOMAIN writers' :
          /\ k \in started' /\ writers'[k].name.key = k
          /\ writers'[k].open \/ Staged(k)' \in closed'
    <3> SUFFICES ASSUME NEW k \in DOMAIN writers', k # key
                 PROVE  /\ k \in started' /\ writers'[k].name.key = k
                        /\ writers'[k].open \/ Staged(k)' \in closed'
      BY <1>1, <1>6
    <3>1. k \in DOMAIN writers /\ writers'[k] = writers[k] /\ Staged(k)' = Staged(k)
      BY <1>6 DEF Staged
    <3> QED
      BY <1>0, <1>1, <3>1 DEF WriterInv
  <2>5. ASSUME NEW o \in closed
        PROVE  /\ o.name.key \in DOMAIN writers' /\ o.name.part <= writers'[o.name.key].name.part
               /\ writers'[o.name.key].open => o.name.part < writers'[o.name.key].name.part
    <3>1. /\ o.name.key \in DOMAIN writers /\ o.name.part <= writers[o.name.key].name.part
          /\ writers[o.name.key].open => o.name.part < writers[o.name.key].name.part
      BY <1>0 DEF WriterInv
    <3>2. CASE o.name.key = key
      <4>1. o.name.part < writers'[key].name.part
        BY <1>6, <3>2
      <4>2. o.name \in Names
        BY <1>0 DEF ImportTypes, Papers
      <4>3. o.name.part \in Nat /\ writers'[key].name.part \in Nat
        BY <1>6, <4>2, NamesFields
      <4> QED
        BY <1>6, <3>2, <4>1, <4>3
    <3>3. CASE o.name.key # key
      BY <1>6, <3>1, <3>3
    <3> QED
      BY <3>2, <3>3
  <2> QED
    BY <1>1, <2>1, <2>3, <2>4, <2>5 DEF WriterInv, IsOpen
<1>8. BusyInv'
  <2> SUFFICES ASSUME NEW k \in Range(Catalogs), busy'[k] # None, k = "observations",
                      NEW p \in PartsOf(busy'[k]), p.rev = writers'[busy'[k]].name.rev, NEW i \in 1..Len(parts[p])
               PROVE  parts[p][i] < Job
    BY <1>1, <1>3 DEF BusyInv, PartsOf, disk
  <2>1. CASE k = key[2]
    <3>1. busy'[k] = key
      BY <1>1, <1>2, <2>1
    <3> DEFINE n == writers'[key].name
    <3>2. /\ n \in Names /\ \A q \in PartsOf(key) : Precedes(q, n)
          /\ \A q \in PartsOf(key) : q.rev = n.rev /\ mode # "tail" => q \in published
          /\ p \in PartsOf(key) /\ p.rev = n.rev /\ key[2] = "observations"
      BY <1>6, <2>1, <3>1
    <3> HIDE DEF n
    <3> QED
      BY <1>0, <1>1, <1>3, <3>2, WriteBusy
  <2>2. CASE k # key[2]
    <3>1. busy'[k] = busy[k]
      BY <1>1, <2>2
    <3>2. busy[k] \in DOMAIN writers
      <4>1. NeverClosedBusy
        BY DEF ImportInv, Drains
      <4> QED
        BY <1>2, <3>1, <4>1 DEF NeverClosedBusy, IsOpen
    <3>3. busy[k] # key
      BY <1>0, <2>2, <3>1 DEF FlowInv
    <3>4. writers'[busy[k]] = writers[busy[k]]
      BY <1>6, <3>2, <3>3
    <3> QED
      BY <1>0, <3>1, <3>4 DEF LiveInv, BusyInv
  <2> QED
    BY <2>1, <2>2
<1> QED
  BY <1>6, <1>7, <1>8, LiveBy

LEMMA CatalogLive ==
  ASSUME ImportInv, Live, NEW k \in Range(Catalogs), CatalogDone(k), NEW key, key = busy[k]
  PROVE  LiveInv'
<1>0. ImportTypes /\ FlowInv /\ DiskInv /\ LiveInv /\ WriterInv /\ NeverClosedBusy /\ DOMAIN busy = Range(Catalogs) /\ ~failure
  BY DEF ImportInv, LiveInv, Drains, ImportTypes, Live
<1>1. /\ key # None /\ busy' = [busy EXCEPT ![k] = None]
      /\ writers' = IF step = "write" THEN [writers EXCEPT ![key].recs = Append(@, Job)] ELSE writers
      /\ UNCHANGED <<disk, thread, step, todo, broken, closed, active, started, publication, budget>>
  BY DEF CatalogDone
<1>2. step = "write"
  <2>1. ~Idle
    BY <1>0, <1>1 DEF Idle
  <2> QED
    BY <1>0, <2>1 DEF ImportInv, Drains, QuietOutside
<1>3. key \in DOMAIN writers /\ writers[key].open
  BY <1>0, <1>1 DEF NeverClosedBusy, IsOpen
<1>4. key \in AllKeys /\ key \in Rows[Job] /\ key \notin todo /\ key[2] = k
  BY <1>0, <1>1, <1>2, <1>3 DEF FlowInv, ImportTypes
<1>5. Job \in Nat \ {0} /\ Job' = Job
  BY <1>0, <1>1, <1>2, JobFacts DEF FlowInv, Job, thread
<1>6. /\ DOMAIN writers' = DOMAIN writers
      /\ writers'[key].recs = Append(writers[key].recs, Job)
      /\ \A x \in DOMAIN writers : /\ writers'[x].name = writers[x].name /\ writers'[x].open = writers[x].open
                                   /\ x # key => writers'[x] = writers[x]
  <2>1. \A x \in DOMAIN writers : writers[x] \in [name : Names, recs : Seq(Nat), open : BOOLEAN]
    BY <1>0 DEF ImportTypes
  <2>2. writers' = [writers EXCEPT ![key].recs = Append(@, Job)]
    BY <1>1, <1>2
  <2>3. DOMAIN writers' = DOMAIN writers /\ \A x \in DOMAIN writers : x # key => writers'[x] = writers[x]
    BY <2>2
  <2>4. writers'[key] = [writers[key] EXCEPT !.recs = Append(@, Job)]
    BY <1>3, <2>2
  <2>5. writers'[key].recs = Append(writers[key].recs, Job) /\ writers'[key].name = writers[key].name
        /\ writers'[key].open = writers[key].open
    BY <1>3, <2>1, <2>4
  <2> QED
    BY <2>3, <2>5
<1> DEFINE o == Staged(key)
           n == [name |-> writers[key].name, recs |-> Append(writers[key].recs, Job)]
<1>7. /\ o.name = writers[key].name /\ o.recs = writers[key].recs /\ o \in Fresh /\ o \in Shelf /\ o.name.key = key
      /\ o.name \in Names /\ o.recs \in Seq(Nat)
      /\ n.name = o.name /\ n.recs = Append(o.recs, Job) /\ n \in Papers
  <2>1. /\ o.name = writers[key].name /\ o.recs = writers[key].recs /\ o \in Fresh
        /\ writers[key].name \in Names /\ writers[key].recs \in Seq(Nat) /\ writers[key].name.key = key
    BY <1>0, <1>2, <1>3, FreshOf DEF WriterInv
  <2>2. n \in Papers
    BY <1>5, <2>1 DEF Papers
  <2> QED
    BY <2>1, <2>2 DEF Shelf
<1>8. Fresh' = (Fresh \ {o}) \cup {n}
  <2>1. Fresh' = closed \cup {Staged(x)' : x \in DOMAIN writers} /\ Fresh = closed \cup {Staged(x) : x \in DOMAIN writers}
    BY <1>1, <1>2, <1>6 DEF Fresh
  <2>2. Staged(key)' = n /\ \A x \in DOMAIN writers : x # key => Staged(x)' = Staged(x)
    BY <1>3, <1>6 DEF Staged
  <2>3. o \notin closed
    <3>1. o.name.part \in Nat
      BY <1>7, NamesFields
    <3> QED
      BY <1>0, <1>3, <1>7, <3>1 DEF WriterInv
  <2>4. \A x \in DOMAIN writers : x # key => Staged(x) # o
    BY <1>0, <1>2, <1>7, FreshOf DEF WriterInv
  <2> HIDE DEF n
  <2> QED
    BY <1>3, <2>1, <2>2, <2>3, <2>4
<1>9. Shelf' = (Shelf \ {o}) \cup {n}
  <2>1. OnDisk' = OnDisk
    BY <1>1 DEF OnDisk, disk, publication
  <2>2. o \notin OnDisk
    <3> SUFFICES ASSUME NEW p \in published, o = [name |-> p, recs |-> parts[p]] PROVE FALSE
      BY DEF OnDisk
    <3>1. o.name = p /\ p \in PartsOf(key)
      BY <1>0, <1>7 DEF LiveInv, NamedInv, PartsOf
    <3>2. Precedes(p, p)
      BY <1>0, <1>7, <3>1 DEF LiveInv, FreshInv
    <3>3. p.rev \in Nat /\ p.part \in Nat
      BY <1>7, <3>1, NamesFields
    <3> QED
      BY <3>2, <3>3 DEF Precedes
  <2> HIDE DEF o, n
  <2> QED
    BY <1>8, <2>1, <2>2 DEF Shelf
<1>10. Reach[key] = Job - 1 /\ Reach \in [AllKeys -> Int]
  <2>1. \A x \in AllKeys : (IF x \in todo \/ busy[x[2]] = x THEN Job - 1 ELSE Job) \in Int
    BY <1>5
  <2>2. Reach = [x \in AllKeys |-> IF x \in todo \/ busy[x[2]] = x THEN Job - 1 ELSE Job]
    BY <1>2 DEF Reach
  <2> QED
    BY <1>4, <2>1, <2>2
<1>11. Reach' = [Reach EXCEPT ![key] = Job] /\ Reach' \in [AllKeys -> Int]
  <2>1. Reach' = [x \in AllKeys |-> IF x \in todo \/ busy'[x[2]] = x THEN Job - 1 ELSE Job]
    BY <1>1, <1>2, <1>5 DEF Reach
  <2>2. Reach = [x \in AllKeys |-> IF x \in todo \/ busy[x[2]] = x THEN Job - 1 ELSE Job]
    BY <1>2 DEF Reach
  <2>3. \A x \in AllKeys : x # key => (busy'[x[2]] = x <=> busy[x[2]] = x)
    BY <1>0, <1>1, <1>4, KeyNone
  <2>4. busy'[key[2]] # key
    BY <1>0, <1>1, <1>4
  <2>5. \A x \in AllKeys : Reach'[x] = IF x = key THEN Job ELSE Reach[x]
    BY <1>4, <2>1, <2>2, <2>3, <2>4
  <2> DEFINE R == Reach
             Q == Reach'
             J == Job
  <2>6. /\ R \in [AllKeys -> Int] /\ J \in Int /\ key \in AllKeys
        /\ \A x \in AllKeys : Q[x] = IF x = key THEN J ELSE R[x]
    BY <1>4, <1>5, <1>10, <2>5
  <2>7. Q = [x \in AllKeys |-> Q[x]]
    BY <2>1
  <2> HIDE DEF R, Q, J
  <2>8. Q \in [AllKeys -> Int] /\ Q = [R EXCEPT ![key] = J]
    BY <2>6, <2>7
  <2> QED
    BY <2>8 DEF R, Q, J
<1>12. Good(Shelf, Reach)'
  <2>1. Good(Shelf, Reach) /\ Shelf \in SUBSET Papers
    BY <1>0, ShelfTyped DEF LiveInv
  <2>2. \A p \in Shelf : p.name.key = o.name.key => p.name.part <= o.name.part
    BY <1>0, <1>2, <1>3, <1>7, LastPart
  <2>3. Job = Reach[o.name.key] + 1 /\ Reach' = [Reach EXCEPT ![o.name.key] = Job] /\ o.name.key \in Rows[Job]
    BY <1>4, <1>5, <1>7, <1>10, <1>11
  <2> DEFINE J == Job
             R == Reach
             Q == Reach'
             S == Shelf
  <2>4. /\ S \in SUBSET Papers /\ R \in [AllKeys -> Int] /\ Q \in [AllKeys -> Int] /\ Good(S, R)
        /\ o \in S /\ n \in Papers /\ J \in Nat \ {0} /\ n.name = o.name /\ n.recs = Append(o.recs, J)
        /\ o.name.key \in Rows[J] /\ J = R[o.name.key] + 1 /\ Q = [R EXCEPT ![o.name.key] = J]
        /\ \A p \in S : p.name.key = o.name.key => p.name.part <= o.name.part
    BY <1>5, <1>7, <1>10, <1>11, <2>1, <2>2, <2>3
  <2> HIDE DEF o, n, J, R, S, Q
  <2>5. Good((S \ {o}) \cup {n}, Q)
    BY <2>4, GoodFill
  <2>6. Good(Shelf', Reach')
    BY <1>9, <2>5 DEF S, Q
  <2> QED
    BY <2>6 DEF Good, Increasing, Less
<1>13. WriterInv'
  <2>1. \A x \in DOMAIN writers' : x \in started' /\ writers'[x].name.key = x /\ (writers'[x].open \/ Staged(x)' \in closed')
    <3> SUFFICES ASSUME NEW x \in DOMAIN writers
                 PROVE  x \in started /\ writers'[x].name.key = x /\ (writers'[x].open \/ Staged(x)' \in closed)
      BY <1>1, <1>6
    <3>1. CASE x = key
      BY <1>0, <1>3, <1>6, <3>1 DEF WriterInv
    <3>2. CASE x # key
      <4>1. Staged(x)' = Staged(x)
        BY <1>6, <3>2 DEF Staged
      <4> QED
        BY <1>0, <1>6, <3>2, <4>1 DEF WriterInv
    <3> QED
      BY <3>1, <3>2
  <2>2. \A i \in 1..Len(active') : active'[i] \in DOMAIN writers' /\ writers'[active'[i]].open
    BY <1>0, <1>1, <1>6 DEF WriterInv, IsOpen
  <2>3. \A x \in closed :
          /\ x.name.key \in DOMAIN writers' /\ x.name.part <= writers'[x.name.key].name.part
          /\ writers'[x.name.key].open => x.name.part < writers'[x.name.key].name.part
    BY <1>0, <1>6 DEF WriterInv
  <2>4. \A i, j \in 1..Len(active') : active'[i] = active'[j] => i = j
    BY <1>0, <1>1 DEF WriterInv
  <2> QED
    BY <1>1, <2>1, <2>2, <2>3, <2>4 DEF WriterInv, IsOpen
<1>14. FreshInv'
  <2> SUFFICES ASSUME NEW x \in Fresh', NEW p \in PartsOf(x.name.key)
               PROVE  /\ Precedes(p, x.name)
                      /\ p.rev = x.name.rev =>
                           /\ mode # "tail" => p \in published
                           /\ x.name.key[2] = "observations" => Less(parts[p], x.recs)
    BY <1>1 DEF FreshInv, PartsOf, Less, disk, thread, publication
  <2>1. CASE x \in Fresh
    BY <1>0, <2>1 DEF LiveInv, FreshInv
  <2>2. CASE x = n
    <3>1. x.name = o.name
      BY <1>7, <2>2
    <3>2. /\ Precedes(p, o.name)
          /\ p.rev = o.name.rev =>
               /\ mode # "tail" => p \in published
               /\ o.name.key[2] = "observations" => Less(parts[p], o.recs)
      BY <1>0, <1>7, <3>1 DEF LiveInv, FreshInv
    <3>3. ASSUME p.rev = o.name.rev, o.name.key[2] = "observations" PROVE Less(parts[p], x.recs)
      <4>1. k = "observations" /\ p \in PartsOf(key) /\ p.rev = writers[key].name.rev
        BY <1>4, <1>7, <3>1, <3>3
      <4>2. \A i \in 1..Len(parts[p]) : parts[p][i] < Job
        BY <1>0, <1>1, <1>2, <4>1 DEF LiveInv, BusyInv
      <4>3. \A i \in 1..Len(o.recs) : o.recs[i] < Job
        <5> SUFFICES ASSUME NEW i \in 1..Len(o.recs) PROVE o.recs[i] < Job
          OBVIOUS
        <5>1. o.recs[i] \in 1..Reach[key]
          BY <1>0, <1>7 DEF LiveInv, Good
        <5> QED
          BY <1>5, <1>10, <5>1
      <4>4. parts[p] \in Seq(Nat) /\ Less(parts[p], o.recs)
        BY <1>0, <3>2, <3>3, <4>1 DEF PartsOf, ImportTypes
      <4> DEFINE s == o.recs
                 t == parts[p]
                 J == Job
      <4>5. s \in Seq(Nat) /\ t \in Seq(Nat) /\ J \in Nat /\ Less(t, s)
            /\ (\A i \in 1..Len(s) : s[i] < J) /\ (\A i \in 1..Len(t) : t[i] < J) /\ x.recs = Append(s, J)
        BY <1>5, <1>7, <2>2, <4>2, <4>3, <4>4
      <4> HIDE DEF s, t, J
      <4>6. Less(t, Append(s, J))
        BY <4>5, AppendLarger
      <4> QED
        BY <4>5, <4>6 DEF t
    <3> QED
      BY <3>1, <3>2, <3>3
  <2> QED
    BY <1>8, <2>1, <2>2
<1>15. NamedInv'
  <2>1. \A x \in started : (\E y \in Fresh : y.name.key = x) => \E y \in Fresh' : y.name.key = x
    BY <1>7, <1>8
  <2>2. \A x \in Fresh' : x.name.key \in started
    BY <1>0, <1>7, <1>8 DEF LiveInv, NamedInv
  <2>3. UNCHANGED <<parts, published, mode, started>>
    BY <1>1 DEF disk, thread, publication
  <2>4. NamedInv /\ \A x : LatestParts(x)' = LatestParts(x)
    BY <1>0, <2>3 DEF LiveInv, LatestParts, PartsOf
  <2> QED
    BY <2>1, <2>2, <2>3, <2>4 DEF NamedInv
<1>16. BusyInv'
  <2> SUFFICES ASSUME NEW x \in Range(Catalogs), busy'[x] # None, x = "observations",
                      NEW p \in PartsOf(busy'[x]), p.rev = writers'[busy'[x]].name.rev, NEW i \in 1..Len(parts[p])
               PROVE  parts[p][i] < Job
    BY <1>1, <1>5 DEF BusyInv, PartsOf, disk
  <2>1. busy'[x] = busy[x] /\ busy[x] # None
    BY <1>0, <1>1
  <2>2. busy[x] \in DOMAIN writers
    BY <1>0, <2>1 DEF NeverClosedBusy, IsOpen
  <2> QED
    BY <1>0, <1>2, <1>6, <2>1, <2>2 DEF LiveInv, BusyInv
<1> QED
  BY <1>12, <1>13, <1>14, <1>15, <1>16, LiveBy

LEMMA LiveStep == ASSUME ImportInv, [Next]_vars, Live' PROVE LiveInv'
<1>0. ImportTypes /\ FlowInv
  BY DEF ImportInv
<1>1. main' # "off" /\ ~failure' /\ broken' = {}
  BY DEF Live
<1>2. ~Exit /\ ~Crash /\ ~Tidy /\ ~WriteRaises /\ ~RenameFails
  BY <1>0, <1>1 DEF Exit, Crash, Gone, Tidy, thread, WriteRaises, RenameFails, Poison
<1>3. CASE Begin \/ Resume
  BY <1>3, BeginLive, ResumeLive
<1>4. CASE Live
  <2>1. LiveInv
    BY <1>4 DEF ImportInv
  <2>2. CASE UNCHANGED vars
    <3>1. Fresh' = Fresh
      BY <2>2 DEF Fresh, Staged, vars, staging, publication
    <3>2. Reach' = Reach
      BY <2>2 DEF Reach, Snapshot, Job, vars, thread, staging
    <3>3. BusyInv'
      BY <2>1, <2>2 DEF LiveInv, BusyInv, PartsOf, Job, vars, disk, thread, staging
    <3> QED
      BY <2>1, <2>2, <3>1, <3>2, <3>3, LiveKept DEF vars, disk, thread, staging, publication
  <2>3. CASE MainThread
    <3>1. ~Notice
      BY <1>4 DEF Notice, Live
    <3> QED
      BY <1>2, <1>4, <2>3, <3>1, FeedLive, FinishLive DEF MainThread
  <2>4. CASE WriterThread
    BY <1>2, <1>4, <2>4, TakeLive, EndJobLive, WriteLive, EvictKept DEF WriterThread
  <2>5. CASE Publication
    BY <1>1, <1>4, <2>5, CloseLive, RenameLive, SaveLive DEF Publication
  <2>6. CASE CatalogThreads
    BY <1>4, <2>6, CatalogLive DEF CatalogThreads
  <2>7. CASE Failures
    <3>1. ASSUME NEW k \in Range(Catalogs), CatalogFails(k) PROVE FALSE
      BY <1>1, <3>1 DEF CatalogFails
    <3> QED
      BY <1>2, <2>1, <2>7, <3>1, FeedFailsLive DEF Failures
  <2> QED
    BY <1>2, <1>3, <2>2, <2>3, <2>4, <2>5, <2>6, <2>7 DEF Next
<1>5. CASE ~Live /\ ~(Begin \/ Resume)
  <2>1. main = "off" \/ failure \/ broken # {}
    BY <1>5 DEF Live
  <2>2. CASE UNCHANGED vars
    BY <1>1, <1>5, <2>2 DEF Live, vars, thread, staging
  <2>3. CASE MainThread
    BY <1>1, <1>2, <1>5, <2>3 DEF MainThread, Feed, Notice, Finish, Live, staging
  <2>4. CASE WriterThread
    BY <1>0, <1>1, <1>2, <1>5, <2>4 DEF WriterThread, Take, EndJob, Write, Writable, Evict, Live, FlowInv, thread
  <2>5. CASE Publication
    <3>1. main # "off" /\ ~failure /\ broken = {}
      BY <1>0, <2>5 DEF Publication, FlowInv, Close, Rename, SaveBegin, Save, MarkBegin, Mark
    <3> QED
      BY <1>5, <3>1 DEF Live
  <2>6. CASE \E k \in Range(Catalogs) : CatalogDone(k) \/ CatalogFails(k)
    BY <1>1, <1>5, <2>6 DEF CatalogDone, CatalogFails, Live, thread
  <2>7. CASE FeedFails
    BY <1>1, <1>5, <2>7 DEF FeedFails, Live, staging
  <2> QED
    BY <1>2, <1>5, <2>2, <2>3, <2>4, <2>5, <2>6, <2>7 DEF Next, Failures, CatalogThreads
<1> QED
  BY <1>3, <1>4, <1>5

LEMMA ImportInit == Init => ImportInv
<1> SUFFICES ASSUME Init PROVE ImportInv
  OBVIOUS
<1>1. /\ parts = <<>> /\ states = <<>> /\ main = "off" /\ fed = 0 /\ last = 0 /\ queue = <<>> /\ failure = FALSE
      /\ step = "idle" /\ todo = {} /\ broken = {} /\ writers = <<>> /\ closed = {} /\ active = <<>>
      /\ started = {} /\ outputs = {} /\ published = {}
  BY DEF Init
<1>2. busy \in [Range(Catalogs) -> AllKeys \cup {None}] /\ \A k \in DOMAIN busy : busy[k] = None
  BY DEF Init, NoWrites
<1>3. DOMAIN parts = {} /\ DOMAIN states = {} /\ DOMAIN writers = {}
  BY <1>1, EmptyDomain
<1>4. ImportTypes
  <2>1. parts \in [DOMAIN parts -> Seq(Nat)]
    BY <1>1, EmptyFunction
  <2>2. states \in [DOMAIN states -> [next : Nat, published : SUBSET Names, continued : BOOLEAN]]
    BY <1>1, EmptyFunction
  <2>3. writers \in [DOMAIN writers -> [name : Names, recs : Seq(Nat), open : BOOLEAN]]
    BY <1>1, EmptyFunction
  <2>4. /\ fed \in Nat /\ last \in Nat /\ queue \in Seq(Nat) /\ todo \subseteq AllKeys /\ closed \subseteq Papers
        /\ outputs \subseteq Papers /\ active \in Seq(AllKeys) /\ published \subseteq Names
    BY <1>1
  <2>5. failure \in BOOLEAN
    BY <1>1, Zenon
  <2> QED
    BY <1>2, <1>3, <2>1, <2>2, <2>3, <2>4, <2>5 DEF ImportTypes
<1>5. FlowInv
  <2>1. Idle
    BY <1>2 DEF Idle
  <2>2. Len(queue) = 0 /\ fed = 0
    BY <1>1
  <2> QED
    BY <1>1, <1>3, <2>1, <2>2 DEF FlowInv
<1>6. DiskInv
  BY <1>3 DEF DiskInv, StateHolds
<1>7. ~Live
  BY <1>1 DEF Live
<1> QED
  BY <1>4, <1>5, <1>6, <1>7, InitDrains DEF ImportInv

LEMMA ImportStep == ImportInv /\ [Next]_vars => ImportInv'
<1> SUFFICES ASSUME ImportInv, [Next]_vars PROVE ImportInv'
  OBVIOUS
<1>1. Drains'
  BY NextDrains DEF ImportInv
<1> QED
  BY <1>1, TypesStep, FlowStep, DiskStep, LiveStep DEF ImportInv

\* A continuation state on disk names parts that hold every record up to where it
\* resumes once and in order, and none after: the parts are renamed before the state
\* is written, and the snapshot is the chunk's they were filled from (publish).
THEOREM StatesComplete == Spec => []StateHolds
<1>1. ImportInv => StateHolds
  BY DEF ImportInv, DiskInv
<1> QED
  BY <1>1, ImportInit, ImportStep, PTL DEF Spec

\* The parts of the highest revision hold no observations twice or out of order,
\* whatever an interrupted publication left on disk and whichever state was resumed
\* (check_tail and next_name).
THEOREM ReadersSeeOnce == Spec => []ObservationsOnce
<1>1. ImportInv => ObservationsOnce
  <2> SUFFICES ASSUME ImportInv, NEW key \in Keys, key[2] = "observations" PROVE InOrder(LatestParts(key))
    BY DEF ObservationsOnce
  <2>1. DiskInv /\ ImportTypes
    BY DEF ImportInv
  <2>2. \A p \in LatestParts(key) : p \in DOMAIN parts /\ p.key = key /\ p.rev \in Nat
    BY <2>1, NamesFields DEF LatestParts, PartsOf, ImportTypes
  <2>3. \A p, q \in LatestParts(key) : p.rev = q.rev
    <3> SUFFICES ASSUME NEW p \in LatestParts(key), NEW q \in LatestParts(key) PROVE p.rev = q.rev
      OBVIOUS
    <3>1. p.rev <= q.rev /\ q.rev <= p.rev
      BY DEF LatestParts
    <3> QED
      BY <2>2, <3>1
  <2>4. \A p, q \in LatestParts(key) : Precedes(p, q) => Less(parts[p], parts[q])
    <3> SUFFICES ASSUME NEW p \in LatestParts(key), NEW q \in LatestParts(key), Precedes(p, q)
                 PROVE  Less(parts[p], parts[q])
      OBVIOUS
    <3>1. p.rev = q.rev /\ p.rev \in Nat /\ p.part < q.part
      BY <2>2, <2>3 DEF Precedes
    <3> QED
      BY <2>1, <2>2, <3>1 DEF DiskInv
  <2> QED
    BY <2>1, <2>2, <2>4 DEF InOrder, DiskInv, Less
<1> QED
  BY <1>1, ImportInit, ImportStep, PTL DEF Spec
=============================================================================
