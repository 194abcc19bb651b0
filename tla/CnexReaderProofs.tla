-------------------------- MODULE CnexReaderProofs --------------------------
(***************************************************************************)
(* Proofs about CnexReader: the time of every bits record holds, every     *)
(* epoch is whole, and a continued import is the one that never stopped.   *)
(*                                                                         *)
(* The invariant of one reader has a part for each of the first two.  The  *)
(* clock's navigation time is that of the latest navigation frame, with no *)
(* restart after it and no measurement past the clock's progress           *)
(* (Anchored); what a bits record borrows from such a clock stays true     *)
(* (BitsFresh).  The withheld group is what the frames from its start make *)
(* of it, no later frame closes it or begins another, and a reader that    *)
(* withholds none has read an EndOfMeas after every block (Grouped); so    *)
(* the epoch that closes is whole and none is lost.  Reading the group     *)
(* again after a checkpoint keeps Grouped and publishes nothing.  The      *)
(* stages of consume() come first, one lemma each, then the group, then    *)
(* the four actions.                                                       *)
(*                                                                         *)
(* The third relates the two readers (Joint).  Where the continued one has *)
(* caught up they are Alike: equal but for the number of updates, the      *)
(* index of the last frame and what a declared end told of; every stage    *)
(* makes readers that are alike alike.  While it reads the group again it  *)
(* is Behind: equal but for the group, whose content is what the frames    *)
(* read so far say (Content), so that at the last of them the groups are   *)
(* equal too.                                                              *)
(***************************************************************************)
EXTENDS CnexReader, SequenceTheorems, FiniteSetTheorems, WellFoundedInduction, TLAPS

(***************************************************************************)
(* Sequences, and the greatest member of a set.                            *)
(***************************************************************************)

IsSeq(s) == \E S : s \in Seq(S)

\* What Append does to a sequence, whatever it holds.
LEMMA AppendFacts ==
  ASSUME NEW s, IsSeq(s), NEW e
  PROVE  /\ IsSeq(Append(s, e)) /\ Len(s) \in Nat /\ DOMAIN s = 1..Len(s)
         /\ Len(Append(s, e)) = Len(s) + 1
         /\ DOMAIN Append(s, e) = 1..(Len(s) + 1)
         /\ \A i \in 1..Len(s) : Append(s, e)[i] = s[i]
         /\ Append(s, e)[Len(s) + 1] = e
<1>1. PICK S : s \in Seq(S)
  BY DEF IsSeq
<1> DEFINE T == S \cup {e}
<1>2. s \in Seq(T) /\ e \in T
  BY <1>1, SeqMonotonic
<1>3. Append(s, e) \in Seq(T)
  BY <1>2, AppendProperties
<1>4. IsSeq(Append(s, e))
  BY <1>3 DEF IsSeq
<1> HIDE DEF T
<1>5. /\ Len(s) \in Nat /\ DOMAIN s = 1..Len(s)
      /\ Len(Append(s, e)) = Len(s) + 1
      /\ \A i \in 1..Len(s) : Append(s, e)[i] = s[i]
      /\ Append(s, e)[Len(s) + 1] = e
  BY <1>2, AppendProperties, LenProperties
<1>6. DOMAIN Append(s, e) = 1..(Len(s) + 1)
  BY <1>3, <1>5, LenProperties
<1> QED
  BY <1>4, <1>5, <1>6

\* The greatest member of a set of naturals below a bound is in it.
LEMMA MaxBounded ==
  ASSUME NEW n \in Nat, NEW S \in SUBSET (0..n), S # {}
  PROVE  Max(S) \in S /\ \A y \in S : Max(S) >= y
<1> DEFINE T == {n - x : x \in S}
<1>0. \A x \in S : n - x \in Nat
  OBVIOUS
<1>1. T \subseteq Nat /\ T # {}
  BY <1>0
<1>2. \E x \in T : \A y \in T : ~(<<y, x>> \in OpToRel(<, Nat))
  BY <1>1, NatLessThanWellFounded, WFMin
<1>3. PICK d \in T : \A y \in T : ~(y < d)
  BY <1>1, <1>2 DEF OpToRel
<1>4. PICK m \in S : d = n - m
  OBVIOUS
<1>5. \A y \in S : m >= y
  <2> TAKE y \in S
  <2>1. n - y \in T /\ ~(n - y < n - m)
    BY <1>3, <1>4
  <2> QED
    BY <2>1
<1> QED
  BY <1>5 DEF Max

\* The least member, when there is one.
LEMMA MinIs ==
  ASSUME NEW S \in SUBSET Nat, NEW m \in S, \A x \in S : m =< x PROVE Min(S) = m
<1>1. \E x \in S : \A y \in S : x =< y
  OBVIOUS
<1>2. Min(S) \in S /\ \A y \in S : Min(S) =< y
  BY <1>1 DEF Min
<1>3. Min(S) \in Nat /\ m \in Nat /\ Min(S) >= m /\ Min(S) <= m
  BY <1>2
<1> QED
  BY <1>3

\* The later of two times.
LEMMA MaxOfTwo ==
  ASSUME NEW a \in Int, NEW b \in Int
  PROVE  Max({a, b}) \in Int /\ Max({a, b}) >= a /\ Max({a, b}) >= b
<1>1. \E x \in {a, b} : \A y \in {a, b} : x >= y
  OBVIOUS
<1>2. Max({a, b}) \in {a, b} /\ \A y \in {a, b} : Max({a, b}) >= y
  BY <1>1 DEF Max
<1> QED
  BY <1>2
(***************************************************************************)
(* The record a reader is, and the stages that leave the group alone.      *)
(***************************************************************************)

ReaderFields == {"clock", "tele", "pos", "next", "closure", "navConflict", "last", "cadence",
                 "pending", "pendingStart", "extras", "hasMeasurements", "reportedTail",
                 "failed", "out"}
ClockFields == {"navigation", "progress", "uptime", "anchorUptime", "uptimeGpst",
                "pairedOffset", "archiveDay"}

\* What is known of a reader whatever it has read.
Shape(r) ==
    /\ DOMAIN r = ReaderFields /\ DOMAIN r.clock = ClockFields
    /\ DOMAIN r.out = {"events", "bits", "epochs", "rows"}
    /\ IsSeq(r.out.events) /\ IsSeq(r.out.bits) /\ IsSeq(r.out.epochs)
    /\ r.hasMeasurements \in BOOLEAN /\ r.failed \in BOOLEAN

\* An event that says an epoch is whole, and one that ends all associations.
Completes(e) == e.scope = "OBSERVATION" /\ e.detail = "COMPLETE"
Restarts(e) == e.kind = "RECEIVER_RESTART"

\* Events added to those of ev, none of which says that an epoch is whole.
Extends(ew, ev) ==
    /\ IsSeq(ew) /\ Len(ew) \in Nat /\ Len(ev) \in Nat /\ Len(ev) =< Len(ew)
    /\ \A i \in 1..Len(ev) : ew[i] = ev[i]
Incompletes(ew, ev) == \A i \in (Len(ev) + 1)..Len(ew) : ~Completes(ew[i])

SameGroup(r, q) ==
    /\ q.pending = r.pending /\ q.pendingStart = r.pendingStart /\ q.extras = r.extras
    /\ q.hasMeasurements = r.hasMeasurements /\ q.failed = r.failed
    /\ q.out.epochs = r.out.epochs

\* What every stage before the group does to a reader.
Calm(r, q) ==
    /\ Shape(q) /\ SameGroup(r, q)
    /\ Extends(q.out.events, r.out.events) /\ Incompletes(q.out.events, r.out.events)

LEMMA CalmSelf == ASSUME NEW r, Shape(r) PROVE Calm(r, r)
<1>1. Len(r.out.events) \in Nat
  BY AppendFacts DEF Shape
<1> QED
  BY <1>1 DEF Calm, Shape, SameGroup, Extends, Incompletes

LEMMA CalmTwice ==
  ASSUME NEW r, NEW q, NEW p, Calm(r, q), Calm(q, p) PROVE Calm(r, p)
<1>1. SameGroup(r, p)
  BY DEF Calm, SameGroup
<1>2. Extends(p.out.events, r.out.events) /\ Incompletes(p.out.events, r.out.events)
  <2> DEFINE a == r.out.events  b == q.out.events  c == p.out.events
  <2>1. Extends(b, a) /\ Extends(c, b) /\ Incompletes(b, a) /\ Incompletes(c, b)
    BY DEF Calm
  <2> HIDE DEF a, b, c
  <2>2. Extends(c, a)
    BY <2>1 DEF Extends
  <2>3. ASSUME NEW i \in (Len(a) + 1)..Len(c) PROVE ~Completes(c[i])
    <3>1. CASE i =< Len(b)
      <4>1. i \in 1..Len(b) /\ i \in (Len(a) + 1)..Len(b)
        BY <2>1, <3>1 DEF Extends
      <4> QED
        BY <2>1, <4>1 DEF Extends, Incompletes
    <3>2. CASE i > Len(b)
      <4>1. i \in (Len(b) + 1)..Len(c)
        BY <2>1, <3>2 DEF Extends
      <4> QED
        BY <2>1, <4>1 DEF Incompletes
    <3> QED
      BY <2>1, <3>1, <3>2 DEF Extends
  <2>4. Extends(c, a) /\ Incompletes(c, a)
    BY <2>2, <2>3 DEF Incompletes
  <2> QED
    BY <2>4 DEF a, b, c
<1> QED
  BY <1>1, <1>2 DEF Calm

\* A stage that writes fields of its own only.
LEMMA CalmFields ==
  ASSUME NEW r, NEW q, Shape(r),
         DOMAIN q = ReaderFields, DOMAIN q.clock = ClockFields, q.out = r.out,
         q.pending = r.pending, q.pendingStart = r.pendingStart, q.extras = r.extras,
         q.hasMeasurements = r.hasMeasurements, q.failed = r.failed
  PROVE  Calm(r, q)
<1>1. Len(r.out.events) \in Nat
  BY AppendFacts DEF Shape
<1> QED
  BY <1>1 DEF Calm, Shape, SameGroup, Extends, Incompletes

\* What Event does to a reader.
LEMMA EventFacts ==
  ASSUME NEW r, Shape(r), NEW n, NEW kind, NEW scope, NEW t, NEW detail
  PROVE  LET q == Event(r, n, kind, scope, t, detail) IN
           /\ Shape(q)
           /\ \A x \in ReaderFields \ {"out"} : q[x] = r[x]
           /\ q.out.bits = r.out.bits /\ q.out.epochs = r.out.epochs
           /\ Extends(q.out.events, r.out.events)
           /\ Len(q.out.events) = Len(r.out.events) + 1
           /\ LET e == q.out.events[Len(r.out.events) + 1]
              IN  e.n = n /\ e.kind = kind /\ e.scope = scope /\ e.detail = detail
<1> DEFINE ev == r.out.events
           e == [n |-> n, kind |-> kind, scope |-> scope, t |-> t, detail |-> detail, at |-> r.pos,
                 day |-> IF t = None THEN r.clock.archiveDay ELSE t \div DayLength]
           q == Event(r, n, kind, scope, t, detail)
<1>1. q = [r EXCEPT !.out.events = Append(ev, e)]
  BY DEF Event, Shape, ReaderFields
<1>2. e.n = n /\ e.kind = kind /\ e.scope = scope /\ e.detail = detail
  OBVIOUS
<1> HIDE DEF e, q
<1>3. /\ IsSeq(Append(ev, e)) /\ Len(ev) \in Nat
      /\ Len(Append(ev, e)) = Len(ev) + 1
      /\ \A i \in 1..Len(ev) : Append(ev, e)[i] = ev[i]
      /\ Append(ev, e)[Len(ev) + 1] = e
  BY AppendFacts DEF Shape
<1>4. /\ q.out.events = Append(ev, e)
      /\ q.out.bits = r.out.bits /\ q.out.epochs = r.out.epochs
      /\ DOMAIN q = ReaderFields /\ DOMAIN q.out = DOMAIN r.out
      /\ \A x \in ReaderFields \ {"out"} : q[x] = r[x]
  BY <1>1 DEF Shape, ReaderFields
<1>5. q.clock = r.clock /\ q.hasMeasurements = r.hasMeasurements /\ q.failed = r.failed
  BY <1>4 DEF ReaderFields
<1>6. Shape(q)
  BY <1>3, <1>4, <1>5 DEF Shape
<1>7. Extends(q.out.events, ev)
  BY <1>3, <1>4 DEF Extends
<1> QED
  BY <1>2, <1>3, <1>4, <1>6, <1>7 DEF q

LEMMA CalmEvent ==
  ASSUME NEW r, Shape(r), NEW n, NEW kind, NEW scope, NEW t, NEW detail,
         scope # "OBSERVATION" \/ detail # "COMPLETE"
  PROVE  Calm(r, Event(r, n, kind, scope, t, detail))
<1> DEFINE q == Event(r, n, kind, scope, t, detail)
<1> HIDE DEF q
<1>1. /\ Shape(q)
      /\ \A x \in ReaderFields \ {"out"} : q[x] = r[x]
      /\ q.out.epochs = r.out.epochs /\ Extends(q.out.events, r.out.events)
      /\ Len(q.out.events) = Len(r.out.events) + 1
      /\ LET e == q.out.events[Len(r.out.events) + 1]
         IN  e.scope = scope /\ e.detail = detail
  BY EventFacts DEF q
<1>2. Incompletes(q.out.events, r.out.events)
  <2> SUFFICES ASSUME NEW i \in (Len(r.out.events) + 1)..Len(q.out.events)
               PROVE ~Completes(q.out.events[i])
    BY DEF Incompletes
  <2>1. i = Len(r.out.events) + 1
    BY <1>1 DEF Extends
  <2> QED
    BY <1>1, <2>1 DEF Completes
<1>3. SameGroup(r, q)
  BY <1>1 DEF SameGroup, ReaderFields
<1> QED
  BY <1>1, <1>2, <1>3 DEF Calm, q
(***************************************************************************)
(* The clock.                                                              *)
(***************************************************************************)

LEMMA AdvanceFacts ==
  ASSUME NEW c, DOMAIN c = ClockFields, c.progress \in Time, NEW t \in Int
  PROVE  LET d == Advance(c, t) IN
           /\ DOMAIN d = ClockFields /\ d.navigation = c.navigation
           /\ d.progress \in Int /\ d.progress >= t
           /\ c.progress # None => d.progress >= c.progress
<1>1. CASE c.progress = None
  BY <1>1 DEF Advance, ClockFields
<1>2. CASE c.progress # None
  <2>1. c.progress \in Int
    BY <1>2 DEF Time
  <2>2. /\ Max({c.progress, t}) \in Int
        /\ Max({c.progress, t}) >= c.progress /\ Max({c.progress, t}) >= t
    BY <2>1, MaxOfTwo
  <2>3. /\ DOMAIN Advance(c, t) = ClockFields /\ Advance(c, t).navigation = c.navigation
        /\ Advance(c, t).progress = Max({c.progress, t})
    BY <1>2 DEF Advance, ClockFields
  <2> QED
    BY <2>2, <2>3
<1> QED
  BY <1>1, <1>2

LEMMA SetNavigationFacts ==
  ASSUME NEW c, DOMAIN c = ClockFields, c.progress \in Time, NEW t \in Time
  PROVE  LET d == SetNavigation(c, t) IN
           /\ DOMAIN d = ClockFields /\ d.navigation = t
           /\ t = None => d.progress = c.progress
           /\ t # None => d.progress \in Int
<1>1. CASE t = None
  BY <1>1 DEF SetNavigation, ClockFields
<1>2. CASE t # None
  <2> DEFINE c1 == [c EXCEPT !.navigation = t]
             moved == Advance(c1, t)
  <2>1. t \in Int
    BY <1>2 DEF Time
  <2>2. DOMAIN c1 = ClockFields /\ c1.progress = c.progress /\ c1.navigation = t
    BY DEF ClockFields
  <2>3. DOMAIN moved = ClockFields /\ moved.navigation = t /\ moved.progress \in Int
    <3> HIDE DEF c1
    <3> QED
      BY <2>1, <2>2, AdvanceFacts
  <2>4. SetNavigation(c, t) = [moved EXCEPT !.anchorUptime = AssociatedUptime(moved)]
    BY <1>2 DEF SetNavigation
  <2> HIDE DEF c1, moved
  <2> QED
    BY <1>2, <2>3, <2>4 DEF ClockFields
<1> QED
  BY <1>1, <1>2

LEMMA ReportUptimeFacts ==
  ASSUME NEW c, DOMAIN c = ClockFields, NEW up, NEW sample, NEW direct
  PROVE  LET d == ReportUptime(c, up, sample, direct) IN
           /\ DOMAIN d = ClockFields /\ d.progress = c.progress
           /\ d.navigation = IF RestartReason(c, up, sample, direct) = "none"
                              THEN c.navigation ELSE None
<1> DEFINE fresh == FreshPair(c, up, sample, direct)
           restarted == RestartReason(c, up, sample, direct) # "none"
           kept == IF restarted
                     THEN [c EXCEPT !.navigation = None, !.anchorUptime = None,
                                    !.pairedOffset = None]
                     ELSE IF fresh THEN [c EXCEPT !.pairedOffset = sample - up] ELSE c
           near == /\ kept.anchorUptime = None /\ kept.navigation # None /\ fresh
                   /\ sample - kept.navigation \in 0..Period
<1>1. /\ DOMAIN kept = ClockFields /\ kept.progress = c.progress
      /\ kept.navigation = IF restarted THEN None ELSE c.navigation
  <2> HIDE DEF fresh, restarted
  <2> QED
    BY DEF ClockFields
<1>2. ReportUptime(c, up, sample, direct) =
        [kept EXCEPT !.uptime = up, !.uptimeGpst = c.progress,
                     !.anchorUptime = IF near THEN up ELSE @]
  BY DEF ReportUptime
<1>3. restarted <=> RestartReason(c, up, sample, direct) # "none"
  OBVIOUS
<1> HIDE DEF fresh, kept, near, restarted
<1> QED
  BY <1>1, <1>2, <1>3 DEF ClockFields

\* A frame, and the sequences of frames numbered from 1.
Frame == [n : Nat, kind : STRING, t : Time, v : Time]
Numbered(in) == in \in Seq(Frame) /\ \A i \in 1..Len(in) : in[i].n = i

\* The restarts told so far are of the first k frames.
RestartsUpTo(ev, k) == \A i \in 1..Len(ev) : Restarts(ev[i]) => ev[i].n \in 1..k

\* The clock's navigation time is that of the latest navigation frame, after
\* which there was no restart and no measurement that the clock has not seen.
AnchoredAt(in, c, ev, k, m) ==
    /\ m \in 1..k /\ in[m].kind \in Navigation /\ in[m].t = c.navigation
    /\ \A j \in (m + 1)..k : in[j].kind \notin Navigation
    /\ \A i \in 1..Len(ev) : Restarts(ev[i]) => ev[i].n =< m
    /\ c.progress \in Int
    /\ \A j \in m..k : in[j].kind \in Measurement \cup {"STATUS"} /\ in[j].t # None
                        => in[j].t =< c.progress

Anchored(in, r, k) ==
    /\ r.clock.progress \in Time /\ r.clock.navigation \in Time
    /\ RestartsUpTo(r.out.events, k)
    /\ r.clock.navigation # None => \E m \in Nat : AnchoredAt(in, r.clock, r.out.events, k, m)
(***************************************************************************)
(* The stages, one by one.                                                 *)
(***************************************************************************)

NoRestarts(ew, ev) == \A i \in (Len(ev) + 1)..Len(ew) : ~Restarts(ew[i])

\* A stage that touches neither the clock nor what was published.
Plain(r, q) == Calm(r, q) /\ q.clock = r.clock /\ q.out = r.out

LEMMA LocateFacts ==
  ASSUME NEW r, Shape(r), NEW f PROVE Plain(r, Locate(r, f))
<1> DEFINE q == Locate(r, f)
<1>1. /\ DOMAIN q = ReaderFields /\ q.clock = r.clock /\ q.out = r.out
      /\ q.pending = r.pending /\ q.pendingStart = r.pendingStart /\ q.extras = r.extras
      /\ q.hasMeasurements = r.hasMeasurements /\ q.failed = r.failed
  BY DEF Locate, Shape, ReaderFields
<1>2. DOMAIN q.clock = ClockFields
  BY <1>1 DEF Shape
<1> HIDE DEF q
<1> QED
  BY <1>1, <1>2, CalmFields DEF Plain, q

LEMMA AssembleFacts ==
  ASSUME NEW r, Shape(r), NEW f PROVE Plain(r, Assemble(r, f))
<1> DEFINE q == Assemble(r, f)
<1>0. PICK ta : q = [r EXCEPT !.tele = ta]
  BY DEF Assemble
<1> HIDE DEF q
<1>1. /\ DOMAIN q = ReaderFields /\ q.clock = r.clock /\ q.out = r.out
      /\ q.pending = r.pending /\ q.pendingStart = r.pendingStart /\ q.extras = r.extras
      /\ q.hasMeasurements = r.hasMeasurements /\ q.failed = r.failed
  BY <1>0 DEF Shape, ReaderFields
<1>2. DOMAIN q.clock = ClockFields
  BY <1>1 DEF Shape
<1> QED
  BY <1>1, <1>2, CalmFields DEF Plain, q

LEMMA EstimatesFacts ==
  ASSUME NEW r, Shape(r), NEW f PROVE Plain(r, Estimates(r, f))
<1> DEFINE q == Estimates(r, f)
<1>0. PICK ta : q = [r EXCEPT !.tele = ta]
  BY DEF Estimates
<1> HIDE DEF q
<1>1. /\ DOMAIN q = ReaderFields /\ q.clock = r.clock /\ q.out = r.out
      /\ q.pending = r.pending /\ q.pendingStart = r.pendingStart /\ q.extras = r.extras
      /\ q.hasMeasurements = r.hasMeasurements /\ q.failed = r.failed
  BY <1>0 DEF Shape, ReaderFields
<1>2. DOMAIN q.clock = ClockFields
  BY <1>1 DEF Shape
<1> QED
  BY <1>1, <1>2, CalmFields DEF Plain, q

LEMMA LimitFacts ==
  ASSUME NEW r, Shape(r) PROVE Plain(r, Limit(r))
<1> DEFINE q == Limit(r)
<1>0. PICK ta : q = [r EXCEPT !.tele = ta]
  BY DEF Limit
<1> HIDE DEF q
<1>1. /\ DOMAIN q = ReaderFields /\ q.clock = r.clock /\ q.out = r.out
      /\ q.pending = r.pending /\ q.pendingStart = r.pendingStart /\ q.extras = r.extras
      /\ q.hasMeasurements = r.hasMeasurements /\ q.failed = r.failed
  BY <1>0 DEF Shape, ReaderFields
<1>2. DOMAIN q.clock = ClockFields
  BY <1>1 DEF Shape
<1> QED
  BY <1>1, <1>2, CalmFields DEF Plain, q

\* An event that is no restart.
LEMMA NoRestartEvent ==
  ASSUME NEW r, Shape(r), NEW n, NEW kind, NEW scope, NEW t, NEW detail,
         kind # "RECEIVER_RESTART"
  PROVE  NoRestarts(Event(r, n, kind, scope, t, detail).out.events, r.out.events)
<1> DEFINE q == Event(r, n, kind, scope, t, detail)
<1> HIDE DEF q
<1>1. /\ Extends(q.out.events, r.out.events)
      /\ Len(q.out.events) = Len(r.out.events) + 1
      /\ q.out.events[Len(r.out.events) + 1].kind = kind
  BY EventFacts DEF q
<1> SUFFICES ASSUME NEW i \in (Len(r.out.events) + 1)..Len(q.out.events)
             PROVE ~Restarts(q.out.events[i])
  BY DEF NoRestarts, q
<1>2. i = Len(r.out.events) + 1
  BY <1>1 DEF Extends
<1> QED
  BY <1>1, <1>2 DEF Restarts

LEMMA NavigationBlockFacts ==
  ASSUME NEW r, Shape(r), r.clock.progress \in Time, NEW f \in Frame
  PROVE  LET q == NavigationBlock(r, f) IN
           /\ Calm(r, q) /\ NoRestarts(q.out.events, r.out.events)
           /\ q.out.bits = r.out.bits
           /\ q.clock.navigation = f.t /\ q.clock.progress \in Time
           /\ f.t # None => q.clock.progress \in Int
<1> DEFINE dated == IF f.t = None THEN r ELSE [r EXCEPT !.last.navigation = f.t]
           marked == IF f.kind = "TIMEGPS"
                       THEN [dated EXCEPT !.closure = f.t, !.navConflict = f.t = None]
                       ELSE dated
           reversed == f.t # None /\ r.last.navigation # None /\ f.t < r.last.navigation
           spoken == Event(marked, f.n, "TIME_REVERSAL", "NAVIGATION", f.t, None)
           told == IF reversed THEN [spoken EXCEPT !.clock.progress = None] ELSE marked
           q == NavigationBlock(r, f)
<1>1. /\ DOMAIN marked = ReaderFields /\ marked.clock = r.clock /\ marked.out = r.out
      /\ marked.pending = r.pending /\ marked.pendingStart = r.pendingStart
      /\ marked.extras = r.extras /\ marked.hasMeasurements = r.hasMeasurements
      /\ marked.failed = r.failed
  <2>1. /\ DOMAIN dated = ReaderFields /\ dated.clock = r.clock /\ dated.out = r.out
        /\ dated.pending = r.pending /\ dated.pendingStart = r.pendingStart
        /\ dated.extras = r.extras /\ dated.hasMeasurements = r.hasMeasurements
        /\ dated.failed = r.failed
    BY DEF Shape, ReaderFields
  <2> HIDE DEF dated
  <2> QED
    BY <2>1 DEF ReaderFields
<1>2. q = [told EXCEPT !.clock = SetNavigation(told.clock, f.t)]
  BY <1>1 DEF NavigationBlock, ReaderFields
<1> HIDE DEF marked
<1>3. Calm(r, marked)
  <2>1. DOMAIN marked.clock = ClockFields
    BY <1>1 DEF Shape
  <2> QED
    BY <1>1, <2>1, CalmFields
<1>4. /\ Calm(r, spoken) /\ NoRestarts(spoken.out.events, r.out.events)
      /\ spoken.clock = r.clock /\ spoken.out.bits = r.out.bits
  <2>1. Shape(marked)
    BY <1>3 DEF Calm
  <2>2. Calm(marked, spoken)
    BY <2>1, CalmEvent
  <2>3. NoRestarts(spoken.out.events, marked.out.events)
    BY <2>1, NoRestartEvent
  <2>4. spoken.clock = marked.clock /\ spoken.out.bits = marked.out.bits
    BY <2>1, EventFacts DEF ReaderFields
  <2> QED
    BY <1>1, <1>3, <2>2, <2>3, <2>4, CalmTwice
<1> HIDE DEF spoken
<1>5. /\ DOMAIN told = ReaderFields /\ DOMAIN told.clock = ClockFields
      /\ told.clock.progress \in Time /\ told.out.bits = r.out.bits
      /\ NoRestarts(told.out.events, r.out.events) /\ Calm(r, told)
  <2>1. CASE reversed
    <3>1. Shape(spoken)
      BY <1>4 DEF Calm
    <3>2. /\ DOMAIN told = ReaderFields /\ DOMAIN told.clock = ClockFields
          /\ told.clock.progress = None /\ told.out = spoken.out
          /\ told.pending = spoken.pending /\ told.pendingStart = spoken.pendingStart
          /\ told.extras = spoken.extras /\ told.hasMeasurements = spoken.hasMeasurements
          /\ told.failed = spoken.failed
      BY <2>1, <3>1 DEF Shape, ReaderFields, ClockFields
    <3> HIDE DEF told
    <3>3. Calm(spoken, told)
      BY <3>1, <3>2, CalmFields
    <3> QED
      BY <1>4, <3>2, <3>3, CalmTwice DEF Time
  <2>2. CASE ~reversed
    <3>1. Len(r.out.events) \in Nat
      BY AppendFacts DEF Shape
    <3>2. told = marked /\ NoRestarts(marked.out.events, r.out.events)
      BY <1>1, <2>2, <3>1 DEF NoRestarts
    <3> QED
      BY <1>1, <1>3, <3>2 DEF Shape
  <2> QED
    BY <2>1, <2>2
<1> HIDE DEF told
<1>6. LET d == SetNavigation(told.clock, f.t) IN
        /\ DOMAIN d = ClockFields /\ d.navigation = f.t
        /\ f.t = None => d.progress = told.clock.progress
        /\ f.t # None => d.progress \in Int
  BY <1>5, SetNavigationFacts DEF Frame
<1> HIDE DEF q
<1>7. /\ q.clock = SetNavigation(told.clock, f.t)
      /\ DOMAIN q = ReaderFields /\ q.out = told.out
      /\ q.pending = told.pending /\ q.pendingStart = told.pendingStart
      /\ q.extras = told.extras /\ q.hasMeasurements = told.hasMeasurements
      /\ q.failed = told.failed
  BY <1>2, <1>5 DEF ReaderFields
<1>8. Calm(told, q)
  BY <1>5, <1>6, <1>7, CalmFields DEF Calm
<1>9. Calm(r, q)
  BY <1>5, <1>8, CalmTwice
<1>10. q.clock.progress \in Time /\ (f.t # None => q.clock.progress \in Int)
  BY <1>5, <1>6, <1>7 DEF Time
<1> QED
  BY <1>5, <1>6, <1>7, <1>9, <1>10 DEF q
\* A RawBits record takes its time from the clock.
LEMMA EmitBitsFacts ==
  ASSUME NEW r, Shape(r), NEW f \in Frame
  PROVE  LET q == EmitBits(r, f) IN
           /\ Calm(r, q) /\ q.clock = r.clock /\ q.out.events = r.out.events
           /\ Extends(q.out.bits, r.out.bits)
           /\ Len(q.out.bits) = Len(r.out.bits) + 1
           /\ LET b == q.out.bits[Len(r.out.bits) + 1]
              IN  b.n = f.n /\ b.t = Anchor(r.clock)
<1> DEFINE bits == r.out.bits
           b == [n |-> f.n, t |-> Anchor(r.clock), uptime |-> AssociatedUptime(r.clock),
                 at |-> r.pos, day |-> r.clock.archiveDay]
           q == EmitBits(r, f)
<1>1. q = [r EXCEPT !.out.bits = Append(bits, b)]
  BY DEF EmitBits, Shape, ReaderFields
<1>2. b.n = f.n /\ b.t = Anchor(r.clock)
  OBVIOUS
<1> HIDE DEF b, q
<1>3. /\ IsSeq(Append(bits, b)) /\ Len(bits) \in Nat
      /\ Len(Append(bits, b)) = Len(bits) + 1
      /\ \A i \in 1..Len(bits) : Append(bits, b)[i] = bits[i]
      /\ Append(bits, b)[Len(bits) + 1] = b
  BY AppendFacts DEF Shape
<1>4. /\ q.out.bits = Append(bits, b)
      /\ q.out.events = r.out.events /\ q.out.epochs = r.out.epochs
      /\ DOMAIN q = ReaderFields /\ DOMAIN q.out = DOMAIN r.out
      /\ q.clock = r.clock /\ q.pending = r.pending /\ q.pendingStart = r.pendingStart
      /\ q.extras = r.extras /\ q.hasMeasurements = r.hasMeasurements
      /\ q.failed = r.failed
  BY <1>1 DEF Shape, ReaderFields
<1>5. Shape(q) /\ SameGroup(r, q)
  BY <1>3, <1>4 DEF Shape, SameGroup
<1>6. Extends(q.out.events, r.out.events) /\ Incompletes(q.out.events, r.out.events)
  BY <1>4, CalmSelf DEF Calm
<1>7. Extends(q.out.bits, bits)
  BY <1>3, <1>4 DEF Extends
<1> QED
  BY <1>2, <1>3, <1>4, <1>5, <1>6, <1>7 DEF Calm, q

LEMMA EndOfEpochFacts ==
  ASSUME NEW r, Shape(r), NEW f
  PROVE  LET q == EndOfEpoch(r, f) IN
           /\ Calm(r, q) /\ q.clock = r.clock /\ q.out.bits = r.out.bits
           /\ NoRestarts(q.out.events, r.out.events)
<1> DEFINE q == EndOfEpoch(r, f)
<1>0. PICK t, detail :
        q = [Event(r, f.n, "EPOCH_COMPLETION", "NAVIGATION", t, detail)
               EXCEPT !.closure = None, !.navConflict = FALSE]
  BY DEF EndOfEpoch
<1> DEFINE told == Event(r, f.n, "EPOCH_COMPLETION", "NAVIGATION", t, detail)
<1>1. /\ Calm(r, told) /\ NoRestarts(told.out.events, r.out.events)
      /\ told.clock = r.clock /\ told.out.bits = r.out.bits
  BY CalmEvent, NoRestartEvent, EventFacts DEF ReaderFields
<1> HIDE DEF told, q
<1>2. /\ DOMAIN q = ReaderFields /\ q.clock = told.clock /\ q.out = told.out
      /\ q.pending = told.pending /\ q.pendingStart = told.pendingStart
      /\ q.extras = told.extras /\ q.hasMeasurements = told.hasMeasurements
      /\ q.failed = told.failed
  BY <1>0, <1>1 DEF Calm, Shape, ReaderFields, told
<1>3. Calm(told, q)
  BY <1>1, <1>2, CalmFields DEF Calm, Shape
<1> QED
  BY <1>1, <1>2, <1>3, CalmTwice DEF q

\* The events and bits that are there already stay; no restart is added.
LEMMA NavigateFacts ==
  ASSUME NEW r, Shape(r), r.clock.progress \in Time, NEW f \in Frame
  PROVE  LET q == Navigate(r, f) IN
           /\ Calm(r, q) /\ NoRestarts(q.out.events, r.out.events)
           /\ f.kind \notin BitsKinds => q.out.bits = r.out.bits
           /\ f.kind \in Navigation =>
                /\ q.clock.navigation = f.t /\ q.clock.progress \in Time
                /\ f.t # None => q.clock.progress \in Int
           /\ f.kind \in Measurement /\ f.t # None => q.clock = Advance(r.clock, f.t)
           /\ f.kind \in Measurement /\ f.t = None => q.clock = r.clock
           /\ f.kind \in BitsKinds => q = EmitBits(r, f)
           /\ f.kind \notin Navigation \cup Measurement => q.clock = r.clock
<1>0. /\ Calm(r, r) /\ NoRestarts(r.out.events, r.out.events)
  BY CalmSelf, AppendFacts DEF NoRestarts, Shape
<1>1. CASE f.kind \in Measurement /\ f.t # None
  <2> DEFINE q == Navigate(r, f)
  <2>1. q = [r EXCEPT !.clock = Advance(r.clock, f.t)]
    BY <1>1 DEF Navigate, Measurement, Navigation, BitsKinds, Shape, ReaderFields
  <2>2. DOMAIN Advance(r.clock, f.t) = ClockFields
    BY <1>1, AdvanceFacts DEF Shape, Frame, Time
  <2> HIDE DEF q
  <2>3. /\ DOMAIN q = ReaderFields /\ q.clock = Advance(r.clock, f.t) /\ q.out = r.out
        /\ q.pending = r.pending /\ q.pendingStart = r.pendingStart /\ q.extras = r.extras
        /\ q.hasMeasurements = r.hasMeasurements /\ q.failed = r.failed
    BY <2>1 DEF Shape, ReaderFields
  <2>4. Calm(r, q)
    BY <2>2, <2>3, CalmFields
  <2> QED
    BY <1>0, <1>1, <2>3, <2>4 DEF Measurement, Navigation, BitsKinds, q
<1>2. CASE f.kind \in Navigation
  <2>1. Navigate(r, f) = NavigationBlock(r, f)
    BY <1>2 DEF Navigate, Measurement, Navigation, BitsKinds
  <2> QED
    BY <1>2, <2>1, NavigationBlockFacts DEF Measurement, Navigation, BitsKinds
<1>3. CASE f.kind \in BitsKinds
  <2>1. Navigate(r, f) = EmitBits(r, f)
    BY <1>3 DEF Navigate, Measurement, Navigation, BitsKinds
  <2>2. /\ Calm(r, EmitBits(r, f)) /\ EmitBits(r, f).clock = r.clock
        /\ EmitBits(r, f).out.events = r.out.events
    BY EmitBitsFacts
  <2> QED
    BY <1>0, <1>3, <2>1, <2>2 DEF Measurement, Navigation, BitsKinds
<1>4. CASE f.kind = "EOE"
  <2>1. Navigate(r, f) = EndOfEpoch(r, f)
    BY <1>4 DEF Navigate, Measurement, Navigation, BitsKinds
  <2> QED
    BY <1>4, <2>1, EndOfEpochFacts DEF Measurement, Navigation, BitsKinds
<1>5. CASE /\ ~(f.kind \in Measurement /\ f.t # None)
           /\ f.kind \notin Navigation \cup BitsKinds \cup {"EOE"}
  <2>1. Navigate(r, f) = r
    BY <1>5 DEF Navigate
  <2> QED
    BY <1>0, <1>5, <2>1
<1> QED
  BY <1>1, <1>2, <1>3, <1>4, <1>5
\* A restart, when there is a reason, is an event of the frame.
LEMMA RestartFacts ==
  ASSUME NEW r, Shape(r), NEW n, NEW reason, NEW sample, reason # "COMPLETE"
  PROVE  LET q == Restart(r, n, reason, sample) IN
           /\ Calm(r, q) /\ q.clock = r.clock /\ q.out.bits = r.out.bits
           /\ reason = "none" => q = r
           /\ \A i \in (Len(r.out.events) + 1)..Len(q.out.events) : q.out.events[i].n = n
<1>1. CASE reason = "none"
  <2>1. Restart(r, n, reason, sample) = r /\ Len(r.out.events) \in Nat
    BY <1>1, AppendFacts DEF Restart, Shape
  <2> QED
    BY <2>1, CalmSelf
<1>2. CASE reason # "none"
  <2> DEFINE r1 == [r EXCEPT !.closure = None]
             q == Event(r1, n, "RECEIVER_RESTART", "RECEIVER", sample, reason)
  <2>1. /\ DOMAIN r1 = ReaderFields /\ r1.clock = r.clock /\ r1.out = r.out
        /\ r1.pending = r.pending /\ r1.pendingStart = r.pendingStart /\ r1.extras = r.extras
        /\ r1.hasMeasurements = r.hasMeasurements /\ r1.failed = r.failed
    BY DEF Shape, ReaderFields
  <2> HIDE DEF r1
  <2>2. Calm(r, r1)
    BY <2>1, CalmFields DEF Shape
  <2>3. Shape(r1)
    BY <2>2 DEF Calm
  <2>4. Calm(r1, q) /\ Calm(r, q)
    BY <2>2, <2>3, CalmEvent, CalmTwice
  <2>5. /\ q.clock = r1.clock /\ q.out.bits = r1.out.bits
        /\ Len(q.out.events) = Len(r1.out.events) + 1
        /\ q.out.events[Len(r1.out.events) + 1].n = n
    BY <2>3, EventFacts DEF ReaderFields
  <2>6. Restart(r, n, reason, sample) = q
    BY <1>2 DEF Restart, r1
  <2> HIDE DEF q
  <2>7. \A i \in (Len(r.out.events) + 1)..Len(q.out.events) : i = Len(r.out.events) + 1
    BY <2>1, <2>5, AppendFacts DEF Shape
  <2> QED
    BY <1>2, <2>1, <2>4, <2>5, <2>6, <2>7
<1> QED
  BY <1>1, <1>2

LEMMA Reasons ==
  ASSUME NEW c, NEW up, NEW sample, NEW direct
  PROVE  RestartReason(c, up, sample, direct)
           \in {"UPTIME_DECREASE", "GPST_UPTIME_OFFSET_JUMP", "none"}
BY DEF RestartReason

Reported(r, c, n, up, sample, direct) ==
    Restart([r EXCEPT !.clock = ReportUptime(c, up, sample, direct)],
            n, RestartReason(c, up, sample, direct), sample)

\* A report of the uptime: its events are of this frame, and after a restart no
\* navigation time is left.
LEMMA ReportFacts ==
  ASSUME NEW r, Shape(r), NEW c, DOMAIN c = ClockFields, NEW n, NEW up, NEW sample, NEW direct
  PROVE  LET reason == RestartReason(c, up, sample, direct)
             q == Reported(r, c, n, up, sample, direct)
         IN  /\ Calm(r, q) /\ q.out.bits = r.out.bits
             /\ q.clock.progress = c.progress
             /\ q.clock.navigation = IF reason = "none" THEN c.navigation ELSE None
             /\ reason = "none" => q.out = r.out
             /\ \A i \in (Len(r.out.events) + 1)..Len(q.out.events) : q.out.events[i].n = n
<1> DEFINE reason == RestartReason(c, up, sample, direct)
           d == ReportUptime(c, up, sample, direct)
           r1 == [r EXCEPT !.clock = d]
           q == Restart(r1, n, reason, sample)
<1>1. /\ DOMAIN d = ClockFields /\ d.progress = c.progress
      /\ d.navigation = IF reason = "none" THEN c.navigation ELSE None
  BY ReportUptimeFacts
<1>2. reason # "COMPLETE"
  BY Reasons
<1> HIDE DEF d, reason
<1>3. /\ DOMAIN r1 = ReaderFields /\ r1.clock = d /\ r1.out = r.out
      /\ r1.pending = r.pending /\ r1.pendingStart = r.pendingStart /\ r1.extras = r.extras
      /\ r1.hasMeasurements = r.hasMeasurements /\ r1.failed = r.failed
  BY DEF Shape, ReaderFields
<1> HIDE DEF r1
<1>4. Calm(r, r1)
  BY <1>1, <1>3, CalmFields
<1>5. Shape(r1)
  BY <1>4 DEF Calm
<1>6. /\ Calm(r1, q) /\ q.clock = r1.clock /\ q.out.bits = r1.out.bits
      /\ reason = "none" => q = r1
      /\ \A i \in (Len(r1.out.events) + 1)..Len(q.out.events) : q.out.events[i].n = n
  BY <1>2, <1>5, RestartFacts
<1>7. Calm(r, q)
  BY <1>4, <1>6, CalmTwice
<1> HIDE DEF q
<1>8. /\ Calm(r, q) /\ q.out.bits = r.out.bits
      /\ q.clock.progress = c.progress
      /\ q.clock.navigation = IF reason = "none" THEN c.navigation ELSE None
      /\ reason = "none" => q.out = r.out
      /\ \A i \in (Len(r.out.events) + 1)..Len(q.out.events) : q.out.events[i].n = n
  BY <1>1, <1>3, <1>6, <1>7
<1> QED
  BY <1>8 DEF q, r1, d, reason, Reported

\* NAV-TIMEGPS leaves the navigation time what it was, also after a restart.
Paired(r, f, q) ==
    /\ Calm(r, q) /\ q.out.bits = r.out.bits
    /\ f.kind # "TIMEGPS" => q = r
    /\ q.clock.navigation = r.clock.navigation /\ q.clock.progress \in Time
    /\ r.clock.navigation # None /\ r.clock.progress \in Int => q.clock.progress \in Int
    /\ \A i \in (Len(r.out.events) + 1)..Len(q.out.events) : q.out.events[i].n = f.n

LEMMA PairFacts ==
  ASSUME NEW r, Shape(r), r.clock.progress \in Time, r.clock.navigation \in Time, NEW f
  PROVE  Paired(r, f, Pair(r, f))
<1> DEFINE up     == r.tele.current.uptime
           sample == r.clock.navigation
           reason == RestartReason(r.clock, up, sample, TRUE)
           told   == Restart([r EXCEPT !.clock = ReportUptime(r.clock, up, sample, TRUE)],
                             f.n, reason, sample)
           skip == f.kind # "TIMEGPS" \/ up = None \/ r.tele.current.gpst = None
           q == Pair(r, f)
<1>0. DOMAIN r.clock = ClockFields /\ DOMAIN r = ReaderFields /\ Len(r.out.events) \in Nat
  BY AppendFacts DEF Shape
<1>1. CASE skip
  <2>1. q = r
    BY <1>1 DEF Pair
  <2> QED
    BY <1>0, <2>1, CalmSelf DEF Paired
<1>2. CASE ~skip
  <2>1. /\ Calm(r, told) /\ told.out.bits = r.out.bits
        /\ told.clock.progress = r.clock.progress
        /\ told.clock.navigation = IF reason = "none" THEN sample ELSE None
        /\ \A i \in (Len(r.out.events) + 1)..Len(told.out.events) : told.out.events[i].n = f.n
    <3> DEFINE direct == TRUE
    <3>1. told = Reported(r, r.clock, f.n, up, sample, direct)
      BY DEF Reported
    <3>2. reason = RestartReason(r.clock, up, sample, direct)
      OBVIOUS
    <3> HIDE DEF told, up, sample, reason, direct
    <3>3. LET p == Reported(r, r.clock, f.n, up, sample, direct)
          IN  /\ Calm(r, p) /\ p.out.bits = r.out.bits
              /\ p.clock.progress = r.clock.progress
              /\ p.clock.navigation = IF RestartReason(r.clock, up, sample, direct) = "none"
                                        THEN r.clock.navigation ELSE None
              /\ \A i \in (Len(r.out.events) + 1)..Len(p.out.events) : p.out.events[i].n = f.n
      BY <1>0, ReportFacts
    <3> QED
      BY <3>1, <3>2, <3>3 DEF sample
  <2>2. q = IF reason = "none" THEN told
            ELSE [told EXCEPT !.clock = SetNavigation(told.clock, sample)]
    BY <1>0, <1>2, <2>1 DEF Pair, ReaderFields, Calm, Shape
  <2> HIDE DEF told, reason, q
  <2>3. CASE reason = "none"
    BY <1>2, <2>1, <2>2, <2>3 DEF q, Paired
  <2>4. CASE reason # "none"
    <3>0. DOMAIN told.clock = ClockFields /\ told.clock.progress \in Time /\ Shape(told)
      BY <2>1 DEF Calm, Shape
    <3>1. LET d == SetNavigation(told.clock, sample) IN
            /\ DOMAIN d = ClockFields /\ d.navigation = sample
            /\ sample = None => d.progress = told.clock.progress
            /\ sample # None => d.progress \in Int
      BY <3>0, SetNavigationFacts
    <3>2. /\ DOMAIN q = ReaderFields /\ q.clock = SetNavigation(told.clock, sample)
          /\ q.out = told.out
          /\ q.pending = told.pending /\ q.pendingStart = told.pendingStart
          /\ q.extras = told.extras /\ q.hasMeasurements = told.hasMeasurements
          /\ q.failed = told.failed
      BY <2>2, <2>4, <3>0 DEF Shape, ReaderFields
    <3>3. Calm(told, q)
      BY <3>0, <3>1, <3>2, CalmFields
    <3>4. Calm(r, q)
      BY <2>1, <3>3, CalmTwice
    <3>5. q.clock.navigation = sample /\ q.clock.progress \in Time
      BY <3>0, <3>1, <3>2 DEF Time
    <3>6. sample # None => q.clock.progress \in Int
      BY <3>1, <3>2
    <3> QED
      BY <1>2, <2>1, <3>2, <3>4, <3>5, <3>6 DEF q, Paired
  <2> QED
    BY <2>3, <2>4
<1> QED
  BY <1>1, <1>2
\* A status: no navigation time is left after a restart.
LEMMA ReceiverStatusFacts ==
  ASSUME NEW r, Shape(r), r.clock.progress \in Time, NEW f \in Frame
  PROVE  LET q == ReceiverStatus(r, f) IN
           /\ Calm(r, q) /\ q.out.bits = r.out.bits
           /\ f.kind \notin Uptime => q = r
           /\ q.clock.progress \in Time
           /\ q.clock.navigation # None =>
                q.out = r.out /\ q.clock.navigation = r.clock.navigation
           /\ r.clock.progress # None =>
                q.clock.progress \in Int /\ q.clock.progress >= r.clock.progress
           /\ f.kind = "STATUS" /\ f.t # None =>
                q.clock.progress \in Int /\ q.clock.progress >= f.t
           /\ \A i \in (Len(r.out.events) + 1)..Len(q.out.events) : q.out.events[i].n = f.n
<1> DEFINE sample == IF f.kind = "STATUS" THEN f.t ELSE None
           clock == IF sample = None THEN r.clock ELSE Advance(r.clock, sample)
           direct == f.kind = "STATUS"
           told == Reported(r, clock, f.n, f.v, sample, direct)
           q == ReceiverStatus(r, f)
<1>0. Len(r.out.events) \in Nat /\ DOMAIN r.clock = ClockFields
  BY AppendFacts DEF Shape
<1>1. CASE f.kind \notin Uptime
  <2>1. q = r
    BY <1>1 DEF ReceiverStatus
  <2>2. f.kind # "STATUS"
    BY <1>1 DEF Uptime
  <2>3. r.clock.progress # None => r.clock.progress \in Int
    BY DEF Time
  <2> QED
    BY <1>0, <2>1, <2>2, <2>3, CalmSelf
<1>2. CASE f.kind \in Uptime
  <2>1. PICK ta : q = [told EXCEPT !.tele = ta]
    BY <1>2 DEF ReceiverStatus, Reported
  <2>2. /\ DOMAIN clock = ClockFields /\ clock.navigation = r.clock.navigation
        /\ clock.progress \in Time
        /\ r.clock.progress # None => clock.progress \in Int /\ clock.progress >= r.clock.progress
        /\ sample # None => clock.progress \in Int /\ clock.progress >= sample
    <3>1. CASE sample = None
      <4>1. r.clock.progress # None => r.clock.progress \in Int
        BY DEF Time
      <4> QED
        BY <1>0, <3>1, <4>1
    <3>2. CASE sample # None
      <4>1. sample \in Int
        BY <3>2 DEF Frame, Time
      <4>2. LET d == Advance(r.clock, sample) IN
              /\ DOMAIN d = ClockFields /\ d.navigation = r.clock.navigation
              /\ d.progress \in Int /\ d.progress >= sample
              /\ r.clock.progress # None => d.progress >= r.clock.progress
        BY <1>0, <4>1, AdvanceFacts
      <4>3. clock = Advance(r.clock, sample)
        BY <3>2
      <4> QED
        BY <4>2, <4>3 DEF Time
    <3> QED
      BY <3>1, <3>2
  <2>3. f.kind = "STATUS" => sample = f.t
    OBVIOUS
  <2> HIDE DEF sample, clock, direct, q
  <2>4. LET reason == RestartReason(clock, f.v, sample, direct) IN
          /\ Calm(r, told) /\ told.out.bits = r.out.bits
          /\ told.clock.progress = clock.progress
          /\ told.clock.navigation = IF reason = "none" THEN clock.navigation ELSE None
          /\ reason = "none" => told.out = r.out
          /\ \A i \in (Len(r.out.events) + 1)..Len(told.out.events) : told.out.events[i].n = f.n
    BY <2>2, ReportFacts
  <2> HIDE DEF told
  <2>5. /\ DOMAIN q = ReaderFields /\ q.clock = told.clock /\ q.out = told.out
        /\ q.pending = told.pending /\ q.pendingStart = told.pendingStart
        /\ q.extras = told.extras /\ q.hasMeasurements = told.hasMeasurements
        /\ q.failed = told.failed
    BY <2>1, <2>4 DEF Calm, Shape, ReaderFields
  <2>6. Calm(told, q)
    BY <2>4, <2>5, CalmFields DEF Calm, Shape
  <2>7. Calm(r, q)
    BY <2>4, <2>6, CalmTwice
  <2>8. /\ q.clock.progress = clock.progress
        /\ q.clock.navigation # None => q.out = r.out /\ q.clock.navigation = r.clock.navigation
    BY <2>2, <2>4, <2>5
  <2>9. /\ q.out.bits = r.out.bits
        /\ \A i \in (Len(r.out.events) + 1)..Len(q.out.events) : q.out.events[i].n = f.n
    BY <2>4, <2>5
  <2> QED
    BY <1>2, <2>2, <2>3, <2>7, <2>8, <2>9 DEF q
<1> QED
  BY <1>1, <1>2

\* What Consume has made of a reader when it comes to the measurement group.
Merged(r, f) ==
    Limit(Estimates(ReceiverStatus(Pair(Assemble(Navigate(Locate(r, f), f), f), f), f), f))

\* The clock, and the restarts told, after those stages.
LEMMA AnchoredKept ==
  ASSUME NEW in, NEW r, NEW q, NEW k \in Nat, Anchored(in, r, k),
         Extends(q.out.events, r.out.events), Len(r.out.events) \in Nat,
         NoRestarts(q.out.events, r.out.events),
         q.clock.navigation = r.clock.navigation, q.clock.progress \in Time,
         r.clock.progress # None => q.clock.progress \in Int /\ q.clock.progress >= r.clock.progress,
         in[k + 1].kind \notin Navigation, in[k + 1].t \in Time,
         in[k + 1].kind \in Measurement \cup {"STATUS"} /\ in[k + 1].t # None
           => q.clock.progress \in Int /\ in[k + 1].t =< q.clock.progress,
         \A j \in 1..k : in[j].t \in Time
  PROVE  Anchored(in, q, k + 1)
<1> DEFINE ev == r.out.events  ew == q.out.events
<1>1. \A i \in 1..Len(ew) : Restarts(ew[i]) => i \in 1..Len(ev) /\ ew[i] = ev[i]
  <2> SUFFICES ASSUME NEW i \in 1..Len(ew), Restarts(ew[i])
               PROVE  i \in 1..Len(ev) /\ ew[i] = ev[i]
    OBVIOUS
  <2>1. i \notin (Len(ev) + 1)..Len(ew)
    BY DEF NoRestarts
  <2>2. i \in 1..Len(ev)
    BY <2>1 DEF Extends
  <2> QED
    BY <2>2 DEF Extends
<1>2. RestartsUpTo(ew, k + 1)
  <2>1. \A i \in 1..Len(ev) : Restarts(ev[i]) => ev[i].n \in 1..k
    BY DEF Anchored, RestartsUpTo
  <2>2. \A i \in 1..Len(ew) : Restarts(ew[i]) => ew[i].n \in 1..k
    BY <1>1, <2>1
  <2> HIDE DEF ew
  <2> QED
    BY <2>2 DEF RestartsUpTo
<1>3. ASSUME q.clock.navigation # None
      PROVE \E m \in Nat : AnchoredAt(in, q.clock, ew, k + 1, m)
  <2>1. PICK m \in Nat : AnchoredAt(in, r.clock, ev, k, m)
    BY <1>3 DEF Anchored
  <2>2. \A i \in 1..Len(ew) : Restarts(ew[i]) => ew[i].n =< m
    BY <1>1, <2>1 DEF AnchoredAt
  <2>3. q.clock.progress \in Int /\ r.clock.progress \in Int /\ q.clock.progress >= r.clock.progress
    BY <2>1, TimeAssumption DEF AnchoredAt
  <2>4. ASSUME NEW j \in m..(k + 1),
               in[j].kind \in Measurement \cup {"STATUS"}, in[j].t # None
        PROVE in[j].t =< q.clock.progress
    <3>1. CASE j = k + 1
      BY <2>4, <3>1
    <3>2. CASE j # k + 1
      <4>1. j \in m..k /\ j \in 1..k
        BY <2>1, <3>2 DEF AnchoredAt
      <4>2. in[j].t =< r.clock.progress /\ in[j].t \in Int
        BY <2>1, <2>4, <4>1 DEF AnchoredAt, Time
      <4> QED
        BY <2>3, <4>2
    <3> QED
      BY <3>1, <3>2
  <2>5. \A j \in (m + 1)..(k + 1) : in[j].kind \notin Navigation
    BY <2>1 DEF AnchoredAt
  <2>6. m \in 1..(k + 1) /\ in[m].kind \in Navigation /\ in[m].t = q.clock.navigation
    BY <2>1 DEF AnchoredAt
  <2>7. AnchoredAt(in, q.clock, ew, k + 1, m)
    BY <2>2, <2>3, <2>4, <2>5, <2>6 DEF AnchoredAt
  <2> QED
    BY <2>7
<1>4. q.clock.navigation \in Time
  BY DEF Anchored
<1> QED
  BY <1>2, <1>3, <1>4 DEF Anchored

LEMMA RestartsNew ==
  ASSUME NEW ev, NEW ew, NEW k \in Nat, RestartsUpTo(ev, k), Extends(ew, ev),
         \A i \in (Len(ev) + 1)..Len(ew) : Restarts(ew[i]) => ew[i].n = k + 1
  PROVE  RestartsUpTo(ew, k + 1)
<1> SUFFICES ASSUME NEW i \in 1..Len(ew), Restarts(ew[i]) PROVE ew[i].n \in 1..(k + 1)
  BY DEF RestartsUpTo
<1>1. CASE i \in 1..Len(ev)
  BY <1>1 DEF RestartsUpTo, Extends
<1>2. CASE i \notin 1..Len(ev)
  <2>1. i \in (Len(ev) + 1)..Len(ew)
    BY <1>2 DEF Extends
  <2> QED
    BY <2>1
<1> QED
  BY <1>1, <1>2
LEMMA PlainFacts ==
  ASSUME NEW r, NEW q, Plain(r, q)
  PROVE  /\ Shape(q) /\ Calm(r, q) /\ q.clock = r.clock /\ q.out = r.out
         /\ \A in, k : Anchored(in, r, k) => Anchored(in, q, k)
BY DEF Plain, Calm, Anchored

\* A bits record is made by a reader of the same clock, and alone.
NewBits(r, f, q) ==
    \E p : /\ p.clock = r.clock /\ p.out = r.out /\ Shape(p)
           /\ q.out.bits = EmitBits(p, f).out.bits /\ q.out.events = p.out.events

\* What a frame does to the clock and to the events, before its group.
MergedTo(in, r, f, k, q) ==
    /\ Calm(r, q) /\ Anchored(in, q, k + 1)
    /\ f.kind \notin BitsKinds => q.out.bits = r.out.bits
    /\ f.kind \in BitsKinds => NewBits(r, f, q)
    /\ \A i \in (Len(r.out.events) + 1)..Len(q.out.events) :
         Restarts(q.out.events[i]) => q.out.events[i].n = f.n

LEMMA MergedFacts ==
  ASSUME NEW in, NEW r, Shape(r), NEW k \in Nat, Anchored(in, r, k),
         NEW f \in Frame, in[k + 1] = f, f.n = k + 1, \A j \in 1..k : in[j].t \in Time
  PROVE  MergedTo(in, r, f, k, Merged(r, f))
<1> DEFINE r0 == Locate(r, f)        r1 == Navigate(r0, f)       r2 == Assemble(r1, f)
           r3 == Pair(r2, f)         r4 == ReceiverStatus(r3, f) r5 == Estimates(r4, f)
           r6 == Limit(r5)
<1>0. Merged(r, f) = r6
  BY DEF Merged
<1> HIDE DEF r0, r1, r2, r3, r4, r5, r6
<1>1. Plain(r, r0)
  BY LocateFacts DEF r0
<1>2. Shape(r0) /\ r0.clock = r.clock /\ r0.out = r.out /\ Anchored(in, r0, k) /\ Calm(r, r0)
  BY <1>1, PlainFacts
<1>3. /\ Calm(r0, r1) /\ NoRestarts(r1.out.events, r0.out.events)
      /\ f.kind \notin BitsKinds => r1.out.bits = r0.out.bits
      /\ f.kind \in Navigation =>
           /\ r1.clock.navigation = f.t /\ r1.clock.progress \in Time
           /\ f.t # None => r1.clock.progress \in Int
      /\ f.kind \in Measurement /\ f.t # None => r1.clock = Advance(r0.clock, f.t)
      /\ f.kind \in Measurement /\ f.t = None => r1.clock = r0.clock
      /\ f.kind \in BitsKinds => r1 = EmitBits(r0, f)
      /\ f.kind \notin Navigation \cup Measurement => r1.clock = r0.clock
  <2>1. r0.clock.progress \in Time
    BY <1>2 DEF Anchored
  <2> QED
    BY <1>2, <2>1, NavigateFacts DEF r1
<1>4. /\ r1.clock.progress \in Time /\ r1.clock.navigation \in Time
      /\ f.kind \notin Navigation =>
           /\ r1.clock.navigation = r0.clock.navigation
           /\ r0.clock.progress # None =>
                r1.clock.progress \in Int /\ r1.clock.progress >= r0.clock.progress
           /\ f.kind \in Measurement /\ f.t # None =>
                r1.clock.progress \in Int /\ r1.clock.progress >= f.t
  <2>0. /\ r0.clock.progress \in Time /\ r0.clock.navigation \in Time
        /\ DOMAIN r0.clock = ClockFields /\ f.t \in Time
    BY <1>2 DEF Anchored, Shape, Frame
  <2>1. CASE f.kind \in Navigation
    BY <1>3, <2>0, <2>1
  <2>2. CASE f.kind \in Measurement /\ f.t # None
    <3>1. f.t \in Int /\ f.kind \notin Navigation
      BY <2>0, <2>2 DEF Time, Measurement, Navigation
    <3>2. LET d == Advance(r0.clock, f.t) IN
            /\ d.navigation = r0.clock.navigation
            /\ d.progress \in Int /\ d.progress >= f.t
            /\ r0.clock.progress # None => d.progress >= r0.clock.progress
      BY <2>0, <3>1, AdvanceFacts
    <3>3. r1.clock = Advance(r0.clock, f.t)
      BY <1>3, <2>2
    <3> QED
      BY <2>0, <3>1, <3>2, <3>3 DEF Time
  <2>3. CASE f.kind \notin Navigation /\ ~(f.kind \in Measurement /\ f.t # None)
    <3>1. r1.clock = r0.clock
      BY <1>3, <2>3
    <3>2. r0.clock.progress # None => r0.clock.progress \in Int
      BY <2>0 DEF Time
    <3> QED
      BY <2>0, <2>3, <3>1, <3>2
  <2> QED
    BY <2>1, <2>2, <2>3
<1>5. /\ Shape(r1) /\ Calm(r, r1)
  BY <1>2, <1>3, CalmTwice DEF Calm
<1>6. /\ Shape(r2) /\ r2.clock = r1.clock /\ r2.out = r1.out /\ Calm(r, r2)
  BY <1>5, AssembleFacts, PlainFacts, CalmTwice DEF r2
<1>7. /\ Calm(r2, r3) /\ r3.out.bits = r2.out.bits
      /\ f.kind # "TIMEGPS" => r3 = r2
      /\ r3.clock.navigation = r2.clock.navigation /\ r3.clock.progress \in Time
      /\ r2.clock.navigation # None /\ r2.clock.progress \in Int => r3.clock.progress \in Int
      /\ \A i \in (Len(r2.out.events) + 1)..Len(r3.out.events) : r3.out.events[i].n = f.n
  <2>1. /\ Shape(r2) /\ r2.clock.progress \in Time /\ r2.clock.navigation \in Time
    BY <1>4, <1>6
  <2>2. r3 = Pair(r2, f)
    BY DEF r3
  <2>3. Paired(r2, f, r3)
    BY <2>1, <2>2, PairFacts
  <2> QED
    BY <2>3 DEF Paired
<1>8. Shape(r3) /\ Calm(r, r3)
  BY <1>6, <1>7, CalmTwice DEF Calm
<1>9. /\ Calm(r3, r4) /\ r4.out.bits = r3.out.bits
      /\ f.kind \notin Uptime => r4 = r3
      /\ r4.clock.progress \in Time
      /\ r4.clock.navigation # None =>
           r4.out = r3.out /\ r4.clock.navigation = r3.clock.navigation
      /\ r3.clock.progress # None =>
           r4.clock.progress \in Int /\ r4.clock.progress >= r3.clock.progress
      /\ f.kind = "STATUS" /\ f.t # None =>
           r4.clock.progress \in Int /\ r4.clock.progress >= f.t
      /\ \A i \in (Len(r3.out.events) + 1)..Len(r4.out.events) : r4.out.events[i].n = f.n
  BY <1>7, <1>8, ReceiverStatusFacts DEF r4
<1>10. Shape(r4) /\ Calm(r, r4)
  BY <1>8, <1>9, CalmTwice DEF Calm
<1>11. /\ Shape(r5) /\ r5.clock = r4.clock /\ r5.out = r4.out /\ Calm(r, r5)
  BY <1>10, EstimatesFacts, PlainFacts, CalmTwice DEF r5
<1>12. /\ Shape(r6) /\ r6.clock = r4.clock /\ r6.out = r4.out /\ Calm(r, r6)
  BY <1>11, LimitFacts, PlainFacts, CalmTwice DEF r6
<1>13. RestartsUpTo(r1.out.events, k + 1)
  <2>1. RestartsUpTo(r0.out.events, k) /\ Extends(r1.out.events, r0.out.events)
    BY <1>2, <1>3 DEF Anchored, Calm
  <2> QED
    BY <1>3, <2>1, RestartsNew DEF NoRestarts
<1>14. RestartsUpTo(r3.out.events, k + 1)
  <2> DEFINE ev == r2.out.events  ew == r3.out.events
  <2>1. RestartsUpTo(ev, k + 1) /\ Extends(ew, ev)
    BY <1>6, <1>7, <1>13 DEF Calm
  <2>2. \A i \in (Len(ev) + 1)..Len(ew) : ew[i].n = k + 1
    BY <1>7
  <2> HIDE DEF ev, ew
  <2>3. ASSUME NEW i \in 1..Len(ew), Restarts(ew[i]) PROVE ew[i].n \in 1..(k + 1)
    BY <2>1, <2>2, <2>3 DEF RestartsUpTo, Extends
  <2> QED
    BY <2>3 DEF RestartsUpTo, ew
<1>15. RestartsUpTo(r4.out.events, k + 1)
  <2> DEFINE ev == r3.out.events  ew == r4.out.events
  <2>1. RestartsUpTo(ev, k + 1) /\ Extends(ew, ev)
    BY <1>9, <1>14 DEF Calm
  <2>2. \A i \in (Len(ev) + 1)..Len(ew) : ew[i].n = k + 1
    BY <1>9
  <2> HIDE DEF ev, ew
  <2>3. ASSUME NEW i \in 1..Len(ew), Restarts(ew[i]) PROVE ew[i].n \in 1..(k + 1)
    BY <2>1, <2>2, <2>3 DEF RestartsUpTo, Extends
  <2> QED
    BY <2>3 DEF RestartsUpTo, ew
<1>16. Anchored(in, r4, k + 1)
  <2>1. CASE f.kind \in Navigation
    <3>1. r4 = r3 /\ r3.clock.navigation = f.t /\ r3.clock.progress \in Time
          /\ (f.t # None => r3.clock.progress \in Int)
      BY <1>3, <1>6, <1>7, <1>9, <2>1 DEF Navigation, Uptime
    <3>2. f.kind \notin Measurement \cup {"STATUS"}
      BY <2>1 DEF Navigation, Measurement
    <3>3. ASSUME f.t # None
          PROVE  AnchoredAt(in, r4.clock, r4.out.events, k + 1, k + 1)
      BY <1>15, <2>1, <3>1, <3>2, <3>3 DEF AnchoredAt, RestartsUpTo
    <3>4. r4.clock.navigation \in Time
      BY <3>1 DEF Frame
    <3> QED
      BY <1>15, <3>1, <3>3, <3>4 DEF Anchored
  <2>2. CASE f.kind \notin Navigation
    <3>1. r3 = r2 /\ r3.clock = r1.clock /\ r3.out = r1.out
      BY <1>6, <1>7, <2>2 DEF Navigation
    <3>2. CASE r4.clock.navigation = None
      BY <1>9, <1>15, <3>2 DEF Anchored, Time
    <3>3. CASE r4.clock.navigation # None
      <4>1. r4.out = r1.out /\ r4.clock.navigation = r0.clock.navigation
        BY <1>4, <1>9, <2>2, <3>1, <3>3
      <4>2. /\ Extends(r4.out.events, r0.out.events) /\ NoRestarts(r4.out.events, r0.out.events)
            /\ Len(r0.out.events) \in Nat
        BY <1>3, <4>1 DEF Calm, Extends
      <4>3. r0.clock.progress # None =>
              r4.clock.progress \in Int /\ r4.clock.progress >= r0.clock.progress
        <5> SUFFICES ASSUME r0.clock.progress # None
                     PROVE  r4.clock.progress \in Int /\ r4.clock.progress >= r0.clock.progress
          OBVIOUS
        <5>1. r0.clock.progress \in Int
          BY <1>2 DEF Anchored, Time
        <5>2. r1.clock.progress \in Int /\ r1.clock.progress >= r0.clock.progress
          BY <1>4, <2>2
        <5>3. r4.clock.progress \in Int /\ r4.clock.progress >= r1.clock.progress
          BY <1>9, <3>1, <5>2, TimeAssumption
        <5> QED
          BY <5>1, <5>2, <5>3
      <4>4. f.kind \in Measurement \cup {"STATUS"} /\ f.t # None =>
              r4.clock.progress \in Int /\ f.t =< r4.clock.progress
        <5>1. ASSUME f.kind \in Measurement, f.t # None
              PROVE  r4.clock.progress \in Int /\ f.t =< r4.clock.progress
          <6>1. r1.clock.progress \in Int /\ r1.clock.progress >= f.t
            BY <1>4, <2>2, <5>1
          <6>2. f.kind \notin Uptime
            BY <5>1 DEF Measurement, Uptime
          <6>3. r4.clock = r1.clock
            BY <1>9, <3>1, <6>2
          <6>4. f.t \in Int
            BY <5>1 DEF Frame, Time
          <6> QED
            BY <6>1, <6>3, <6>4
        <5>2. ASSUME f.kind = "STATUS", f.t # None
              PROVE  r4.clock.progress \in Int /\ f.t =< r4.clock.progress
          <6>1. f.t \in Int
            BY <5>2 DEF Frame, Time
          <6> QED
            BY <1>9, <5>2, <6>1
        <5> QED
          BY <5>1, <5>2
      <4>5. f.t \in Time
        BY DEF Frame
      <4> QED
        BY <1>2, <1>9, <2>2, <4>1, <4>2, <4>3, <4>4, <4>5, AnchoredKept
    <3> QED
      BY <3>2, <3>3
  <2> QED
    BY <2>1, <2>2
<1>17. Anchored(in, r6, k + 1)
  BY <1>12, <1>16 DEF Anchored
<1>18. f.kind \notin BitsKinds => r6.out.bits = r.out.bits
  BY <1>2, <1>3, <1>6, <1>7, <1>9, <1>12
<1>19. ASSUME f.kind \in BitsKinds
       PROVE  r6.out.bits = EmitBits(r0, f).out.bits /\ r6.out.events = r0.out.events
  <2>1. f.kind \notin Uptime /\ f.kind # "TIMEGPS"
    BY <1>19 DEF BitsKinds, Uptime
  <2>2. r6.out = r1.out /\ r1 = EmitBits(r0, f)
    BY <1>3, <1>6, <1>7, <1>9, <1>12, <1>19, <2>1
  <2>3. EmitBits(r0, f).out.events = r0.out.events
    BY <1>2, EmitBitsFacts
  <2> QED
    BY <2>2, <2>3
<1>20. ASSUME NEW i \in (Len(r.out.events) + 1)..Len(r6.out.events), Restarts(r6.out.events[i])
       PROVE  r6.out.events[i].n = f.n
  <2> DEFINE a == r0.out.events  b == r1.out.events  c == r3.out.events  d == r4.out.events
  <2>1. /\ r.out.events = a /\ r6.out.events = d /\ r2.out.events = b
        /\ Extends(b, a) /\ Extends(c, b) /\ Extends(d, c) /\ NoRestarts(b, a)
        /\ \A j \in (Len(b) + 1)..Len(c) : c[j].n = f.n
        /\ \A j \in (Len(c) + 1)..Len(d) : d[j].n = f.n
    BY <1>2, <1>3, <1>6, <1>7, <1>9, <1>12 DEF Calm
  <2>2. i \in (Len(a) + 1)..Len(d) /\ Restarts(d[i])
    BY <1>20, <2>1
  <2> HIDE DEF a, b, c, d
  <2>3. CASE i =< Len(b)
    <3>1. i \in (Len(a) + 1)..Len(b) /\ d[i] = b[i]
      BY <2>1, <2>2, <2>3 DEF Extends
    <3> QED
      BY <2>1, <2>2, <3>1 DEF NoRestarts
  <2>4. CASE i > Len(b) /\ i =< Len(c)
    <3>1. i \in (Len(b) + 1)..Len(c) /\ d[i] = c[i]
      BY <2>1, <2>2, <2>4 DEF Extends
    <3> QED
      BY <2>1, <3>1 DEF d
  <2>5. CASE i > Len(c)
    <3>1. i \in (Len(c) + 1)..Len(d)
      BY <2>1, <2>2, <2>5 DEF Extends
    <3> QED
      BY <2>1, <3>1 DEF d
  <2> QED
    BY <2>1, <2>2, <2>3, <2>4, <2>5 DEF Extends
<1>21. f.kind \in BitsKinds => NewBits(r, f, r6)
  BY <1>2, <1>19 DEF NewBits
<1> QED
  BY <1>0, <1>12, <1>17, <1>18, <1>20, <1>21 DEF MergedTo
(***************************************************************************)
(* The measurement group.                                                  *)
(***************************************************************************)

\* What Group leaves alone, whatever it does.
Kept(r, q) ==
    /\ Shape(q) /\ q.clock = r.clock /\ q.out.bits = r.out.bits
    /\ Extends(q.out.events, r.out.events) /\ NoRestarts(q.out.events, r.out.events)

\* No epoch is published.
Quiet(r, q) ==
    /\ Kept(r, q) /\ q.out.epochs = r.out.epochs
    /\ Incompletes(q.out.events, r.out.events)

\* One epoch is published, and the last event says so.
Emits(r, q, e) ==
    LET ev == r.out.events  ew == q.out.events IN
      /\ Kept(r, q) /\ q.out.epochs = Append(r.out.epochs, e)
      /\ Len(ev) < Len(ew)
      /\ \A i \in (Len(ev) + 1)..(Len(ew) - 1) : ~Completes(ew[i])
      /\ Completes(ew[Len(ew)]) /\ ew[Len(ew)].n = e.n

SameWork(r, q) ==
    /\ q.pending = r.pending /\ q.pendingStart = r.pendingStart /\ q.extras = r.extras
    /\ q.hasMeasurements = r.hasMeasurements /\ q.failed = r.failed

LEMMA QuietSelf == ASSUME NEW r, Shape(r) PROVE Quiet(r, r) /\ SameWork(r, r)
  BY CalmSelf DEF Calm, Quiet, Kept, NoRestarts, SameWork, Extends

\* An event of its own, between two changes of other fields.
LEMMA QuietEvent ==
  ASSUME NEW r, Shape(r), NEW n, NEW kind, NEW scope, NEW t, NEW detail,
         detail # "COMPLETE", kind # "RECEIVER_RESTART"
  PROVE  LET q == Event(r, n, kind, scope, t, detail) IN Quiet(r, q) /\ SameWork(r, q)
<1> DEFINE q == Event(r, n, kind, scope, t, detail)
<1>1. Calm(r, q) /\ NoRestarts(q.out.events, r.out.events)
  BY CalmEvent, NoRestartEvent
<1>2. q.clock = r.clock /\ q.out.bits = r.out.bits
  BY EventFacts DEF ReaderFields
<1> HIDE DEF q
<1>3. Quiet(r, q) /\ SameWork(r, q)
  BY <1>1, <1>2 DEF Calm, SameGroup, Quiet, Kept, SameWork
<1> QED
  BY <1>3 DEF q

LEMMA ClassifyFacts ==
  ASSUME NEW r, Shape(r), NEW n, NEW t
  PROVE  Quiet(r, Classify(r, n, t)) /\ SameWork(r, Classify(r, n, t))
<1> DEFINE interval == t - r.cadence.last
           kind == CadenceKind(interval, Expected(r.cadence.window))
           told == IF kind = "regular" THEN r
                   ELSE Event(r, n, kind, "OBSERVATION", t, None)
           q == Classify(r, n, t)
<1>1. kind # "RECEIVER_RESTART"
  BY DEF CadenceKind
<1> HIDE DEF kind, interval
<1>2. Quiet(r, told) /\ SameWork(r, told)
  BY <1>1, QuietSelf, QuietEvent, AbsentAssumption
<1>3. \/ q = r \/ q = told
      \/ \E w : q = [told EXCEPT !.cadence.window = w]
  BY DEF Classify, kind, interval
<1> HIDE DEF told, q
<1>4. CASE q = r
  BY <1>4, QuietSelf DEF q
<1>5. CASE q = told
  BY <1>2, <1>5 DEF q
<1>6. ASSUME NEW w, q = [told EXCEPT !.cadence.window = w]
      PROVE  Quiet(r, q) /\ SameWork(r, q)
  <2>1. /\ DOMAIN q = ReaderFields /\ q.clock = told.clock /\ q.out = told.out
        /\ SameWork(told, q)
    BY <1>2, <1>6 DEF Quiet, Kept, Shape, ReaderFields, SameWork
  <2>2. Shape(q)
    BY <1>2, <2>1 DEF Quiet, Kept, Shape, SameWork
  <2> QED
    BY <1>2, <2>1, <2>2 DEF Quiet, Kept, SameWork
<1> QED
  BY <1>3, <1>4, <1>5, <1>6 DEF q

LEMMA EmitFacts ==
  ASSUME NEW r, Shape(r), NEW n, NEW t, t # None, NEW rows, NEW extras
  PROVE  LET q == Emit(r, n, t, rows, extras)
             e == [n |-> n, t |-> t, rows |-> rows, extras |-> extras]
         IN  Emits(r, q, e) /\ SameWork(r, q)
<1> DEFINE q == Emit(r, n, t, rows, extras)
           e == [n |-> n, t |-> t, rows |-> rows, extras |-> extras]
           r1 == Classify(r, n, t)
           r2 == [r1 EXCEPT !.cadence.last = t]
           r3 == Event(r2, n, "EPOCH_COMPLETION", "OBSERVATION", t, "COMPLETE")
<1>1. Quiet(r, r1) /\ SameWork(r, r1)
  BY ClassifyFacts
<1> HIDE DEF r1
<1>2. /\ DOMAIN r2 = ReaderFields /\ r2.clock = r1.clock /\ r2.out = r1.out
      /\ SameWork(r1, r2)
  BY <1>1 DEF Quiet, Kept, Shape, ReaderFields, SameWork
<1>3. Shape(r2) /\ Quiet(r, r2) /\ SameWork(r, r2)
  <2>1. Shape(r2)
    BY <1>1, <1>2 DEF Quiet, Kept, Shape, SameWork
  <2> HIDE DEF r2
  <2> QED
    BY <1>1, <1>2, <2>1 DEF Quiet, Kept, SameWork
<1> DEFINE last == Len(r2.out.events) + 1
<1> HIDE DEF r2
<1>4. /\ Shape(r3)
      /\ \A x \in ReaderFields \ {"out"} : r3[x] = r2[x]
      /\ r3.out.bits = r2.out.bits /\ r3.out.epochs = r2.out.epochs
      /\ Extends(r3.out.events, r2.out.events)
      /\ Len(r3.out.events) = last
      /\ r3.out.events[last].n = n /\ Completes(r3.out.events[last])
      /\ r3.out.events[last].kind = "EPOCH_COMPLETION"
  BY <1>3, EventFacts, SMTT(30) DEF Completes
<1>5. r3.clock = r2.clock /\ SameWork(r2, r3)
  BY <1>4 DEF ReaderFields, SameWork
<1>6. q = [r3 EXCEPT !.out.epochs = Append(r3.out.epochs, e)]
  <2>1. q = [r3 EXCEPT !.out.epochs = Append(@, e)]
    BY DEF Emit, r1, r2
  <2> HIDE DEF q, r3
  <2> QED
    BY <1>4, <2>1 DEF Shape, ReaderFields
<1> HIDE DEF r3, q, e, last
<1>7. IsSeq(Append(r3.out.epochs, e))
  BY <1>4, AppendFacts DEF Shape
<1>8. /\ DOMAIN q = ReaderFields /\ DOMAIN q.out = DOMAIN r3.out
      /\ q.out.epochs = Append(r3.out.epochs, e) /\ q.out.events = r3.out.events
      /\ q.out.bits = r3.out.bits /\ q.clock = r3.clock /\ SameWork(r3, q)
  BY <1>4, <1>6 DEF Shape, ReaderFields, SameWork
<1>9. Shape(q)
  BY <1>4, <1>7, <1>8 DEF Shape, SameWork
<1>10. SameWork(r, q)
  BY <1>3, <1>5, <1>8 DEF SameWork
<1>11. /\ q.clock = r.clock /\ q.out.bits = r.out.bits
       /\ q.out.epochs = Append(r.out.epochs, e)
  BY <1>3, <1>4, <1>5, <1>8 DEF Quiet, Kept
<1>12. e.n = n
  BY DEF e
<1> DEFINE ev == r.out.events  em == r2.out.events  ew == q.out.events
<1>13. /\ Extends(em, ev) /\ NoRestarts(em, ev) /\ Incompletes(em, ev)
       /\ Extends(ew, em) /\ Len(ew) = last /\ last = Len(em) + 1
       /\ ew[last].n = n /\ Completes(ew[last]) /\ ~Restarts(ew[last])
  BY <1>3, <1>4, <1>8 DEF Quiet, Kept, last, Restarts
<1> HIDE DEF ev, em, ew
<1>14. Extends(ew, ev)
  BY <1>13 DEF Extends
<1>15. NoRestarts(ew, ev)
  <2> SUFFICES ASSUME NEW i \in (Len(ev) + 1)..Len(ew) PROVE ~Restarts(ew[i])
    BY DEF NoRestarts
  <2>1. CASE i = last
    BY <1>13, <2>1
  <2>2. CASE i # last
    <3>1. i \in (Len(ev) + 1)..Len(em) /\ ew[i] = em[i]
      BY <1>13, <2>2 DEF Extends
    <3> QED
      BY <1>13, <3>1 DEF NoRestarts
  <2> QED
    BY <2>1, <2>2
<1>16. \A i \in (Len(ev) + 1)..(Len(ew) - 1) : ~Completes(ew[i])
  <2> TAKE i \in (Len(ev) + 1)..(Len(ew) - 1)
  <2>1. i \in (Len(ev) + 1)..Len(em) /\ ew[i] = em[i]
    BY <1>13 DEF Extends
  <2> QED
    BY <1>13, <2>1 DEF Incompletes
<1>17. Len(ev) < Len(ew)
  BY <1>13 DEF Extends
<1>18. Emits(r, q, e)
  BY <1>9, <1>11, <1>12, <1>13, <1>14, <1>15, <1>16, <1>17 DEF Emits, Kept, ev, ew
<1> QED
  BY <1>10, <1>18 DEF q, e
\* What the withheld group is when there is one.
Withholds(r) ==
    /\ r.pending = None => ~r.hasMeasurements
    /\ r.pending # None => r.pending \in PendingGroup

LEMMA PendingRecord ==
  ASSUME NEW p \in PendingGroup
  PROVE  p # None /\ DOMAIN p = {"t", "rows", "counter"} /\ p.t \in Time /\ p.rows \in SUBSET Nat
BY AbsentAssumption DEF PendingGroup

\* The block belongs to the group that is withheld.
Belongs(r, f) == r.pending # None /\ r.pending.t = f.t

LEMMA IncompleteFacts ==
  ASSUME NEW r, Shape(r), NEW n, NEW basis, basis # "COMPLETE"
  PROVE  Quiet(r, Incomplete(r, n, basis)) /\ SameWork(r, Incomplete(r, n, basis))
BY QuietSelf, QuietEvent DEF Incomplete

LEMMA AdoptFacts ==
  ASSUME NEW r, Shape(r), Withholds(r), NEW f \in Frame
  PROVE  LET q == Adopt(r, f) IN
           /\ Quiet(r, q) /\ q.failed = r.failed
           /\ Belongs(r, f) => q = r
           /\ ~Belongs(r, f) =>
                /\ q.pending = [t |-> f.t, rows |-> {}, counter |-> None]
                /\ q.pendingStart = f.n /\ q.hasMeasurements = FALSE
           /\ Withholds(q) /\ q.pending # None
<1> DEFINE told == IF r.hasMeasurements THEN Incomplete(r, f.n, "SUPERSEDED") ELSE r
           fresh == [t |-> f.t, rows |-> {}, counter |-> None]
           q == Adopt(r, f)
<1>0. fresh \in PendingGroup
  BY DEF PendingGroup, Frame, Time
<1>1. CASE Belongs(r, f)
  <2>1. q = r
    BY <1>1 DEF Adopt, Belongs
  <2> QED
    BY <1>1, <2>1, QuietSelf DEF Belongs
<1>2. CASE ~Belongs(r, f)
  <2>1. Quiet(r, told) /\ SameWork(r, told)
    BY QuietSelf, IncompleteFacts
  <2>2. q = [told EXCEPT !.pending = fresh, !.pendingStart = f.n, !.extras = {},
                         !.hasMeasurements = FALSE]
    BY <1>2 DEF Adopt, Belongs
  <2> HIDE DEF told, fresh, q
  <2>3. /\ DOMAIN q = ReaderFields /\ q.clock = told.clock /\ q.out = told.out
        /\ q.failed = told.failed /\ q.pending = fresh /\ q.pendingStart = f.n
        /\ q.hasMeasurements = FALSE
    BY <2>1, <2>2 DEF Quiet, Kept, Shape, ReaderFields
  <2>4. Shape(q)
    BY <2>1, <2>3 DEF Quiet, Kept, Shape
  <2>5. Quiet(r, q) /\ q.failed = r.failed
    BY <2>1, <2>3, <2>4 DEF Quiet, Kept, SameWork
  <2>6. Withholds(q) /\ q.pending # None
    BY <1>0, <2>3, PendingRecord DEF Withholds
  <2> QED
    BY <1>2, <2>3, <2>5, <2>6 DEF q, fresh
<1> QED
  BY <1>1, <1>2

\* A frame that has no part in groups.
GroupKinds == {"EXTRA", "RAWX", "MEAS", "END"}

LEMMA GroupOther ==
  ASSUME NEW r, NEW f, f.kind \notin GroupKinds PROVE Group(r, f) = r
BY DEF Group, GroupKinds

\* A measurement block, or MeasExtra, of the withheld group or of the next.
LEMMA GroupBlock ==
  ASSUME NEW r, Shape(r), Withholds(r), NEW f \in Frame, f.kind \in {"EXTRA", "MEAS"}
  PROVE  LET q == Group(r, f)
             old == IF Belongs(r, f) THEN r.pending.rows ELSE {}
             had == Belongs(r, f) /\ r.hasMeasurements
         IN  /\ Quiet(r, q)
             /\ Belongs(r, f) => q.out = r.out
             /\ r.failed => q.failed
             /\ ~q.failed =>
                  /\ q.pending \in PendingGroup /\ q.pending # None /\ q.pending.t = f.t
                  /\ q.pendingStart = IF Belongs(r, f) THEN r.pendingStart ELSE f.n
                  /\ q.pending.rows = old \cup (IF f.kind = "MEAS" THEN {f.n} ELSE {})
                  /\ q.hasMeasurements = (had \/ f.kind = "MEAS")
<1> DEFINE dated == IF f.kind \in Measurement /\ f.t # None
                      THEN [r EXCEPT !.last.observation = f.t] ELSE r
           q == Group(r, f)
<1>1. /\ DOMAIN dated = ReaderFields /\ dated.clock = r.clock /\ dated.out = r.out
      /\ SameWork(r, dated)
  BY DEF Shape, ReaderFields, SameWork
<1> HIDE DEF dated
<1>2. /\ Shape(dated) /\ Withholds(dated) /\ Quiet(r, dated)
      /\ (Belongs(dated, f) <=> Belongs(r, f))
  <2>1. Shape(dated) /\ Withholds(dated) /\ (Belongs(dated, f) <=> Belongs(r, f))
    BY <1>1 DEF Shape, Withholds, SameWork, Belongs
  <2> QED
    BY <1>1, <2>1, QuietSelf DEF Quiet, Kept
<1>3. CASE f.kind = "EXTRA"
  <2> DEFINE a == Adopt(r, f)
  <2>1. q = [a EXCEPT !.extras = @ \cup {f.n}]
    BY <1>3 DEF Group
  <2>2. /\ Quiet(r, a) /\ a.failed = r.failed
        /\ Belongs(r, f) => a = r
        /\ ~Belongs(r, f) =>
             /\ a.pending = [t |-> f.t, rows |-> {}, counter |-> None]
             /\ a.pendingStart = f.n /\ a.hasMeasurements = FALSE
        /\ Withholds(a) /\ a.pending # None
    BY AdoptFacts
  <2> HIDE DEF a, q
  <2>3. /\ DOMAIN q = ReaderFields /\ q.clock = a.clock /\ q.out = a.out
        /\ q.pending = a.pending /\ q.pendingStart = a.pendingStart
        /\ q.hasMeasurements = a.hasMeasurements /\ q.failed = a.failed
    BY <2>1, <2>2 DEF Quiet, Kept, Shape, ReaderFields
  <2>4. Quiet(r, q)
    <3>1. Shape(q)
      BY <2>2, <2>3 DEF Quiet, Kept, Shape
    <3> QED
      BY <2>2, <2>3, <3>1 DEF Quiet, Kept
  <2>5. /\ q.pending \in PendingGroup /\ q.pending # None /\ q.pending.t = f.t
        /\ q.pendingStart = IF Belongs(r, f) THEN r.pendingStart ELSE f.n
        /\ q.pending.rows = IF Belongs(r, f) THEN r.pending.rows ELSE {}
        /\ q.hasMeasurements = (Belongs(r, f) /\ r.hasMeasurements)
    <3>1. q.pending \in PendingGroup /\ q.pending # None
      BY <2>2, <2>3 DEF Withholds
    <3>2. CASE Belongs(r, f)
      <4>1. q.pending = r.pending /\ q.pendingStart = r.pendingStart
            /\ q.hasMeasurements = r.hasMeasurements /\ r.pending.t = f.t
            /\ r.hasMeasurements \in BOOLEAN
        BY <2>2, <2>3, <3>2 DEF Belongs, Shape
      <4> QED
        BY <3>1, <3>2, <4>1
    <3>3. CASE ~Belongs(r, f)
      <4>1. /\ q.pending = [t |-> f.t, rows |-> {}, counter |-> None]
            /\ q.pendingStart = f.n /\ q.hasMeasurements = FALSE
        BY <2>2, <2>3, <3>3
      <4>2. q.pending.t = f.t /\ q.pending.rows = {}
        BY <4>1
      <4>3. q.hasMeasurements = (Belongs(r, f) /\ r.hasMeasurements)
        BY <3>3, <4>1
      <4> QED
        BY <3>1, <3>3, <4>1, <4>2, <4>3
    <3> QED
      BY <3>2, <3>3
  <2>6. (IF f.kind = "MEAS" THEN {f.n} ELSE {}) = {}
    BY <1>3
  <2> QED
    BY <1>3, <2>2, <2>3, <2>4, <2>5, <2>6 DEF q
<1>4. CASE f.kind = "MEAS"
  <2> DEFINE a == Adopt(dated, f)
  <2>1. q = AddMeasurements(a, f)
    BY <1>4 DEF Group, dated
  <2>2. /\ Quiet(dated, a) /\ a.failed = dated.failed
        /\ Belongs(dated, f) => a = dated
        /\ ~Belongs(dated, f) =>
             /\ a.pending = [t |-> f.t, rows |-> {}, counter |-> None]
             /\ a.pendingStart = f.n /\ a.hasMeasurements = FALSE
        /\ Withholds(a) /\ a.pending # None
    BY <1>2, AdoptFacts
  <2> HIDE DEF a, q
  <2>3. Quiet(r, a) /\ a.failed = r.failed /\ (Belongs(r, f) => a.out = r.out)
    BY <1>1, <1>2, <2>2 DEF Quiet, Kept, SameWork
  <2>4. /\ a.pending \in PendingGroup /\ a.pending.t = f.t
        /\ a.pendingStart = IF Belongs(r, f) THEN r.pendingStart ELSE f.n
        /\ a.pending.rows = IF Belongs(r, f) THEN r.pending.rows ELSE {}
    BY <1>1, <1>2, <2>2 DEF Withholds, Belongs, SameWork
  <2>5. CASE Conflicts(a.pending.counter, f.v)
    <3>1. q = [a EXCEPT !.failed = TRUE]
      BY <2>1, <2>5 DEF AddMeasurements
    <3>2. /\ DOMAIN q = ReaderFields /\ q.clock = a.clock /\ q.out = a.out
          /\ q.hasMeasurements = a.hasMeasurements /\ q.failed = TRUE
      BY <2>3, <3>1 DEF Quiet, Kept, Shape, ReaderFields
    <3>3. Shape(q)
      BY <2>3, <3>2 DEF Quiet, Kept, Shape
    <3> QED
      BY <2>3, <3>2, <3>3 DEF Quiet, Kept, q
  <2>6. CASE ~Conflicts(a.pending.counter, f.v)
    <3> DEFINE p == [a.pending EXCEPT !.rows = @ \cup {f.n}, !.counter = f.v]
    <3>1. q = [a EXCEPT !.pending = p, !.hasMeasurements = TRUE]
      BY <2>1, <2>3, <2>6 DEF AddMeasurements, Quiet, Kept, Shape, ReaderFields
    <3>2. /\ p \in PendingGroup /\ p.t = f.t /\ p.rows = a.pending.rows \cup {f.n}
      BY <2>4 DEF PendingGroup, Frame
    <3> HIDE DEF p
    <3>3. /\ DOMAIN q = ReaderFields /\ q.clock = a.clock /\ q.out = a.out
          /\ q.pending = p /\ q.pendingStart = a.pendingStart
          /\ q.hasMeasurements = TRUE /\ q.failed = a.failed
      BY <2>3, <3>1 DEF Quiet, Kept, Shape, ReaderFields
    <3>4. Shape(q)
      BY <2>3, <3>3 DEF Quiet, Kept, Shape
    <3>5. Quiet(r, q)
      BY <2>3, <3>3, <3>4 DEF Quiet, Kept
    <3>6. p # None
      BY <3>2, PendingRecord
    <3>7. (IF f.kind = "MEAS" THEN {f.n} ELSE {}) = {f.n}
      BY <1>4
    <3> QED
      BY <1>4, <2>3, <2>4, <3>2, <3>3, <3>5, <3>6, <3>7 DEF q
  <2> QED
    BY <2>5, <2>6
<1> QED
  BY <1>3, <1>4

\* A RAWX is an epoch of its own; the withheld group does not change.
LEMMA GroupRawx ==
  ASSUME NEW r, Shape(r), NEW f, f.kind = "RAWX"
  PROVE  LET q == Group(r, f) IN
           /\ SameWork(r, q)
           /\ f.t = None => Quiet(r, q)
           /\ f.t # None => Emits(r, q, [n |-> f.n, t |-> f.t, rows |-> {f.n}, extras |-> {}])
<1> DEFINE dated == IF f.kind \in Measurement /\ f.t # None
                      THEN [r EXCEPT !.last.observation = f.t] ELSE r
           q == Group(r, f)
<1>1. /\ DOMAIN dated = ReaderFields /\ dated.clock = r.clock /\ dated.out = r.out
      /\ SameWork(r, dated)
  BY DEF Shape, ReaderFields, SameWork
<1>2. q = Emit(dated, f.n, f.t, {f.n}, {})
  BY DEF Group
<1> HIDE DEF dated, q
<1>3. Shape(dated) /\ Quiet(r, dated)
  <2>1. Shape(dated)
    BY <1>1 DEF Shape, SameWork
  <2> QED
    BY <1>1, <2>1, QuietSelf DEF Quiet, Kept
<1>4. CASE f.t = None
  <2>1. q = dated
    BY <1>2, <1>4 DEF Emit
  <2> QED
    BY <1>1, <1>3, <1>4, <2>1 DEF q
<1>5. CASE f.t # None
  <2> DEFINE e == [n |-> f.n, t |-> f.t, rows |-> {f.n}, extras |-> {}]
  <2>1. Emits(dated, q, e) /\ SameWork(dated, q)
    BY <1>2, <1>3, <1>5, EmitFacts
  <2> HIDE DEF e
  <2>2. Emits(r, q, e) /\ SameWork(r, q)
    BY <1>1, <2>1 DEF Emits, Kept, SameWork
  <2> QED
    BY <1>5, <2>2 DEF q, e
<1> QED
  BY <1>4, <1>5

\* EndOfMeas closes the group of its time, and no other.
LEMMA GroupEnd ==
  ASSUME NEW r, Shape(r), Withholds(r), NEW f, f.kind = "END"
  PROVE  LET q == Group(r, f) IN
           /\ ~Belongs(r, f) => q = r
           /\ Belongs(r, f) =>
                /\ q.pending = None /\ q.hasMeasurements = FALSE /\ q.failed = r.failed
                /\ ~r.hasMeasurements \/ f.t = None => Quiet(r, q)
                /\ r.hasMeasurements /\ f.t # None =>
                     Emits(r, q, [n |-> f.n, t |-> f.t, rows |-> r.pending.rows,
                                  extras |-> r.extras])
<1> DEFINE q == Group(r, f)
           emitted == IF r.hasMeasurements
                        THEN Emit(r, f.n, f.t, r.pending.rows, r.extras) ELSE r
           e == [n |-> f.n, t |-> f.t, rows |-> r.pending.rows, extras |-> r.extras]
<1>1. q = CloseGroup(r, f)
  BY DEF Group, Measurement
<1>2. CASE ~Belongs(r, f)
  BY <1>1, <1>2 DEF CloseGroup, Belongs
<1>3. CASE Belongs(r, f)
  <2>1. q = [emitted EXCEPT !.pending = None, !.extras = {}, !.hasMeasurements = FALSE]
    BY <1>1, <1>3 DEF CloseGroup, Belongs
  <2>2. ~r.hasMeasurements \/ f.t = None => emitted = r
    BY DEF Emit
  <2>3. r.hasMeasurements /\ f.t # None => Emits(r, emitted, e) /\ SameWork(r, emitted)
    BY EmitFacts
  <2> HIDE DEF emitted, q, e
  <2>4. Shape(emitted) /\ emitted.failed = r.failed
    BY <2>2, <2>3 DEF Emits, Kept, SameWork, Shape
  <2>5. /\ DOMAIN q = ReaderFields /\ q.clock = emitted.clock /\ q.out = emitted.out
        /\ q.pending = None /\ q.hasMeasurements = FALSE /\ q.failed = emitted.failed
    BY <2>1, <2>4 DEF Shape, ReaderFields
  <2>6. Shape(q)
    BY <2>4, <2>5 DEF Shape
  <2>7. ~r.hasMeasurements \/ f.t = None => Quiet(r, q)
    BY <2>2, <2>5, <2>6, QuietSelf DEF Quiet, Kept
  <2>8. r.hasMeasurements /\ f.t # None => Emits(r, q, e)
    BY <2>3, <2>5, <2>6 DEF Emits, Kept
  <2> QED
    BY <1>3, <2>4, <2>5, <2>7, <2>8 DEF q, e
<1> QED
  BY <1>2, <1>3
(***************************************************************************)
(* The whole frame.                                                        *)
(***************************************************************************)

LEMMA DeliverFacts ==
  ASSUME NEW r, Shape(r)
  PROVE  LET q == Deliver(r) IN
           /\ Shape(q) /\ q.clock = r.clock /\ SameWork(r, q)
           /\ q.out.events = r.out.events /\ q.out.bits = r.out.bits
           /\ q.out.epochs = r.out.epochs
<1> DEFINE q == Deliver(r)
<1>1. PICK rows, ta : q = [r EXCEPT !.out.rows = rows, !.tele = ta]
  <2> DEFINE rows == r.out.rows \o r.tele.ready  ta == [r.tele EXCEPT !.ready = <<>>]
  <2>1. q = [r EXCEPT !.out.rows = rows, !.tele = ta]
    BY DEF Deliver, Shape, ReaderFields
  <2> QED
    BY <2>1
<1> HIDE DEF q
<1>2. /\ DOMAIN q = ReaderFields /\ q.clock = r.clock /\ SameWork(r, q)
      /\ DOMAIN q.out = DOMAIN r.out
      /\ q.out.events = r.out.events /\ q.out.bits = r.out.bits
      /\ q.out.epochs = r.out.epochs
  BY <1>1 DEF Shape, ReaderFields, SameWork
<1>3. Shape(q)
  BY <1>2 DEF Shape, SameWork
<1> QED
  BY <1>2, <1>3 DEF q

\* An exception keeps what there was; otherwise the frame is delivered.
LEMMA SettledFacts ==
  ASSUME NEW r, Shape(r), NEW g, Shape(g)
  PROVE  LET q == Settled(r, g) IN
           /\ Shape(q)
           /\ \/ /\ q.failed /\ q.clock = r.clock /\ q.out = r.out
                 /\ q.pending = r.pending /\ q.hasMeasurements = r.hasMeasurements
              \/ /\ ~g.failed /\ q.clock = g.clock /\ SameWork(g, q)
                 /\ q.out.events = g.out.events /\ q.out.bits = g.out.bits
                 /\ q.out.epochs = g.out.epochs
<1>1. CASE g.failed \/ Raised(g.tele)
  <2> DEFINE q == [r EXCEPT !.failed = TRUE]
  <2>1. Settled(r, g) = q
    BY <1>1 DEF Settled
  <2>2. /\ DOMAIN q = ReaderFields /\ q.clock = r.clock /\ q.out = r.out /\ q.failed = TRUE
        /\ q.pending = r.pending /\ q.hasMeasurements = r.hasMeasurements
    BY DEF Shape, ReaderFields
  <2> HIDE DEF q
  <2>3. Shape(q)
    BY <2>2 DEF Shape
  <2> QED
    BY <2>1, <2>2, <2>3
<1>2. CASE ~(g.failed \/ Raised(g.tele))
  <2>1. Settled(r, g) = Deliver(g)
    BY <1>2 DEF Settled
  <2> QED
    BY <1>2, <2>1, DeliverFacts
<1> QED
  BY <1>1, <1>2

LEMMA ConsumeIs ==
  ASSUME NEW r, NEW f
  PROVE  Consume(r, f) = Settled(r, Group(Merged(r, f), f))
BY DEF Consume, Merged

\* The measurement blocks among some frames, and that one is the first of them.
MeasIn(in, from, to) == {m \in from..to : in[m].kind = "MEAS"}
HasLeast(rows) == rows # {} => \E lo \in rows : \A x \in rows : lo =< x

\* The frames from the group's start on, or from the next one on, and what is
\* left to read of them.
Blocks == {"MEAS", "EXTRA"}
Begin(r, up) == IF r.pending = None THEN up ELSE r.pendingStart
Pending(in, r, up) ==
    /\ r.pendingStart \in 1..(up - 1)
    /\ in[r.pendingStart].kind \in Blocks /\ in[r.pendingStart].t = r.pending.t
    /\ r.pending.rows = MeasIn(in, r.pendingStart, up - 1)
    /\ r.hasMeasurements <=> r.pending.rows # {}
    /\ HasLeast(r.pending.rows)
OneGroup(in, from) ==
    \A j \in from..Len(in) :
      /\ in[from].kind \in Blocks
      /\ in[j].kind \in Blocks => in[j].t = in[from].t
      /\ in[j].kind = "END" => in[j].t # in[from].t
AllClosed(in) ==
    \A i \in 1..Len(in) : in[i].kind \in Blocks => \E j \in (i + 1)..Len(in) : in[j].kind = "END"

\* The withheld group is what the frames before `up` make of it, and no frame
\* from its start on closes it or begins another.
Grouped(in, r, up) ==
    /\ Withholds(r)
    /\ r.pending # None => Pending(in, r, up)
    /\ OneGroup(in, Begin(r, up))
    /\ r.pending = None /\ up = Len(in) + 1 => AllClosed(in)

OneProtocol(in) ==
    \A i, j \in 1..Len(in) : in[i].kind = "RAWX" => in[j].kind \notin {"MEAS", "EXTRA", "END"}

LEMMA RowsGrow ==
  ASSUME NEW in, NEW s \in Nat, NEW up \in Nat, s =< up, HasLeast(MeasIn(in, s, up - 1))
  PROVE  /\ MeasIn(in, s, up) = MeasIn(in, s, up - 1) \cup (IF in[up].kind = "MEAS" THEN {up} ELSE {})
         /\ HasLeast(MeasIn(in, s, up))
         /\ MeasIn(in, s, up) # {} <=> (MeasIn(in, s, up - 1) # {} \/ in[up].kind = "MEAS")
<1> DEFINE old == MeasIn(in, s, up - 1)  new == MeasIn(in, s, up)
<1>1. new = old \cup (IF in[up].kind = "MEAS" THEN {up} ELSE {})
  BY DEF MeasIn
<1>2. ASSUME new # {} PROVE \E lo \in new : \A x \in new : lo =< x
  <2>1. CASE old # {}
    <3>1. PICK lo \in old : \A x \in old : lo =< x
      BY <2>1 DEF HasLeast
    <3>2. lo \in s..(up - 1) /\ lo \in new
      BY DEF MeasIn
    <3>3. ASSUME NEW x \in new PROVE lo =< x
      <4>1. x \in old \/ x = up
        BY <1>1
      <4>2. lo \in Nat /\ lo =< up
        BY <3>2
      <4> QED
        BY <3>1, <4>1, <4>2
    <3> QED
      BY <3>2, <3>3
  <2>2. CASE old = {}
    <3>1. new = {up}
      BY <1>1, <1>2, <2>2
    <3> QED
      BY <3>1
  <2> QED
    BY <2>1, <2>2
<1>3. new # {} <=> (old # {} \/ in[up].kind = "MEAS")
  BY <1>1
<1> QED
  BY <1>1, <1>2, <1>3 DEF HasLeast

\* A block that is read, the first time or again, makes the withheld group.
LEMMA BlockPends ==
  ASSUME NEW in, NEW r, Shape(r), Withholds(r), NEW up \in Nat \ {0},
         r.pending # None => Pending(in, r, up),
         NEW f \in Frame, in[up] = f, f.n = up, f.kind \in Blocks,
         ~Group(r, f).failed
  PROVE  LET g == Group(r, f) IN
           /\ Pending(in, g, up + 1) /\ Withholds(g) /\ g.pending # None
           /\ g.pendingStart = IF Belongs(r, f) THEN r.pendingStart ELSE up
<1> DEFINE g == Group(r, f)
           s == IF Belongs(r, f) THEN r.pendingStart ELSE up
           old == IF Belongs(r, f) THEN r.pending.rows ELSE {}
           had == Belongs(r, f) /\ r.hasMeasurements
           new == old \cup (IF f.kind = "MEAS" THEN {up} ELSE {})
<1>1. /\ g.pending \in PendingGroup /\ g.pending # None /\ g.pending.t = f.t
      /\ g.pendingStart = s /\ g.pending.rows = new
      /\ g.hasMeasurements = (had \/ f.kind = "MEAS")
  BY GroupBlock DEF Blocks
<1>2. CASE Belongs(r, f)
  <2>1. Pending(in, r, up) /\ s = r.pendingStart /\ old = r.pending.rows
    BY <1>2 DEF Belongs
  <2>2. /\ s \in 1..(up - 1) /\ in[s].kind \in Blocks /\ in[s].t = f.t
        /\ old = MeasIn(in, s, up - 1) /\ HasLeast(old)
        /\ (r.hasMeasurements <=> old # {})
    BY <1>2, <2>1 DEF Pending, Belongs
  <2>3. had <=> old # {}
    BY <1>2, <2>2
  <2> HIDE DEF s, old, new, had
  <2>4. /\ new = MeasIn(in, s, up) /\ HasLeast(new)
        /\ new # {} <=> (old # {} \/ in[up].kind = "MEAS")
    <3>1. s \in Nat /\ up \in Nat /\ s =< up /\ HasLeast(MeasIn(in, s, up - 1))
      BY <2>2
    <3>2. /\ MeasIn(in, s, up)
                = MeasIn(in, s, up - 1) \cup (IF in[up].kind = "MEAS" THEN {up} ELSE {})
          /\ HasLeast(MeasIn(in, s, up))
          /\ MeasIn(in, s, up) # {} <=> (MeasIn(in, s, up - 1) # {} \/ in[up].kind = "MEAS")
      BY <3>1, RowsGrow
    <3> QED
      BY <2>2, <3>2 DEF new
  <2>5. g.hasMeasurements <=> new # {}
    BY <1>1, <2>3, <2>4
  <2>6. s \in 1..((up + 1) - 1) /\ (up + 1) - 1 = up
    BY <2>2
  <2> HIDE DEF g
  <2>7. Pending(in, g, up + 1)
    BY <1>1, <2>2, <2>4, <2>5, <2>6 DEF Pending
  <2> QED
    BY <1>1, <2>7 DEF g, s, Withholds
<1>3. CASE ~Belongs(r, f)
  <2>1. s = up /\ old = {} /\ ~had
    BY <1>3
  <2> HIDE DEF s, old, had
  <2>2. /\ new = MeasIn(in, s, up) /\ HasLeast(new)
        /\ new # {} <=> in[up].kind = "MEAS"
    BY <2>1 DEF MeasIn, HasLeast
  <2> HIDE DEF new, g
  <2>3. g.hasMeasurements <=> new # {}
    BY <1>1, <2>1, <2>2
  <2>4. s \in 1..((up + 1) - 1) /\ (up + 1) - 1 = up
    BY <2>1
  <2>5. Pending(in, g, up + 1)
    BY <1>1, <2>1, <2>2, <2>3, <2>4 DEF Pending
  <2> QED
    BY <1>1, <2>5 DEF g, s, Withholds
<1> QED
  BY <1>2, <1>3

\* A group that begins where none is withheld has nothing to tell.
LEMMA BlockUntold ==
  ASSUME NEW r, Shape(r), Withholds(r), r.pending = None, NEW f, f.kind \in Blocks
  PROVE  Group(r, f).out = r.out
<1> DEFINE dated == IF f.kind \in Measurement /\ f.t # None
                      THEN [r EXCEPT !.last.observation = f.t] ELSE r
           fresh == [t |-> f.t, rows |-> {}, counter |-> None]
<1>1. DOMAIN dated = ReaderFields /\ dated.out = r.out /\ dated.pending = None
      /\ dated.hasMeasurements = r.hasMeasurements
  BY DEF Shape, ReaderFields
<1>2. ~r.hasMeasurements
  BY DEF Withholds
<1>3. ASSUME NEW q, q \in {r, dated}
      PROVE  DOMAIN Adopt(q, f) = ReaderFields /\ Adopt(q, f).out = r.out
  <2>1. DOMAIN q = ReaderFields /\ q.out = r.out /\ q.pending = None /\ ~q.hasMeasurements
    BY <1>1, <1>2, <1>3 DEF Shape
  <2>2. Adopt(q, f) = [q EXCEPT !.pending = fresh, !.pendingStart = f.n, !.extras = {},
                                !.hasMeasurements = FALSE]
    BY <2>1 DEF Adopt
  <2> HIDE DEF fresh
  <2> QED
    BY <2>1, <2>2 DEF ReaderFields
<1>4. CASE f.kind = "EXTRA"
  <2>1. Group(r, f) = [Adopt(r, f) EXCEPT !.extras = @ \cup {f.n}]
    BY <1>4 DEF Group
  <2> QED
    BY <1>3, <2>1 DEF ReaderFields
<1>5. CASE f.kind = "MEAS"
  <2>1. Group(r, f) = AddMeasurements(Adopt(dated, f), f)
    BY <1>5 DEF Group
  <2>2. DOMAIN Adopt(dated, f) = ReaderFields /\ Adopt(dated, f).out = r.out
    BY <1>3
  <2> QED
    BY <2>1, <2>2 DEF AddMeasurements, ReaderFields
<1> QED
  BY <1>4, <1>5 DEF Blocks

\* Reading a frame of the withheld group again publishes nothing, and ends with
\* the group that was withheld.
LEMMA ReadAgainGroup ==
  ASSUME NEW in, Numbered(in), OneProtocol(in), NEW r, Shape(r), NEW up \in 1..Len(in),
         Grouped(in, r, up)
  PROVE  LET g == Group(r, in[up]) IN
           /\ Quiet(r, g) /\ g.out = r.out
           /\ ~g.failed => Grouped(in, g, up + 1)
<1> DEFINE f == in[up]  g == Group(r, f)  s == Begin(r, up)
<1>0. /\ f \in Frame /\ f.n = up /\ Len(in) \in Nat /\ up \in Nat \ {0}
      /\ \A j \in 1..Len(in) : in[j] \in Frame
  <2>1. in \in Seq(Frame)
    BY DEF Numbered
  <2>2. Len(in) \in Nat /\ \A j \in 1..Len(in) : in[j] \in Frame
    BY <2>1, ElementOfSeq, LenProperties
  <2> QED
    BY <2>2 DEF Numbered
<1>1. /\ Withholds(r) /\ (r.pending # None => Pending(in, r, up)) /\ OneGroup(in, s)
  BY DEF Grouped
<1>2. /\ s \in 1..up /\ in[s].kind \in Blocks
      /\ (f.kind \in Blocks => f.t = in[s].t)
      /\ (f.kind = "END" => f.t # in[s].t)
  <2>1. s \in 1..up
    BY <1>1 DEF Begin, Pending
  <2>2. up \in s..Len(in)
    BY <1>0, <2>1
  <2> QED
    BY <1>1, <2>1, <2>2 DEF OneGroup
<1>3. f.kind # "RAWX"
  <2>1. s \in 1..Len(in) /\ in[s].kind \in {"MEAS", "EXTRA"}
    BY <1>0, <1>2 DEF Blocks
  <2> QED
    BY <2>1 DEF OneProtocol
<1>4. f.kind \in Blocks /\ r.pending # None => Belongs(r, f)
  BY <1>1, <1>2 DEF Belongs, Begin, Pending
<1>5. CASE f.kind \in Blocks
  <2>1. Quiet(r, g) /\ (Belongs(r, f) => g.out = r.out)
    BY <1>0, <1>1, <1>5, GroupBlock DEF Blocks
  <2>2. g.out = r.out
    <3>1. CASE r.pending # None
      BY <1>4, <1>5, <2>1, <3>1
    <3>2. CASE r.pending = None
      BY <1>1, <1>5, <3>2, BlockUntold
    <3> QED
      BY <3>1, <3>2
  <2>3. ASSUME ~g.failed PROVE Grouped(in, g, up + 1)
    <3>1. /\ Pending(in, g, up + 1) /\ Withholds(g) /\ g.pending # None
          /\ g.pendingStart = IF Belongs(r, f) THEN r.pendingStart ELSE up
      BY <1>0, <1>1, <1>5, <2>3, BlockPends
    <3> HIDE DEF g
    <3>2. Begin(g, up + 1) = s
      BY <1>4, <1>5, <3>1 DEF Begin, Belongs
    <3> QED
      BY <1>1, <3>1, <3>2 DEF Grouped
  <2> QED
    BY <2>1, <2>2, <2>3
<1>6. CASE f.kind \notin Blocks
  <2>1. r.pending # None /\ Pending(in, r, up)
    BY <1>1, <1>2, <1>6 DEF Begin
  <2>2. g = r
    <3>1. CASE f.kind = "END"
      <4>1. ~Belongs(r, f)
        BY <1>2, <2>1, <3>1 DEF Belongs, Begin, Pending
      <4> QED
        BY <1>1, <3>1, <4>1, GroupEnd
    <3>2. CASE f.kind # "END"
      BY <1>3, <1>6, <3>2, GroupOther DEF GroupKinds, Blocks
    <3> QED
      BY <3>1, <3>2
  <2>3. Pending(in, r, up + 1)
    <3>1. r.pendingStart \in 1..up /\ (up + 1) - 1 = up
      BY <1>0, <2>1 DEF Pending
    <3>2. MeasIn(in, r.pendingStart, up - 1) = MeasIn(in, r.pendingStart, up)
      BY <1>6, <3>1 DEF Blocks, MeasIn
    <3> QED
      BY <2>1, <3>1, <3>2 DEF Pending
  <2>4. Begin(r, up + 1) = s
    BY <2>1 DEF Begin
  <2>5. Grouped(in, r, up + 1)
    BY <1>1, <2>1, <2>3, <2>4 DEF Grouped
  <2> QED
    BY <2>2, <2>5, QuietSelf
<1> QED
  BY <1>5, <1>6
(***************************************************************************)
(* A new frame and the group.                                              *)
(***************************************************************************)

\* What is published of an epoch, and what the code calls a closed group.
WholeEpoch(in, e) ==
    /\ e.n \in 1..Len(in)
    /\ \E lo \in e.rows :
         /\ lo \in 1..e.n
         /\ e.rows = {m \in lo..e.n : in[m].kind \in Measurement}
    /\ \A m \in e.rows : in[m].t = e.t
ClosedOn(in, n) ==
    /\ in[n].kind = "END" /\ in[n].t # None
    /\ \E m \in 1..(n - 1) :
         /\ in[m].kind = "MEAS" /\ in[m].t = in[n].t
         /\ \A j \in (m + 1)..(n - 1) : in[j].kind \notin {"MEAS", "EXTRA", "END"}

\* One frame more.
Grown(old, in, f) ==
    /\ Len(old) \in Nat /\ Len(in) = Len(old) + 1 /\ in[Len(old) + 1] = f
    /\ \A j \in 1..Len(old) : in[j] = old[j]

LEMMA GrownFacts ==
  ASSUME NEW old, Numbered(old), NEW f \in Frame, f.n = Len(old) + 1
  PROVE  Grown(old, Append(old, f), f) /\ Numbered(Append(old, f))
<1> DEFINE in == Append(old, f)
<1>1. old \in Seq(Frame) /\ in \in Seq(Frame)
  BY AppendProperties DEF Numbered
<1>2. Grown(old, in, f)
  BY <1>1, AppendProperties, LenProperties DEF Grown
<1> HIDE DEF in
<1>3. ASSUME NEW i \in 1..Len(in) PROVE in[i].n = i
  <2>1. CASE i = Len(old) + 1
    BY <1>2, <2>1 DEF Grown
  <2>2. CASE i # Len(old) + 1
    <3>1. i \in 1..Len(old)
      BY <1>2, <2>2 DEF Grown
    <3> QED
      BY <1>2, <3>1 DEF Grown, Numbered
  <2> QED
    BY <2>1, <2>2
<1> QED
  BY <1>1, <1>2, <1>3 DEF Numbered, in

LEMMA MeasInGrown ==
  ASSUME NEW old, NEW in, NEW f, Grown(old, in, f), NEW s \in Nat, s >= 1
  PROVE  /\ MeasIn(in, s, Len(old)) = MeasIn(old, s, Len(old))
         /\ f.kind # "MEAS" => MeasIn(in, s, Len(old) + 1) = MeasIn(old, s, Len(old))
BY DEF MeasIn, Grown

\* A frame that does nothing to the group leaves it grouped.
LEMMA GroupStays ==
  ASSUME NEW old, NEW in, NEW f, Grown(old, in, f),
         NEW r, Grouped(old, r, Len(old) + 1), NEW g, SameWork(r, g),
         f.kind \notin Blocks, f.kind = "END" => ~Belongs(r, f)
  PROVE  Grouped(in, g, Len(old) + 2)
<1> DEFINE k == Len(old)
<1>0. k \in Nat /\ Len(in) = k + 1 /\ in[k + 1] = f /\ \A j \in 1..k : in[j] = old[j]
  BY DEF Grown
<1>1. Withholds(g)
  BY DEF Grouped, SameWork, Withholds
<1>2. CASE r.pending = None
  <2>1. Begin(g, k + 2) = k + 2
    BY <1>2 DEF Begin, SameWork
  <2>2. OneGroup(in, k + 2)
    BY <1>0 DEF OneGroup
  <2>3. AllClosed(old)
    BY <1>2 DEF Grouped
  <2>4. ASSUME NEW i \in 1..Len(in), in[i].kind \in Blocks
        PROVE  \E j \in (i + 1)..Len(in) : in[j].kind = "END"
    <3>1. i \in 1..k
      BY <1>0, <2>4
    <3>2. PICK j \in (i + 1)..k : old[j].kind = "END"
      BY <1>0, <2>3, <2>4, <3>1 DEF AllClosed
    <3>3. j \in 1..k /\ j \in (i + 1)..Len(in)
      BY <1>0, <3>1, <3>2
    <3> QED
      BY <1>0, <3>2, <3>3
  <2>5. g.pending = None
    BY <1>2 DEF SameWork
  <2> QED
    BY <1>1, <2>1, <2>2, <2>4, <2>5 DEF Grouped, AllClosed
<1>3. CASE r.pending # None
  <2> DEFINE s == r.pendingStart
  <2>1. Pending(old, r, k + 1) /\ OneGroup(old, s)
    BY <1>3 DEF Grouped, Begin
  <2>2. s \in 1..k
    BY <1>0, <2>1 DEF Pending
  <2>3. MeasIn(in, s, k + 1) = MeasIn(old, s, k)
    BY <2>2, MeasInGrown DEF Blocks
  <2>4. g.pending = r.pending /\ g.pendingStart = s /\ g.hasMeasurements = r.hasMeasurements
    BY DEF SameWork
  <2>5. in[s] = old[s]
    BY <1>0, <2>2
  <2> HIDE DEF s
  <2>6. Pending(in, g, k + 2)
    <3>1. (k + 2) - 1 = k + 1 /\ (k + 1) - 1 = k /\ s \in 1..((k + 2) - 1)
      BY <1>0, <2>2
    <3> QED
      BY <2>1, <2>3, <2>4, <2>5, <3>1 DEF Pending, s
  <2>7. ASSUME NEW j \in s..Len(in)
        PROVE  /\ in[s].kind \in Blocks
               /\ in[j].kind \in Blocks => in[j].t = in[s].t
               /\ in[j].kind = "END" => in[j].t # in[s].t
    <3>1. CASE j \in s..k
      <4>1. j \in 1..k /\ in[j] = old[j]
        BY <1>0, <2>2, <3>1
      <4> QED
        BY <2>1, <2>5, <3>1, <4>1 DEF OneGroup
    <3>2. CASE j = k + 1
      <4>1. in[j] = f /\ in[s].t = r.pending.t /\ in[s].kind \in Blocks
        BY <1>0, <2>1, <2>5, <3>2 DEF Pending, s
      <4> QED
        BY <1>3, <4>1 DEF Belongs
    <3> QED
      BY <1>0, <2>2, <3>1, <3>2
  <2>8. OneGroup(in, s)
    BY <2>7 DEF OneGroup
  <2> QED
    BY <1>1, <1>3, <2>4, <2>6, <2>8 DEF Grouped, Begin
<1> QED
  BY <1>2, <1>3

\* A block that was not read before.
LEMMA GroupGrows ==
  ASSUME NEW old, NEW in, NEW f \in Frame, Grown(old, in, f), f.n = Len(old) + 1,
         NEW r, Shape(r), Grouped(old, r, Len(old) + 1), f.kind \in Blocks,
         ~Group(r, f).failed
  PROVE  Grouped(in, Group(r, f), Len(old) + 2)
<1> DEFINE k == Len(old)  g == Group(r, f)  s == IF Belongs(r, f) THEN r.pendingStart ELSE k + 1
<1>0. k \in Nat /\ Len(in) = k + 1 /\ in[k + 1] = f /\ \A j \in 1..k : in[j] = old[j]
  BY DEF Grown
<1>1. Withholds(r)
  BY DEF Grouped
<1>2. ASSUME r.pending # None
      PROVE  /\ Pending(in, r, k + 1) /\ r.pendingStart \in 1..k
             /\ in[r.pendingStart] = old[r.pendingStart] /\ OneGroup(old, r.pendingStart)
  <2>1. Pending(old, r, k + 1) /\ OneGroup(old, r.pendingStart)
    BY <1>2 DEF Grouped, Begin
  <2>2. r.pendingStart \in 1..k
    BY <1>0, <2>1 DEF Pending
  <2>3. in[r.pendingStart] = old[r.pendingStart]
    BY <1>0, <2>2
  <2>4. MeasIn(in, r.pendingStart, k) = MeasIn(old, r.pendingStart, k)
    BY <2>2, MeasInGrown
  <2>5. (k + 1) - 1 = k
    BY <1>0
  <2> QED
    BY <2>1, <2>2, <2>3, <2>4, <2>5 DEF Pending
<1>3. /\ Pending(in, g, (k + 1) + 1) /\ Withholds(g) /\ g.pending # None /\ g.pendingStart = s
  <2>1. k + 1 \in Nat \ {0}
    BY <1>0
  <2> QED
    BY <1>0, <1>1, <1>2, <2>1, BlockPends
<1>4. (k + 1) + 1 = k + 2 /\ s \in 1..(k + 1)
  BY <1>0, <1>2 DEF Belongs
<1> HIDE DEF g
<1>5. ASSUME NEW j \in s..Len(in)
      PROVE  /\ in[s].kind \in Blocks
             /\ in[j].kind \in Blocks => in[j].t = in[s].t
             /\ in[j].kind = "END" => in[j].t # in[s].t
  <2>1. CASE ~Belongs(r, f)
    BY <1>0, <1>5, <2>1 DEF Blocks
  <2>2. CASE Belongs(r, f) /\ j = k + 1
    <3>1. in[s].kind \in Blocks /\ in[s].t = f.t
      BY <1>2, <2>2 DEF Pending, Belongs
    <3> QED
      BY <1>0, <2>2, <3>1 DEF Blocks
  <2>3. CASE Belongs(r, f) /\ j # k + 1
    <3>1. j \in s..k /\ s = r.pendingStart
      BY <1>0, <1>4, <1>5, <2>3
    <3>2. in[j] = old[j] /\ in[s] = old[s] /\ OneGroup(old, s)
      BY <1>0, <1>2, <1>4, <2>3, <3>1 DEF Belongs
    <3> QED
      BY <3>1, <3>2 DEF OneGroup
  <2> QED
    BY <2>1, <2>2, <2>3
<1>6. OneGroup(in, s)
  BY <1>5 DEF OneGroup
<1> QED
  BY <1>3, <1>4, <1>6 DEF Grouped, Begin, g
\* EndOfMeas ends the withheld group, or finds nothing to end.
LEMMA GroupCloses ==
  ASSUME NEW old, NEW in, NEW f, Grown(old, in, f),
         NEW r, Grouped(old, r, Len(old) + 1), NEW g, g.pending = None, ~g.hasMeasurements,
         f.kind = "END"
  PROVE  Grouped(in, g, Len(old) + 2)
<1> DEFINE k == Len(old)
<1>0. k \in Nat /\ Len(in) = k + 1 /\ in[k + 1] = f
  BY DEF Grown
<1>1. OneGroup(in, k + 2)
  BY <1>0 DEF OneGroup
<1>2. AllClosed(in)
  <2> SUFFICES ASSUME NEW i \in 1..Len(in), in[i].kind \in Blocks
               PROVE  \E j \in (i + 1)..Len(in) : in[j].kind = "END"
    BY DEF AllClosed
  <2>1. i # k + 1
    BY <1>0 DEF Blocks
  <2>2. k + 1 \in (i + 1)..Len(in)
    BY <1>0, <2>1
  <2> QED
    BY <1>0, <2>2
<1> QED
  BY <1>1, <1>2 DEF Grouped, Begin, Withholds

\* A closed group is the withheld one, and has measurements.
LEMMA ClosedBelongs ==
  ASSUME NEW old, NEW in, NEW f, Grown(old, in, f),
         NEW r, Grouped(old, r, Len(old) + 1), ClosedOn(in, Len(old) + 1)
  PROVE  f.kind = "END" /\ f.t # None /\ Belongs(r, f) /\ r.hasMeasurements
<1> DEFINE k == Len(old)  s == r.pendingStart
<1>0. k \in Nat /\ Len(in) = k + 1 /\ in[k + 1] = f /\ \A j \in 1..k : in[j] = old[j]
  BY DEF Grown
<1>1. f.kind = "END" /\ f.t # None
  BY <1>0 DEF ClosedOn
<1>2. PICK m \in 1..k :
        /\ old[m].kind = "MEAS" /\ old[m].t = f.t
        /\ \A j \in (m + 1)..k : in[j].kind \notin {"MEAS", "EXTRA", "END"}
  BY <1>0 DEF ClosedOn
<1>3. \A j \in (m + 1)..k : old[j].kind \notin {"MEAS", "EXTRA", "END"}
  <2> TAKE j \in (m + 1)..k
  <2>1. j \in 1..k
    BY <1>0
  <2> QED
    BY <1>0, <1>2, <2>1
<1>4. r.pending # None
  <2> SUFFICES ASSUME r.pending = None PROVE FALSE
    OBVIOUS
  <2>1. AllClosed(old)
    BY DEF Grouped
  <2>2. PICK j \in (m + 1)..k : old[j].kind = "END"
    BY <1>2, <2>1 DEF AllClosed, Blocks
  <2> QED
    BY <1>3, <2>2
<1>5. Pending(old, r, k + 1) /\ OneGroup(old, s)
  BY <1>4 DEF Grouped, Begin
<1>6. s \in 1..k /\ old[s].kind \in Blocks /\ old[s].t = r.pending.t
  BY <1>0, <1>5 DEF Pending
<1>7. s =< m
  <2> SUFFICES ASSUME s > m PROVE FALSE
    BY <1>6
  <2>1. s \in (m + 1)..k
    BY <1>6
  <2> QED
    BY <1>3, <1>6, <2>1 DEF Blocks
<1>8. m \in s..k
  BY <1>6, <1>7
<1>9. old[m].t = old[s].t
  BY <1>2, <1>5, <1>8 DEF OneGroup, Blocks
<1>10. m \in MeasIn(old, s, (k + 1) - 1)
  <2>1. (k + 1) - 1 = k
    BY <1>0
  <2> QED
    BY <1>2, <1>8, <2>1 DEF MeasIn
<1>11. r.hasMeasurements
  BY <1>5, <1>10 DEF Pending
<1> QED
  BY <1>1, <1>2, <1>4, <1>6, <1>9, <1>11 DEF Belongs

\* The epoch EndOfMeas makes of the withheld group is whole.
LEMMA WholeOfGroup ==
  ASSUME NEW old, NEW in, NEW f \in Frame, Grown(old, in, f), f.n = Len(old) + 1,
         OneProtocol(in), NEW r, Grouped(old, r, Len(old) + 1),
         f.kind = "END", Belongs(r, f), r.hasMeasurements, NEW x
  PROVE  WholeEpoch(in, [n |-> f.n, t |-> f.t, rows |-> r.pending.rows, extras |-> x])
<1> DEFINE k == Len(old)  s == r.pendingStart  rows == r.pending.rows
           e == [n |-> f.n, t |-> f.t, rows |-> rows, extras |-> x]
<1>0. k \in Nat /\ Len(in) = k + 1 /\ in[k + 1] = f /\ \A j \in 1..k : in[j] = old[j]
  BY DEF Grown
<1>1. Pending(old, r, k + 1) /\ OneGroup(old, s)
  BY DEF Grouped, Begin, Belongs
<1>2. (k + 1) - 1 = k
  BY <1>0
<1>3. /\ s \in 1..k /\ old[s].t = f.t /\ rows = MeasIn(old, s, k) /\ rows # {}
      /\ HasLeast(rows)
  BY <1>1, <1>2 DEF Pending, Belongs
<1>4. PICK lo \in rows : \A y \in rows : lo =< y
  BY <1>3 DEF HasLeast
<1>5. \A m \in rows : m \in s..k /\ m \in 1..k /\ old[m].kind = "MEAS" /\ in[m] = old[m]
  <2> TAKE m \in rows
  <2>1. m \in s..k /\ old[m].kind = "MEAS"
    BY <1>3 DEF MeasIn
  <2>2. m \in 1..k
    BY <1>3, <2>1
  <2> QED
    BY <1>0, <2>1, <2>2
<1>6. \A m \in rows : in[m].t = f.t
  <2> TAKE m \in rows
  <2>1. m \in s..Len(old) /\ old[m].kind \in Blocks /\ in[m] = old[m]
    BY <1>5 DEF Blocks
  <2>2. old[m].t = old[s].t
    BY <1>1, <2>1 DEF OneGroup
  <2> QED
    BY <1>3, <2>1, <2>2
<1>7. \A m \in 1..(k + 1) : in[m].kind # "RAWX"
  <2> TAKE m \in 1..(k + 1)
  <2>1. k + 1 \in 1..Len(in) /\ m \in 1..Len(in)
    BY <1>0
  <2> QED
    BY <1>0, <2>1 DEF OneProtocol
<1>8. rows = {m \in lo..(k + 1) : in[m].kind \in Measurement}
  <2>1. ASSUME NEW m \in rows PROVE m \in lo..(k + 1) /\ in[m].kind \in Measurement
    <3>1. m \in 1..k /\ in[m].kind = "MEAS" /\ lo \in 1..k /\ lo =< m
      BY <1>4, <1>5
    <3> QED
      BY <1>0, <3>1 DEF Measurement
  <2>2. ASSUME NEW m \in lo..(k + 1), in[m].kind \in Measurement PROVE m \in rows
    <3>1. lo \in s..k /\ lo \in 1..k
      BY <1>4, <1>5
    <3>2. m \in 1..(k + 1)
      BY <1>0, <3>1
    <3>3. in[m].kind = "MEAS"
      BY <1>7, <2>2, <3>2 DEF Measurement
    <3>4. m # k + 1
      BY <1>0, <3>3
    <3>5. m \in s..k /\ m \in 1..k
      BY <1>0, <1>3, <3>1, <3>2, <3>4
    <3> QED
      BY <1>0, <1>3, <3>3, <3>5 DEF MeasIn
  <2> QED
    BY <2>1, <2>2
<1>9. e.n = k + 1 /\ e.t = f.t /\ e.rows = rows
  OBVIOUS
<1>10. lo \in 1..(k + 1) /\ k + 1 \in 1..Len(in)
  BY <1>0, <1>4, <1>5
<1> HIDE DEF e, rows
<1>11. WholeEpoch(in, e)
  BY <1>4, <1>6, <1>8, <1>9, <1>10 DEF WholeEpoch
<1> QED
  BY <1>11 DEF e, rows

\* What a new frame publishes: nothing, or the whole epoch it closes.
Publishes(in, r, g) ==
    \/ Quiet(r, g) /\ ~ClosedOn(in, Len(in))
    \/ \E e : Emits(r, g, e) /\ e.n = Len(in) /\ WholeEpoch(in, e)

LEMMA FeedGroup ==
  ASSUME NEW old, Numbered(old), NEW in, NEW f \in Frame, Grown(old, in, f),
         f.n = Len(old) + 1, OneProtocol(in),
         NEW r, Shape(r), Grouped(old, r, Len(old) + 1), ~Group(r, f).failed
  PROVE  Grouped(in, Group(r, f), Len(old) + 2) /\ Publishes(in, r, Group(r, f))
<1> DEFINE k == Len(old)  g == Group(r, f)
<1>0. k \in Nat /\ Len(in) = k + 1 /\ in[k + 1] = f
  BY DEF Grown
<1>1. Withholds(r)
  BY DEF Grouped
<1>2. ClosedOn(in, Len(in)) =>
        f.kind = "END" /\ f.t # None /\ Belongs(r, f) /\ r.hasMeasurements
  BY <1>0, ClosedBelongs
<1>3. CASE f.kind \in Blocks
  <2>1. Grouped(in, g, k + 2)
    BY <1>3, GroupGrows
  <2>2. Quiet(r, g)
    BY <1>1, <1>3, GroupBlock DEF Blocks
  <2> QED
    BY <1>2, <1>3, <2>1, <2>2 DEF Publishes, Blocks
<1>4. CASE f.kind = "RAWX"
  <2> DEFINE e == [n |-> f.n, t |-> f.t, rows |-> {f.n}, extras |-> {}]
  <2>1. /\ SameWork(r, g)
        /\ f.t = None => Quiet(r, g)
        /\ f.t # None => Emits(r, g, e)
    BY <1>4, GroupRawx
  <2>2. Grouped(in, g, k + 2)
    BY <1>4, <2>1, GroupStays DEF Blocks
  <2>3. e.n = k + 1 /\ e.rows = {k + 1} /\ e.t = f.t
    OBVIOUS
  <2> HIDE DEF e, g
  <2>4. WholeEpoch(in, e)
    <3>1. k + 1 \in 1..(k + 1) /\ (k + 1)..(k + 1) = {k + 1}
      BY <1>0
    <3>2. {m \in (k + 1)..(k + 1) : in[m].kind \in Measurement} = {k + 1}
      BY <1>0, <1>4, <3>1 DEF Measurement
    <3> QED
      BY <1>0, <2>3, <3>1, <3>2 DEF WholeEpoch
  <2>5. Publishes(in, r, g)
    BY <1>0, <1>2, <1>4, <2>1, <2>3, <2>4 DEF Publishes
  <2> QED
    BY <2>2, <2>5 DEF g
<1>5. CASE f.kind = "END" /\ Belongs(r, f)
  <2> DEFINE e == [n |-> f.n, t |-> f.t, rows |-> r.pending.rows, extras |-> r.extras]
  <2>1. /\ g.pending = None /\ g.hasMeasurements = FALSE
        /\ ~r.hasMeasurements \/ f.t = None => Quiet(r, g)
        /\ r.hasMeasurements /\ f.t # None => Emits(r, g, e)
    BY <1>1, <1>5, GroupEnd
  <2>2. Grouped(in, g, k + 2)
    BY <1>5, <2>1, GroupCloses
  <2>3. r.hasMeasurements => WholeEpoch(in, e)
    BY <1>5, WholeOfGroup
  <2>4. e.n = k + 1
    OBVIOUS
  <2> HIDE DEF e, g
  <2>5. Publishes(in, r, g)
    BY <1>0, <1>2, <2>1, <2>3, <2>4 DEF Publishes
  <2> QED
    BY <2>2, <2>5 DEF g
<1>6. CASE ~(f.kind \in Blocks \/ f.kind = "RAWX" \/ (f.kind = "END" /\ Belongs(r, f)))
  <2>1. g = r
    <3>1. CASE f.kind = "END"
      BY <1>1, <1>6, <3>1, GroupEnd
    <3>2. CASE f.kind # "END"
      BY <1>6, <3>2, GroupOther DEF GroupKinds, Blocks
    <3> QED
      BY <3>1, <3>2
  <2>2. Quiet(r, r) /\ SameWork(r, r)
    BY QuietSelf
  <2>3. Grouped(in, r, k + 2)
    BY <1>6, <2>2, GroupStays
  <2> QED
    BY <1>2, <1>6, <2>1, <2>2, <2>3 DEF Publishes
<1> QED
  BY <1>3, <1>4, <1>5, <1>6
(***************************************************************************)
(* What has been published.                                                *)
(***************************************************************************)

\* The events that say an epoch is whole are one for each epoch.
Told(ev) == {i \in 1..Len(ev) : Completes(ev[i])}
Numbers(seq, at) == {seq[i].n : i \in at}
Counted(ev, ep) ==
    /\ IsFiniteSet(Told(ev)) /\ Cardinality(Told(ev)) = Len(ep)
    /\ Numbers(ev, Told(ev)) = Numbers(ep, 1..Len(ep))

AllWhole(in, ep) == \A i \in 1..Len(ep) : WholeEpoch(in, ep[i])

\* A closed group became an epoch.
NoneLost(in, ep) ==
    \A n \in 1..Len(in) : ClosedOn(in, n) => \E i \in 1..Len(ep) : ep[i].n = n

LEMMA TellingsQuiet ==
  ASSUME NEW ev, NEW ew, NEW ep, Counted(ev, ep), Extends(ew, ev), Incompletes(ew, ev)
  PROVE  Counted(ew, ep)
<1>1. Told(ew) = Told(ev)
  <2>1. ASSUME NEW i \in Told(ew) PROVE i \in Told(ev)
    <3>1. i \notin (Len(ev) + 1)..Len(ew)
      BY DEF Told, Incompletes
    <3>2. i \in 1..Len(ev)
      BY <3>1 DEF Told, Extends
    <3> QED
      BY <3>2 DEF Told, Extends
  <2>2. ASSUME NEW i \in Told(ev) PROVE i \in Told(ew)
    BY DEF Told, Extends
  <2> QED
    BY <2>1, <2>2
<1>2. \A i \in Told(ev) : ew[i] = ev[i]
  BY DEF Told, Extends
<1>3. Numbers(ew, Told(ew)) = Numbers(ev, Told(ev))
  BY <1>1, <1>2 DEF Numbers
<1> QED
  BY <1>1, <1>3 DEF Counted

LEMMA TellingsEmit ==
  ASSUME NEW r, Shape(r), NEW g, NEW e, Emits(r, g, e),
         Counted(r.out.events, r.out.epochs)
  PROVE  Counted(g.out.events, g.out.epochs)
<1> DEFINE ev == r.out.events  ew == g.out.events  ep == r.out.epochs  eq == g.out.epochs
           last == Len(ew)
<1>1. /\ Extends(ew, ev) /\ eq = Append(ep, e) /\ Len(ev) < last
      /\ \A i \in (Len(ev) + 1)..(last - 1) : ~Completes(ew[i])
      /\ Completes(ew[last]) /\ ew[last].n = e.n
  BY DEF Emits, Kept
<1>2. /\ Len(ep) \in Nat /\ Len(eq) = Len(ep) + 1 /\ eq[Len(ep) + 1] = e
      /\ \A i \in 1..Len(ep) : eq[i] = ep[i]
  BY <1>1, AppendFacts DEF Shape
<1>3. Counted(ev, ep)
  OBVIOUS
<1> HIDE DEF ev, ew, ep, eq
<1>4. Told(ew) = Told(ev) \cup {last}
  <2>1. ASSUME NEW i \in Told(ew), i # last PROVE i \in Told(ev)
    <3>1. i \in 1..last /\ Completes(ew[i])
      BY <2>1 DEF Told
    <3>2. i \in 1..Len(ev)
      <4>1. i \notin (Len(ev) + 1)..(last - 1)
        BY <1>1, <3>1
      <4> QED
        BY <1>1, <2>1, <3>1, <4>1 DEF Extends
    <3> QED
      BY <1>1, <3>1, <3>2 DEF Told, Extends
  <2>2. ASSUME NEW i \in Told(ev) PROVE i \in Told(ew)
    BY <1>1 DEF Told, Extends
  <2>3. last \in Told(ew)
    BY <1>1 DEF Told, Extends
  <2> QED
    BY <2>1, <2>2, <2>3
<1>5. last \notin Told(ev)
  BY <1>1 DEF Told, Extends
<1>6. IsFiniteSet(Told(ew)) /\ Cardinality(Told(ew)) = Len(eq)
  <2>1. IsFiniteSet(Told(ev)) /\ Cardinality(Told(ev)) = Len(ep)
    BY <1>3 DEF Counted
  <2>2. /\ IsFiniteSet(Told(ev) \cup {last})
        /\ Cardinality(Told(ev) \cup {last}) = Cardinality(Told(ev)) + 1
    BY <1>5, <2>1, FS_AddElement
  <2> QED
    BY <1>2, <1>4, <2>1, <2>2
<1>7. Numbers(ew, Told(ew)) = Numbers(ev, Told(ev)) \cup {e.n}
  <2>1. \A i \in Told(ev) : ew[i] = ev[i]
    BY <1>1 DEF Told, Extends
  <2> QED
    BY <1>1, <1>4, <2>1 DEF Numbers
<1>8. Numbers(eq, 1..Len(eq)) = Numbers(ep, 1..Len(ep)) \cup {e.n}
  <2>1. 1..Len(eq) = 1..Len(ep) \cup {Len(ep) + 1}
    BY <1>2
  <2> QED
    BY <1>2, <2>1 DEF Numbers
<1>9. Counted(ew, eq)
  BY <1>3, <1>6, <1>7, <1>8 DEF Counted
<1> QED
  BY <1>9 DEF ew, eq

\* An epoch is whole whatever comes after it.
LEMMA WholeGrown ==
  ASSUME NEW old, NEW in, NEW f, Grown(old, in, f), NEW e, WholeEpoch(old, e)
  PROVE  WholeEpoch(in, e)
<1>1. e.n \in 1..Len(old)
  BY DEF WholeEpoch
<1>2. PICK lo \in e.rows :
        lo \in 1..e.n /\ e.rows = {m \in lo..e.n : old[m].kind \in Measurement}
  BY DEF WholeEpoch
<1>3. \A m \in lo..e.n : m \in 1..Len(old) /\ in[m] = old[m]
  BY <1>1, <1>2 DEF Grown
<1>4. e.rows = {m \in lo..e.n : in[m].kind \in Measurement}
  BY <1>2, <1>3
<1>5. \A m \in e.rows : in[m].t = e.t
  <2> TAKE m \in e.rows
  <2>1. m \in lo..e.n
    BY <1>2
  <2> QED
    BY <1>3, <2>1 DEF WholeEpoch
<1>6. e.n \in 1..Len(in)
  BY <1>1 DEF Grown
<1> QED
  BY <1>2, <1>4, <1>5, <1>6 DEF WholeEpoch

LEMMA AllWholeGrown ==
  ASSUME NEW old, NEW in, NEW f, Grown(old, in, f), NEW ep, AllWhole(old, ep)
  PROVE  AllWhole(in, ep)
BY WholeGrown DEF AllWhole

\* So is a group closed or not.
LEMMA ClosedGrown ==
  ASSUME NEW old, NEW in, NEW f, Grown(old, in, f), NEW n \in 1..Len(old)
  PROVE  ClosedOn(in, n) <=> ClosedOn(old, n)
<1>1. \A j \in 1..n : in[j] = old[j]
  BY DEF Grown
<1>2. in[n] = old[n] /\ \A j \in 1..(n - 1) : in[j] = old[j]
  BY <1>1
<1>3. \A m \in 1..(n - 1) : \A j \in (m + 1)..(n - 1) : in[j] = old[j]
  BY <1>1
<1> QED
  BY <1>2, <1>3 DEF ClosedOn

\* A new frame adds what it closes.
LEMMA PublishedGrown ==
  ASSUME NEW old, NEW in, NEW f, Grown(old, in, f), NEW r, Shape(r), NEW g,
         Publishes(in, r, g), AllWhole(old, r.out.epochs),
         Counted(r.out.events, r.out.epochs), NoneLost(old, r.out.epochs)
  PROVE  /\ AllWhole(in, g.out.epochs) /\ Counted(g.out.events, g.out.epochs)
         /\ NoneLost(in, g.out.epochs)
<1> DEFINE ep == r.out.epochs  eq == g.out.epochs
<1>0. Len(old) \in Nat /\ Len(in) = Len(old) + 1
  BY DEF Grown
<1>1. AllWhole(in, ep)
  BY AllWholeGrown
<1>2. \A n \in 1..Len(in) : n # Len(in) /\ ClosedOn(in, n) => \E i \in 1..Len(ep) : ep[i].n = n
  <2> SUFFICES ASSUME NEW n \in 1..Len(in), n # Len(in), ClosedOn(in, n)
               PROVE  \E i \in 1..Len(ep) : ep[i].n = n
    OBVIOUS
  <2>1. n \in 1..Len(old)
    BY <1>0
  <2>2. ClosedOn(old, n)
    BY <2>1, ClosedGrown
  <2> QED
    BY <2>1, <2>2 DEF NoneLost
<1>3. CASE Quiet(r, g) /\ ~ClosedOn(in, Len(in))
  <2>1. eq = ep /\ Counted(g.out.events, ep)
    BY <1>3, TellingsQuiet DEF Quiet, Kept
  <2> QED
    BY <1>1, <1>2, <1>3, <2>1 DEF NoneLost
<1>4. ASSUME NEW e, Emits(r, g, e), e.n = Len(in), WholeEpoch(in, e)
      PROVE  /\ AllWhole(in, eq) /\ Counted(g.out.events, eq) /\ NoneLost(in, eq)
  <2>1. Counted(g.out.events, eq)
    BY <1>4, TellingsEmit
  <2>2. /\ Len(ep) \in Nat /\ Len(eq) = Len(ep) + 1 /\ eq[Len(ep) + 1] = e
        /\ \A i \in 1..Len(ep) : eq[i] = ep[i]
    BY <1>4, AppendFacts DEF Shape, Emits
  <2> HIDE DEF ep, eq
  <2>3. AllWhole(in, eq)
    <3> SUFFICES ASSUME NEW i \in 1..Len(eq) PROVE WholeEpoch(in, eq[i])
      BY DEF AllWhole
    <3>1. i \in 1..Len(ep) \/ i = Len(ep) + 1
      BY <2>2
    <3> QED
      BY <1>1, <1>4, <2>2, <3>1 DEF AllWhole
  <2>4. NoneLost(in, eq)
    <3> SUFFICES ASSUME NEW n \in 1..Len(in), ClosedOn(in, n)
                 PROVE  \E i \in 1..Len(eq) : eq[i].n = n
      BY DEF NoneLost
    <3>1. CASE n = Len(in)
      <4>1. Len(ep) + 1 \in 1..Len(eq)
        BY <2>2
      <4> QED
        BY <1>4, <2>2, <3>1, <4>1
    <3>2. CASE n # Len(in)
      <4>1. PICK i \in 1..Len(ep) : ep[i].n = n
        BY <1>2, <3>2 DEF ep
      <4>2. i \in 1..Len(eq) /\ eq[i] = ep[i]
        BY <2>2
      <4> QED
        BY <4>1, <4>2
    <3> QED
      BY <3>1, <3>2
  <2> QED
    BY <2>1, <2>3, <2>4 DEF eq
<1> QED
  BY <1>3, <1>4 DEF Publishes
(***************************************************************************)
(* The time of a bits record.                                              *)
(***************************************************************************)

\* The record's time is that of the latest navigation frame before it, and
\* holds: no restart since, no measurement past the timeout.
FreshSince(in, ev, b, m) ==
    /\ m \in 1..(b.n - 1) /\ in[m].kind \in Navigation /\ in[m].t = b.t
    /\ \A j \in (m + 1)..(b.n - 1) : in[j].kind \notin Navigation
    /\ \A i \in 1..Len(ev) : Restarts(ev[i]) => ev[i].n \notin (m + 1)..b.n
    /\ \A j \in m..b.n : in[j].kind \in Measurement \cup {"STATUS"} /\ in[j].t # None
                          => in[j].t - b.t =< Timeout
BitFresh(in, ev, b) ==
    /\ b.n \in 1..Len(in)
    /\ b.t # None => \E m \in Nat : FreshSince(in, ev, b, m)
BitsFresh(in, ev, bits) == \A i \in 1..Len(bits) : BitFresh(in, ev, bits[i])

\* Events of later frames do not touch it.
LEMMA BitsGrown ==
  ASSUME NEW old, NEW in, NEW f, Grown(old, in, f), NEW ev, NEW ew, Extends(ew, ev),
         \A i \in (Len(ev) + 1)..Len(ew) : Restarts(ew[i]) => ew[i].n = Len(old) + 1,
         NEW bits, BitsFresh(old, ev, bits)
  PROVE  BitsFresh(in, ew, bits)
<1> SUFFICES ASSUME NEW i \in 1..Len(bits) PROVE BitFresh(in, ew, bits[i])
  BY DEF BitsFresh
<1> DEFINE b == bits[i]
<1>1. BitFresh(old, ev, b)
  BY DEF BitsFresh
<1> HIDE DEF b
<1>2. b.n \in 1..Len(old) /\ b.n \in 1..Len(in)
  BY <1>1 DEF BitFresh, Grown
<1>3. ASSUME b.t # None PROVE \E m \in Nat : FreshSince(in, ew, b, m)
  <2>1. PICK m \in Nat : FreshSince(old, ev, b, m)
    BY <1>1, <1>3 DEF BitFresh
  <2>2. m \in 1..(b.n - 1)
    BY <2>1 DEF FreshSince
  <2>3. \A j \in m..b.n : in[j] = old[j]
    BY <1>2, <2>2 DEF Grown
  <2>4. \A j \in (m + 1)..(b.n - 1) : j \in m..b.n
    BY <1>2, <2>2
  <2>5. \A k \in 1..Len(ew) : Restarts(ew[k]) => ew[k].n \notin (m + 1)..b.n
    <3> SUFFICES ASSUME NEW k \in 1..Len(ew), Restarts(ew[k])
                 PROVE  ew[k].n \notin (m + 1)..b.n
      OBVIOUS
    <3>1. CASE k \in 1..Len(ev)
      BY <2>1, <3>1 DEF FreshSince, Extends
    <3>2. CASE k \notin 1..Len(ev)
      <4>1. k \in (Len(ev) + 1)..Len(ew)
        BY <3>2 DEF Extends
      <4>2. ew[k].n = Len(old) + 1
        BY <4>1
      <4> QED
        BY <1>2, <4>2
    <3> QED
      BY <3>1, <3>2
  <2>6. m \in m..b.n
    BY <1>2, <2>2
  <2>7. FreshSince(in, ew, b, m)
    BY <2>1, <2>3, <2>4, <2>5, <2>6 DEF FreshSince
  <2> QED
    BY <2>7
<1> QED
  BY <1>2, <1>3 DEF BitFresh, b

\* A record made now borrows a time that holds.
LEMMA BitNew ==
  ASSUME NEW old, NEW in, NEW f \in Frame, Grown(old, in, f), Numbered(in),
         f.kind \in BitsKinds, NEW c, NEW ev, NEW b, b.n = Len(old) + 1, b.t = Anchor(c),
         NEW r, r.clock = c, r.out.events = ev, Anchored(in, r, Len(old))
  PROVE  BitFresh(in, ev, b)
<1> DEFINE k == Len(old)
<1>0. k \in Nat /\ Len(in) = k + 1 /\ in[k + 1] = f
  BY DEF Grown
<1>1. b.n \in 1..Len(in)
  BY <1>0
<1>2. ASSUME b.t # None PROVE \E m \in Nat : FreshSince(in, ev, b, m)
  <2>1. b.t = c.navigation /\ c.navigation # None /\ ~Aged(c.progress, c.navigation)
    BY <1>2 DEF Anchor
  <2>2. PICK m \in Nat : AnchoredAt(in, c, ev, k, m)
    BY <2>1 DEF Anchored
  <2>3. c.navigation \in Int /\ c.progress \in Int
    BY <2>1, <2>2 DEF Anchored, AnchoredAt, Time
  <2>4. Timeout \in Int /\ c.progress - c.navigation =< Timeout
    <3>1. Timeout \in Int
      BY TimeAssumption DEF Timeout
    <3>2. c.progress # None /\ c.navigation # None
      BY <2>1, <2>3, TimeAssumption
    <3> QED
      BY <2>1, <2>3, <3>1, <3>2 DEF Aged
  <2>5. b.n - 1 = k /\ b.n = k + 1
    BY <1>0
  <2>6. \A j \in 1..(k + 1) : in[j].t \in Time
    <3> TAKE j \in 1..(k + 1)
    <3>1. in \in Seq(Frame) /\ j \in 1..Len(in)
      BY <1>0 DEF Numbered
    <3>2. in[j] \in Frame
      BY <3>1, ElementOfSeq
    <3> QED
      BY <3>2 DEF Frame
  <2>7. ASSUME NEW j \in m..b.n, in[j].kind \in Measurement \cup {"STATUS"}, in[j].t # None
        PROVE  in[j].t - b.t =< Timeout
    <3>1. j # k + 1
      BY <1>0, <2>7 DEF BitsKinds, Measurement
    <3>2. j \in m..k /\ j \in 1..(k + 1)
      BY <1>0, <2>2, <2>5, <3>1 DEF AnchoredAt
    <3>3. in[j].t =< c.progress /\ in[j].t \in Int
      BY <2>2, <2>6, <2>7, <3>2 DEF AnchoredAt, Time
    <3> QED
      BY <2>1, <2>3, <2>4, <3>3
  <2>8. \A i \in 1..Len(ev) : Restarts(ev[i]) => ev[i].n \notin (m + 1)..b.n
    <3> TAKE i \in 1..Len(ev)
    <3> HAVE Restarts(ev[i])
    <3>1. ev[i].n =< m /\ ev[i].n \in 1..k
      BY <2>2 DEF AnchoredAt, Anchored, RestartsUpTo
    <3> QED
      BY <3>1
  <2>9. /\ m \in 1..(b.n - 1) /\ in[m].kind \in Navigation /\ in[m].t = b.t
        /\ \A j \in (m + 1)..(b.n - 1) : in[j].kind \notin Navigation
    BY <2>1, <2>2, <2>5 DEF AnchoredAt
  <2>10. FreshSince(in, ev, b, m)
    BY <2>7, <2>8, <2>9 DEF FreshSince
  <2> QED
    BY <2>10
<1> QED
  BY <1>1, <1>2 DEF BitFresh

LEMMA AnchoredGrown ==
  ASSUME NEW old, NEW in, NEW f, Grown(old, in, f), NEW r, Anchored(old, r, Len(old))
  PROVE  Anchored(in, r, Len(old))
<1> DEFINE k == Len(old)
<1>1. k \in Nat /\ \A j \in 1..k : in[j] = old[j]
  BY DEF Grown
<1>2. ASSUME NEW m \in Nat, AnchoredAt(old, r.clock, r.out.events, k, m)
      PROVE  AnchoredAt(in, r.clock, r.out.events, k, m)
  <2>1. m \in 1..k /\ \A j \in m..k : j \in 1..k
    BY <1>2 DEF AnchoredAt
  <2>2. in[m] = old[m] /\ \A j \in m..k : in[j] = old[j]
    BY <1>1, <2>1
  <2>3. \A j \in (m + 1)..k : j \in m..k
    BY <2>1
  <2> QED
    BY <1>2, <2>2, <2>3 DEF AnchoredAt
<1> QED
  BY <1>2 DEF Anchored

\* The bits after the stages before the group.
LEMMA MergedBits ==
  ASSUME NEW old, NEW in, NEW f \in Frame, Grown(old, in, f), Numbered(in),
         f.n = Len(old) + 1, NEW r, Shape(r), Anchored(old, r, Len(old)),
         BitsFresh(old, r.out.events, r.out.bits)
  PROVE  LET q == Merged(r, f) IN
           /\ Calm(r, q) /\ Anchored(in, q, Len(in))
           /\ BitsFresh(in, q.out.events, q.out.bits)
<1> DEFINE k == Len(old)  q == Merged(r, f)  ev == r.out.events  ew == q.out.events
<1>0. k \in Nat /\ Len(in) = k + 1 /\ in[k + 1] = f
  BY DEF Grown
<1>1. \A j \in 1..k : in[j].t \in Time
  <2> TAKE j \in 1..k
  <2>1. in \in Seq(Frame) /\ j \in 1..Len(in)
    BY <1>0 DEF Numbered
  <2>2. in[j] \in Frame
    BY <2>1, ElementOfSeq
  <2> QED
    BY <2>2 DEF Frame
<1>2. Anchored(in, r, k)
  BY AnchoredGrown
<1>3. /\ Calm(r, q) /\ Anchored(in, q, k + 1)
      /\ f.kind \notin BitsKinds => q.out.bits = r.out.bits
      /\ f.kind \in BitsKinds => NewBits(r, f, q)
      /\ \A i \in (Len(r.out.events) + 1)..Len(q.out.events) :
           Restarts(q.out.events[i]) => q.out.events[i].n = f.n
  <2>1. MergedTo(in, r, f, k, q)
    BY <1>0, <1>1, <1>2, MergedFacts
  <2> HIDE DEF q
  <2> QED
    BY <2>1 DEF MergedTo
<1> HIDE DEF q
<1>4. Extends(ew, ev)
  BY <1>3 DEF Calm
<1>5. BitsFresh(in, ew, r.out.bits)
  BY <1>3, <1>4, BitsGrown
<1>6. CASE f.kind \in BitsKinds
  <2>1. PICK p : /\ p.clock = r.clock /\ p.out = r.out /\ Shape(p)
                 /\ q.out.bits = EmitBits(p, f).out.bits /\ ew = p.out.events
    BY <1>3, <1>6 DEF NewBits
  <2> DEFINE bits == r.out.bits  more == q.out.bits  b == more[Len(bits) + 1]
  <2>2. /\ Extends(more, bits) /\ Len(more) = Len(bits) + 1
        /\ b.n = f.n /\ b.t = Anchor(r.clock)
    <3> DEFINE made == EmitBits(p, f).out.bits
    <3>1. /\ Extends(made, p.out.bits) /\ Len(made) = Len(p.out.bits) + 1
          /\ made[Len(p.out.bits) + 1].n = f.n
          /\ made[Len(p.out.bits) + 1].t = Anchor(p.clock)
      BY <2>1, EmitBitsFacts
    <3>2. more = made /\ p.out.bits = bits /\ p.clock = r.clock
      BY <2>1
    <3> HIDE DEF made, bits, more
    <3> QED
      BY <3>1, <3>2 DEF b
  <2>3. ew = ev
    BY <2>1
  <2> HIDE DEF more, bits, b
  <2>4. BitFresh(in, ev, b)
    BY <1>0, <1>2, <1>6, <2>2, BitNew
  <2>5. ASSUME NEW i \in 1..Len(more) PROVE BitFresh(in, ew, more[i])
    <3>1. CASE i \in 1..Len(bits)
      BY <1>5, <2>2, <3>1 DEF BitsFresh, Extends, bits
    <3>2. CASE i = Len(bits) + 1
      BY <2>3, <2>4, <3>2 DEF b
    <3> QED
      BY <2>2, <3>1, <3>2 DEF Extends
  <2> QED
    BY <1>0, <1>3, <2>5 DEF BitsFresh, q, more
<1>7. CASE f.kind \notin BitsKinds
  BY <1>0, <1>3, <1>5, <1>7 DEF q
<1> QED
  BY <1>6, <1>7
(***************************************************************************)
(* The inductive invariant, as a fact about one reader of some frames.     *)
(***************************************************************************)

ReaderInv(in, r, up) ==
    /\ Shape(r) /\ Withholds(r)
    /\ RestartsUpTo(r.out.events, Len(in))
    /\ BitsFresh(in, r.out.events, r.out.bits)
    /\ AllWhole(in, r.out.epochs)
    /\ Counted(r.out.events, r.out.epochs)
    /\ ~r.failed => /\ Anchored(in, r, Len(in)) /\ Grouped(in, r, up)
                    /\ NoneLost(in, r.out.epochs)

\* The invariant reads some parts of a reader only.
LEMMA GroupedSame ==
  ASSUME NEW in, NEW r, NEW q, SameWork(r, q), NEW up, Grouped(in, r, up)
  PROVE  Grouped(in, q, up)
<1>1. Begin(q, up) = Begin(r, up) /\ Withholds(q)
  BY DEF SameWork, Begin, Grouped, Withholds
<1>2. q.pending # None => Pending(in, q, up)
  BY DEF SameWork, Grouped, Pending
<1> QED
  BY <1>1, <1>2 DEF SameWork, Grouped

LEMMA InvSame ==
  ASSUME NEW in, NEW up, NEW g, ReaderInv(in, g, up), NEW q, Shape(q),
         q.clock = g.clock, SameWork(g, q), q.out.events = g.out.events,
         q.out.bits = g.out.bits, q.out.epochs = g.out.epochs
  PROVE  ReaderInv(in, q, up)
<1>1. Withholds(q)
  BY DEF ReaderInv, Withholds, SameWork
<1>2. ~q.failed => /\ Anchored(in, q, Len(in)) /\ Grouped(in, q, up)
                   /\ NoneLost(in, q.out.epochs)
  <2> SUFFICES ASSUME ~q.failed
               PROVE  /\ Anchored(in, q, Len(in)) /\ Grouped(in, q, up)
                      /\ NoneLost(in, q.out.epochs)
    OBVIOUS
  <2>1. ~g.failed
    BY DEF SameWork
  <2>2. Anchored(in, g, Len(in)) /\ Grouped(in, g, up) /\ NoneLost(in, g.out.epochs)
    BY <2>1 DEF ReaderInv
  <2>3. Anchored(in, q, Len(in))
    BY <2>2 DEF Anchored
  <2> QED
    BY <2>2, <2>3, GroupedSame
<1> QED
  BY <1>1, <1>2 DEF ReaderInv

\* A reader that raised keeps what it published.
LEMMA InvFailed ==
  ASSUME NEW in, NEW up, NEW r, ReaderInv(in, r, up), NEW q, Shape(q), q.failed,
         q.out = r.out, q.pending = r.pending, q.hasMeasurements = r.hasMeasurements,
         NEW next
  PROVE  ReaderInv(in, q, next)
BY DEF ReaderInv, Withholds

\* Events that are neither restarts nor closed epochs.
LEMMA EventsKept ==
  ASSUME NEW in, NEW ev, NEW ew, NEW k, Extends(ew, ev), NoRestarts(ew, ev)
  PROVE  /\ RestartsUpTo(ev, k) => RestartsUpTo(ew, k)
         /\ \A bits : BitsFresh(in, ev, bits) => BitsFresh(in, ew, bits)
         /\ \A c, m : AnchoredAt(in, c, ev, k, m) => AnchoredAt(in, c, ew, k, m)
<1>1. \A i \in 1..Len(ew) : Restarts(ew[i]) => i \in 1..Len(ev) /\ ew[i] = ev[i]
  <2> SUFFICES ASSUME NEW i \in 1..Len(ew), Restarts(ew[i])
               PROVE  i \in 1..Len(ev) /\ ew[i] = ev[i]
    OBVIOUS
  <2>1. i \notin (Len(ev) + 1)..Len(ew)
    BY DEF NoRestarts
  <2>2. i \in 1..Len(ev)
    BY <2>1 DEF Extends
  <2> QED
    BY <2>2 DEF Extends
<1>2. RestartsUpTo(ev, k) => RestartsUpTo(ew, k)
  BY <1>1 DEF RestartsUpTo
<1>3. \A b, m : FreshSince(in, ev, b, m) => FreshSince(in, ew, b, m)
  BY <1>1 DEF FreshSince
<1>4. \A bits : BitsFresh(in, ev, bits) => BitsFresh(in, ew, bits)
  BY <1>3 DEF BitsFresh, BitFresh
<1>5. \A c, m : AnchoredAt(in, c, ev, k, m) => AnchoredAt(in, c, ew, k, m)
  BY <1>1 DEF AnchoredAt
<1> QED
  BY <1>2, <1>4, <1>5

LEMMA KeptAnchored ==
  ASSUME NEW in, NEW r, NEW g, Kept(r, g), NEW k, Anchored(in, r, k)
  PROVE  Anchored(in, g, k)
<1>1. g.clock = r.clock /\ Extends(g.out.events, r.out.events)
      /\ NoRestarts(g.out.events, r.out.events)
  BY DEF Kept
<1>2. RestartsUpTo(g.out.events, k)
  BY <1>1, EventsKept DEF Anchored
<1>3. ASSUME g.clock.navigation # None
      PROVE  \E m \in Nat : AnchoredAt(in, g.clock, g.out.events, k, m)
  <2>1. PICK m \in Nat : AnchoredAt(in, r.clock, r.out.events, k, m)
    BY <1>1, <1>3 DEF Anchored
  <2>2. AnchoredAt(in, g.clock, g.out.events, k, m)
    BY <1>1, <2>1, EventsKept
  <2> QED
    BY <2>2
<1> QED
  BY <1>1, <1>2, <1>3 DEF Anchored

\* A step that publishes no epoch and withholds what was withheld.
LEMMA InvQuiet ==
  ASSUME NEW in, NEW up, NEW r, ReaderInv(in, r, up), NEW q, Quiet(r, q), SameWork(r, q)
  PROVE  ReaderInv(in, q, up)
<1>1. /\ Shape(q) /\ q.clock = r.clock /\ q.out.bits = r.out.bits
      /\ q.out.epochs = r.out.epochs /\ Kept(r, q)
      /\ Extends(q.out.events, r.out.events) /\ NoRestarts(q.out.events, r.out.events)
      /\ Incompletes(q.out.events, r.out.events)
  BY DEF Quiet, Kept
<1>2. RestartsUpTo(q.out.events, Len(in)) /\ BitsFresh(in, q.out.events, q.out.bits)
  BY <1>1, EventsKept DEF ReaderInv
<1>3. Counted(q.out.events, q.out.epochs)
  BY <1>1, TellingsQuiet DEF ReaderInv
<1>4. Withholds(q)
  BY DEF ReaderInv, Withholds, SameWork
<1>5. ASSUME ~q.failed
      PROVE  Anchored(in, q, Len(in)) /\ Grouped(in, q, up) /\ NoneLost(in, q.out.epochs)
  <2>1. ~r.failed
    BY <1>5 DEF SameWork
  <2>2. Anchored(in, r, Len(in)) /\ Grouped(in, r, up) /\ NoneLost(in, r.out.epochs)
    BY <2>1 DEF ReaderInv
  <2> QED
    BY <1>1, <2>2, KeptAnchored, GroupedSame
<1> QED
  BY <1>1, <1>2, <1>3, <1>4, <1>5 DEF ReaderInv
\* A new frame.
LEMMA ConsumeStep ==
  ASSUME NEW old, NEW in, NEW f \in Frame, Grown(old, in, f), Numbered(old), Numbered(in),
         f.n = Len(old) + 1, OneProtocol(in),
         NEW r, ReaderInv(old, r, Len(old) + 1), ~r.failed
  PROVE  ReaderInv(in, Consume(r, f), Len(old) + 2)
<1> DEFINE k == Len(old)  m == Merged(r, f)  g == Group(m, f)  q == Consume(r, f)
           ev == r.out.events  ew == m.out.events
<1>0. k \in Nat /\ Len(in) = k + 1 /\ in[k + 1] = f
  BY DEF Grown
<1>1. /\ Shape(r) /\ Withholds(r) /\ RestartsUpTo(ev, k) /\ BitsFresh(old, ev, r.out.bits)
      /\ AllWhole(old, r.out.epochs) /\ Counted(ev, r.out.epochs)
      /\ Anchored(old, r, k) /\ Grouped(old, r, k + 1) /\ NoneLost(old, r.out.epochs)
  BY DEF ReaderInv
<1>2. Calm(r, m) /\ Anchored(in, m, k + 1) /\ BitsFresh(in, ew, m.out.bits)
  BY <1>0, <1>1, MergedBits
<1>3. q = Settled(r, g)
  BY ConsumeIs
<1> HIDE DEF m
<1>4. /\ Shape(m) /\ SameGroup(r, m) /\ m.out.epochs = r.out.epochs
      /\ Extends(ew, ev) /\ Incompletes(ew, ev) /\ SameWork(r, m)
  BY <1>2 DEF Calm, SameGroup, SameWork
<1>5. Grouped(old, m, k + 1) /\ Withholds(m)
  BY <1>1, <1>4, GroupedSame DEF Grouped
<1>6. Counted(ew, m.out.epochs)
  BY <1>1, <1>4, TellingsQuiet
<1>7. Shape(g)
  <2>1. CASE f.kind \in {"EXTRA", "MEAS"}
    BY <1>4, <1>5, <2>1, GroupBlock DEF Quiet, Kept
  <2>2. CASE f.kind = "RAWX"
    BY <1>4, <2>2, GroupRawx DEF Quiet, Emits, Kept
  <2>3. CASE f.kind = "END"
    <3>1. CASE ~Belongs(m, f)
      BY <1>4, <1>5, <2>3, <3>1, GroupEnd
    <3>2. CASE Belongs(m, f)
      BY <1>4, <1>5, <2>3, <3>2, GroupEnd DEF Quiet, Emits, Kept
    <3> QED
      BY <3>1, <3>2
  <2>4. CASE f.kind \notin GroupKinds
    BY <1>4, <2>4, GroupOther
  <2> QED
    BY <2>1, <2>2, <2>3, <2>4 DEF GroupKinds
<1> HIDE DEF g, q
<1>8. /\ Shape(q)
      /\ \/ /\ q.failed /\ q.clock = r.clock /\ q.out = r.out
            /\ q.pending = r.pending /\ q.hasMeasurements = r.hasMeasurements
         \/ /\ ~g.failed /\ q.clock = g.clock /\ SameWork(g, q)
            /\ q.out.events = g.out.events /\ q.out.bits = g.out.bits
            /\ q.out.epochs = g.out.epochs
  BY <1>1, <1>3, <1>7, SettledFacts
<1>9. CASE q.failed /\ q.out = r.out /\ q.pending = r.pending
           /\ q.hasMeasurements = r.hasMeasurements
  <2>1. RestartsUpTo(ev, k + 1)
    <3>1. \A i \in 1..k : i \in 1..(k + 1)
      BY <1>0
    <3> QED
      BY <1>1, <3>1 DEF RestartsUpTo
  <2>2. AllWhole(in, r.out.epochs)
    BY <1>1, AllWholeGrown
  <2>3. BitsFresh(in, ev, r.out.bits)
    <3>1. /\ Extends(ev, ev)
          /\ \A i \in (Len(ev) + 1)..Len(ev) : Restarts(ev[i]) => ev[i].n = k + 1
      BY <1>1, CalmSelf DEF Calm, Extends
    <3> QED
      BY <1>1, <3>1, BitsGrown
  <2>4. Withholds(q)
    BY <1>1, <1>9 DEF Withholds
  <2> QED
    BY <1>0, <1>1, <1>8, <1>9, <2>1, <2>2, <2>3, <2>4 DEF ReaderInv, q
<1>10. CASE /\ ~g.failed /\ q.clock = g.clock /\ SameWork(g, q)
            /\ q.out.events = g.out.events /\ q.out.bits = g.out.bits
            /\ q.out.epochs = g.out.epochs
  <2>1. Grouped(in, g, k + 2) /\ Publishes(in, m, g)
    BY <1>4, <1>5, <1>10, FeedGroup DEF g
  <2>2. Kept(m, g)
    BY <2>1 DEF Publishes, Quiet, Emits
  <2>3. /\ AllWhole(in, g.out.epochs) /\ Counted(g.out.events, g.out.epochs)
        /\ NoneLost(in, g.out.epochs)
    BY <1>1, <1>4, <1>6, <2>1, PublishedGrown
  <2>4. Anchored(in, g, k + 1)
    BY <1>2, <2>2, KeptAnchored
  <2>5. RestartsUpTo(g.out.events, k + 1)
    BY <2>4 DEF Anchored
  <2>6. BitsFresh(in, g.out.events, g.out.bits)
    BY <1>2, <2>2, EventsKept DEF Kept
  <2>7. Withholds(g)
    BY <2>1 DEF Grouped
  <2>8. ReaderInv(in, g, k + 2)
    BY <1>0, <1>7, <2>1, <2>3, <2>4, <2>5, <2>6, <2>7 DEF ReaderInv
  <2>9. ReaderInv(in, q, k + 2)
    BY <1>8, <1>10, <2>8, InvSame
  <2> QED
    BY <2>9 DEF q
<1> QED
  BY <1>8, <1>9, <1>10

\* A frame that is read again.
LEMMA RereadStep ==
  ASSUME NEW in, Numbered(in), OneProtocol(in), NEW up \in 1..Len(in),
         NEW r, ReaderInv(in, r, up)
  PROVE  ReaderInv(in, Reread(r, in[up]), up + 1)
<1> DEFINE f == in[up]  m == Limit(r)  g == Group(m, f)  q == Reread(r, f)
<1>0. f \in Frame
  <2>1. in \in Seq(Frame)
    BY DEF Numbered
  <2> QED
    BY <2>1, ElementOfSeq
<1>1. Shape(r) /\ Withholds(r)
  BY DEF ReaderInv
<1>2. q = Settled(r, g)
  BY DEF Reread
<1>3. Plain(r, m)
  BY <1>1, LimitFacts
<1> HIDE DEF m
<1>4. /\ Shape(m) /\ m.clock = r.clock /\ m.out = r.out /\ SameWork(r, m)
  BY <1>3 DEF Plain, Calm, SameGroup, SameWork
<1>5. Withholds(m)
  BY <1>1, <1>4 DEF Withholds, SameWork
<1>6. ReaderInv(in, m, up)
  BY <1>4, InvSame
<1>7. Shape(g) /\ (m.failed => g.failed)
  <2>1. CASE f.kind \in {"EXTRA", "MEAS"}
    BY <1>0, <1>4, <1>5, <2>1, GroupBlock DEF Quiet, Kept
  <2>2. CASE f.kind = "RAWX"
    BY <1>4, <2>2, GroupRawx DEF Quiet, Emits, Kept, SameWork
  <2>3. CASE f.kind = "END"
    <3>1. CASE ~Belongs(m, f)
      BY <1>4, <1>5, <2>3, <3>1, GroupEnd
    <3>2. CASE Belongs(m, f)
      BY <1>4, <1>5, <2>3, <3>2, GroupEnd DEF Quiet, Emits, Kept
    <3> QED
      BY <3>1, <3>2
  <2>4. CASE f.kind \notin GroupKinds
    BY <1>4, <2>4, GroupOther
  <2> QED
    BY <2>1, <2>2, <2>3, <2>4 DEF GroupKinds
<1>8. ~m.failed => Quiet(m, g) /\ (~g.failed => Grouped(in, g, up + 1))
  <2>1. ~m.failed => Grouped(in, m, up)
    BY <1>6 DEF ReaderInv
  <2> QED
    BY <1>4, <2>1, ReadAgainGroup
<1> HIDE DEF g, q
<1>9. /\ Shape(q)
      /\ \/ /\ q.failed /\ q.clock = r.clock /\ q.out = r.out
            /\ q.pending = r.pending /\ q.hasMeasurements = r.hasMeasurements
         \/ /\ ~g.failed /\ q.clock = g.clock /\ SameWork(g, q)
            /\ q.out.events = g.out.events /\ q.out.bits = g.out.bits
            /\ q.out.epochs = g.out.epochs
  BY <1>1, <1>2, <1>7, SettledFacts
<1>10. CASE q.failed /\ q.out = r.out /\ q.pending = r.pending
            /\ q.hasMeasurements = r.hasMeasurements
  BY <1>9, <1>10, InvFailed DEF q
<1>11. CASE /\ ~g.failed /\ q.clock = g.clock /\ SameWork(g, q)
            /\ q.out.events = g.out.events /\ q.out.bits = g.out.bits
            /\ q.out.epochs = g.out.epochs
  <2>1. ~m.failed /\ Quiet(m, g) /\ Grouped(in, g, up + 1)
    BY <1>7, <1>8, <1>11
  <2>2. /\ g.clock = m.clock /\ g.out.bits = m.out.bits /\ g.out.epochs = m.out.epochs
        /\ Kept(m, g)
        /\ Extends(g.out.events, m.out.events) /\ NoRestarts(g.out.events, m.out.events)
        /\ Incompletes(g.out.events, m.out.events)
    BY <2>1 DEF Quiet, Kept
  <2>3. /\ RestartsUpTo(m.out.events, Len(in)) /\ BitsFresh(in, m.out.events, m.out.bits)
        /\ AllWhole(in, m.out.epochs) /\ Counted(m.out.events, m.out.epochs)
        /\ Anchored(in, m, Len(in)) /\ NoneLost(in, m.out.epochs)
    BY <1>6, <2>1 DEF ReaderInv
  <2>4. Anchored(in, g, Len(in))
    BY <2>2, <2>3, KeptAnchored
  <2>5. RestartsUpTo(g.out.events, Len(in)) /\ BitsFresh(in, g.out.events, g.out.bits)
    BY <2>2, <2>3, EventsKept
  <2>6. Counted(g.out.events, g.out.epochs)
    BY <2>2, <2>3, TellingsQuiet
  <2>7. Withholds(g)
    BY <2>1 DEF Grouped
  <2>8. ReaderInv(in, g, up + 1)
    BY <1>7, <2>1, <2>2, <2>3, <2>4, <2>5, <2>6, <2>7 DEF ReaderInv
  <2>9. ReaderInv(in, q, up + 1)
    BY <1>9, <1>11, <2>8, InvSame
  <2> QED
    BY <2>9 DEF q
<1> QED
  BY <1>9, <1>10, <1>11
\* A continuation withholds nothing and has the frames of the group before it.
LEMMA RestoreStep ==
  ASSUME NEW in, Len(in) \in Nat, NEW r, ReaderInv(in, r, Len(in) + 1), ~r.failed
  PROVE  LET q == [Restore(Checkpoint(r)) EXCEPT !.out = r.out] IN
           /\ Begin(r, Len(in) + 1) \in 1..(Len(in) + 1)
           /\ ReaderInv(in, q, Begin(r, Len(in) + 1))
<1> DEFINE saved == Checkpoint(r)  q == [Restore(saved) EXCEPT !.out = r.out]
           from == Begin(r, Len(in) + 1)
<1>0. saved.clock = r.clock
  BY DEF Checkpoint
<1>1. Shape(r) /\ Anchored(in, r, Len(in)) /\ Grouped(in, r, Len(in) + 1)
  BY DEF ReaderInv
<1>2. LET p == Restore(saved) IN
        /\ DOMAIN p = ReaderFields /\ p.clock = saved.clock /\ p.pending = None
        /\ p.hasMeasurements = FALSE /\ p.failed = FALSE
  <2> HIDE DEF saved
  <2> QED
    BY DEF Restore, FreshReader, ReaderFields
<1>3. /\ DOMAIN q = ReaderFields /\ q.clock = r.clock /\ q.out = r.out
      /\ q.pending = None /\ q.hasMeasurements = FALSE /\ q.failed = FALSE
  <2> DEFINE p == Restore(saved)
  <2> HIDE DEF p, saved
  <2> QED
    BY <1>0, <1>2 DEF ReaderFields, p
<1> HIDE DEF q
<1>4. Shape(q)
  BY <1>1, <1>3 DEF Shape
<1>5. r.pending # None => from \in 1..Len(in)
  <2>1. (Len(in) + 1) - 1 = Len(in)
    OBVIOUS
  <2> QED
    BY <1>1, <2>1 DEF Grouped, Pending, Begin
<1>6. from \in 1..(Len(in) + 1)
  BY <1>5 DEF Begin
<1>7. Grouped(in, q, from)
  <2>1. Begin(q, from) = from /\ Withholds(q)
    BY <1>3 DEF Begin, Withholds
  <2>2. OneGroup(in, from)
    BY <1>1 DEF Grouped
  <2>3. from = Len(in) + 1 => AllClosed(in)
    <3>1. from = Len(in) + 1 => r.pending = None
      BY <1>5
    <3> QED
      BY <1>1, <3>1 DEF Grouped
  <2> HIDE DEF from
  <2> QED
    BY <1>3, <2>1, <2>2, <2>3 DEF Grouped
<1>8. Anchored(in, q, Len(in))
  BY <1>1, <1>3 DEF Anchored
<1>9. Withholds(q)
  BY <1>3 DEF Withholds
<1>10. ReaderInv(in, q, from)
  BY <1>3, <1>4, <1>7, <1>8, <1>9 DEF ReaderInv
<1> QED
  BY <1>6, <1>10 DEF q

\* A declared end tells of the withheld group, which stays.
LEMMA EndStep ==
  ASSUME NEW in, NEW up, NEW r, ReaderInv(in, r, up)
  PROVE  ReaderInv(in, DeclaredEnd(r), up)
<1> DEFINE untold == r.pending # None /\ r.hasMeasurements /\ r.reportedTail # r.pendingStart
           p == Incomplete(r, Len(input), "INCOMPLETE_TAIL")
           told == IF untold THEN [p EXCEPT !.reportedTail = r.pendingStart] ELSE r
           ended == [told EXCEPT !.tele = FinishAll(@, r.pos)]
           q == DeclaredEnd(r)
<1>0. Shape(r)
  BY DEF ReaderInv
<1>1. q = Deliver(ended)
  BY DEF DeclaredEnd
<1>2. Quiet(r, p) /\ SameWork(r, p)
  BY <1>0, IncompleteFacts
<1> HIDE DEF p, untold, q
<1>3. ReaderInv(in, p, up)
  BY <1>2, InvQuiet
<1>4. Shape(told) /\ ReaderInv(in, told, up)
  <2>1. CASE untold
    <3> DEFINE s == [p EXCEPT !.reportedTail = r.pendingStart]
    <3>1. told = s
      BY <2>1
    <3>2. /\ DOMAIN s = ReaderFields /\ s.clock = p.clock /\ s.out = p.out /\ SameWork(p, s)
      BY <1>2 DEF Quiet, Kept, Shape, ReaderFields, SameWork
    <3> HIDE DEF s, told
    <3>3. Shape(s)
      BY <1>2, <3>2 DEF Quiet, Kept, Shape, SameWork
    <3> QED
      BY <1>3, <3>1, <3>2, <3>3, InvSame
  <2>2. CASE ~untold
    BY <1>0, <2>2
  <2> QED
    BY <2>1, <2>2
<1> HIDE DEF told
<1>5. Shape(ended) /\ ReaderInv(in, ended, up)
  <2>1. /\ DOMAIN ended = ReaderFields /\ ended.clock = told.clock /\ ended.out = told.out
        /\ SameWork(told, ended)
    BY <1>4 DEF Shape, ReaderFields, SameWork
  <2> HIDE DEF ended
  <2>2. Shape(ended)
    BY <1>4, <2>1 DEF Shape, SameWork
  <2> QED
    BY <1>4, <2>1, <2>2, InvSame
<1> HIDE DEF ended
<1>6. ReaderInv(in, q, up)
  <2>1. /\ Shape(q) /\ q.clock = ended.clock /\ SameWork(ended, q)
        /\ q.out.events = ended.out.events /\ q.out.bits = ended.out.bits
        /\ q.out.epochs = ended.out.epochs
    BY <1>1, <1>5, DeliverFacts
  <2> QED
    BY <1>5, <2>1, InvSame
<1> QED
  BY <1>6 DEF q

\* A reader that has read nothing.
LEMMA StartInv == ReaderInv(<<>>, FreshReader, 1)
<1> DEFINE in == <<>>
<1>1. /\ DOMAIN FreshReader = ReaderFields /\ FreshReader.clock = FreshClock
      /\ FreshReader.out = Nothing /\ FreshReader.pending = None
      /\ FreshReader.hasMeasurements = FALSE /\ FreshReader.failed = FALSE
  BY DEF FreshReader, ReaderFields
<1>2. /\ Nothing.events = <<>> /\ Nothing.bits = <<>> /\ Nothing.epochs = <<>>
      /\ DOMAIN Nothing = {"events", "bits", "epochs", "rows"}
  BY DEF Nothing
<1>3. /\ DOMAIN FreshClock = ClockFields
      /\ FreshClock.progress = None /\ FreshClock.navigation = None
  BY DEF FreshClock, ClockFields
<1>4. IsSeq(<<>>) /\ Len(<<>>) = 0
  <2>1. <<>> \in Seq({})
    OBVIOUS
  <2> QED
    BY <2>1 DEF IsSeq
<1>5. Shape(FreshReader)
  BY <1>1, <1>2, <1>3, <1>4 DEF Shape
<1> DEFINE ev == FreshReader.out.events  bits == FreshReader.out.bits  ep == FreshReader.out.epochs
<1>6. ev = <<>> /\ bits = <<>> /\ ep = <<>> /\ Len(ev) = 0 /\ Len(bits) = 0 /\ Len(ep) = 0
  BY <1>1, <1>2, <1>4
<1> HIDE DEF ev, bits, ep, in
<1>7. Len(in) = 0
  BY <1>4 DEF in
<1>8. RestartsUpTo(ev, Len(in)) /\ BitsFresh(in, ev, bits) /\ AllWhole(in, ep)
  BY <1>6 DEF RestartsUpTo, BitsFresh, AllWhole
<1>9. Counted(ev, ep)
  <2>1. Told(ev) = {} /\ 1..Len(ep) = {}
    BY <1>6 DEF Told
  <2>2. IsFiniteSet({}) /\ Cardinality({}) = 0
    BY FS_EmptySet
  <2> QED
    BY <1>6, <2>1, <2>2 DEF Counted, Numbers
<1>10. Anchored(in, FreshReader, Len(in)) /\ NoneLost(in, ep)
  BY <1>1, <1>3, <1>7, <1>8 DEF Anchored, NoneLost, Time, ev
<1>11. Grouped(in, FreshReader, 1) /\ Withholds(FreshReader)
  <2>1. Withholds(FreshReader) /\ Begin(FreshReader, 1) = 1
    BY <1>1 DEF Withholds, Begin
  <2>2. OneGroup(in, 1) /\ AllClosed(in)
    BY <1>7 DEF OneGroup, AllClosed
  <2> QED
    BY <1>1, <2>1, <2>2 DEF Grouped
<1>12. ReaderInv(in, FreshReader, 1)
  BY <1>5, <1>8, <1>9, <1>10, <1>11 DEF ReaderInv, ev, bits, ep
<1> QED
  BY <1>12 DEF in
(***************************************************************************)
(* The reader.                                                             *)
(***************************************************************************)

ReadInv ==
    /\ family \in Families /\ Numbered(input)
    /\ \A j \in 1..Len(input) : \E g \in family.frames : input[j].kind = g.kind
    /\ upcoming \in 1..(Len(input) + 1)

ReaderIInv == ReadInv /\ ReaderInv(input, resumed, upcoming)

LEMMA ReadFacts ==
  ASSUME ReadInv
  PROVE  /\ OneProtocol(input) /\ Len(input) \in Nat /\ DOMAIN input = 1..Len(input)
         /\ \A i \in 1..Len(input) : input[i] \in Frame
<1>1. input \in Seq(Frame)
  BY DEF ReadInv, Numbered
<1>2. /\ Len(input) \in Nat /\ DOMAIN input = 1..Len(input)
      /\ \A i \in 1..Len(input) : input[i] \in Frame
  BY <1>1, ElementOfSeq, LenProperties
<1>3. CASE \A g \in family.frames : g.kind \in Ubx
  <2>1. \A j \in 1..Len(input) : input[j].kind \notin {"MEAS", "EXTRA", "END"}
    BY <1>3 DEF ReadInv, Ubx
  <2> QED
    BY <1>2, <2>1 DEF OneProtocol
<1>4. CASE \A g \in family.frames : g.kind \notin Ubx
  <2>1. \A i \in 1..Len(input) : input[i].kind # "RAWX"
    BY <1>4 DEF ReadInv, Ubx
  <2> QED
    BY <1>2, <2>1 DEF OneProtocol
<1>5. \/ \A g \in family.frames : g.kind \in Ubx
      \/ \A g \in family.frames : g.kind \notin Ubx
  BY FamilyAssumption DEF ReadInv
<1> QED
  BY <1>2, <1>3, <1>4, <1>5

LEMMA InitIInv == Init => ReaderIInv
<1> SUFFICES ASSUME Init PROVE ReaderIInv
  OBVIOUS
<1>1. input = <<>> /\ Len(input) = 0 /\ input \in Seq(Frame)
  BY DEF Init
<1>2. ReadInv
  BY <1>1 DEF Init, ReadInv, Numbered
<1>3. resumed = FreshReader /\ upcoming = 1
  BY DEF Init
<1> QED
  BY <1>1, <1>2, <1>3, StartInv DEF ReaderIInv

LEMMA FeedIInv == ASSUME ReaderIInv, Feed PROVE ReaderIInv'
<1> DEFINE k == Len(input)
<1>1. ReadInv /\ ReaderInv(input, resumed, k + 1) /\ ~resumed.failed /\ upcoming = k + 1
  BY DEF ReaderIInv, Feed, CaughtUp
<1>2. k \in Nat
  BY <1>1, ReadFacts
<1>3. PICK g \in family.frames :
        LET f == [n |-> k + 1, kind |-> g.kind, t |-> g.t, v |-> g.v]
        IN  input' = Append(input, f) /\ resumed' = Consume(resumed, f)
  BY DEF Feed
<1> DEFINE f == [n |-> k + 1, kind |-> g.kind, t |-> g.t, v |-> g.v]
<1>4. f \in Frame /\ f.n = k + 1 /\ f.kind = g.kind
  <2>1. g \in [kind : STRING, t : Time, v : Time]
    BY <1>1, FamilyAssumption DEF ReadInv
  <2> QED
    BY <1>2, <2>1 DEF Frame
<1>5. input' = Append(input, f) /\ resumed' = Consume(resumed, f)
  BY <1>3
<1> HIDE DEF f
<1>6. Grown(input, input', f) /\ Numbered(input')
  BY <1>1, <1>4, <1>5, GrownFacts DEF ReadInv
<1>7. UNCHANGED family /\ upcoming' = k + 2 /\ Len(input') = k + 1
  BY <1>1, <1>2, <1>6 DEF Feed, Grown
<1>8. \A j \in 1..Len(input') : \E h \in family'.frames : input'[j].kind = h.kind
  <2> TAKE j \in 1..Len(input')
  <2>1. CASE j = k + 1
    BY <1>4, <1>6, <1>7, <2>1 DEF Grown
  <2>2. CASE j # k + 1
    <3>1. j \in 1..k
      BY <1>2, <1>7, <2>2
    <3> QED
      BY <1>1, <1>6, <1>7, <3>1 DEF Grown, ReadInv
  <2> QED
    BY <2>1, <2>2
<1>9. ReadInv'
  BY <1>1, <1>2, <1>6, <1>7, <1>8 DEF ReadInv
<1>10. OneProtocol(input')
  <2>1. (ReadInv => OneProtocol(input))'
    BY ReadFacts, PTL
  <2> QED
    BY <1>9, <2>1
<1>11. ReaderInv(input', resumed', k + 2)
  BY <1>1, <1>4, <1>5, <1>6, <1>10, ConsumeStep DEF ReadInv
<1> QED
  BY <1>7, <1>9, <1>11 DEF ReaderIInv

LEMMA ReadAgainIInv == ASSUME ReaderIInv, ReadAgain PROVE ReaderIInv'
<1>1. /\ ReadInv /\ ReaderInv(input, resumed, upcoming) /\ OneProtocol(input)
      /\ Numbered(input) /\ Len(input) \in Nat
  BY ReadFacts DEF ReaderIInv, ReadInv
<1>2. upcoming \in 1..Len(input)
  BY <1>1 DEF ReadAgain, CaughtUp, ReadInv
<1>3. /\ resumed' = Reread(resumed, input[upcoming]) /\ upcoming' = upcoming + 1
      /\ UNCHANGED <<family, input>>
  BY DEF ReadAgain
<1>4. ReaderInv(input, Reread(resumed, input[upcoming]), upcoming + 1)
  BY <1>1, <1>2, RereadStep
<1>5. ReadInv'
  BY <1>1, <1>2, <1>3 DEF ReadInv
<1> QED
  BY <1>3, <1>4, <1>5 DEF ReaderIInv

LEMMA ContinueIInv == ASSUME ReaderIInv, Continue PROVE ReaderIInv'
<1>1. /\ ReadInv /\ ReaderInv(input, resumed, Len(input) + 1) /\ ~resumed.failed
      /\ upcoming = Len(input) + 1 /\ Len(input) \in Nat
  BY ReadFacts DEF ReaderIInv, Continue, CaughtUp
<1>2. /\ resumed' = [Restore(Checkpoint(resumed)) EXCEPT !.out = resumed.out]
      /\ upcoming' = Begin(resumed, Len(input) + 1) /\ UNCHANGED <<family, input>>
  BY <1>1 DEF Continue, ResumeOffset, Begin
<1>3. /\ upcoming' \in 1..(Len(input) + 1)
      /\ ReaderInv(input, resumed', upcoming')
  BY <1>1, <1>2, RestoreStep
<1>4. ReadInv'
  BY <1>1, <1>2, <1>3 DEF ReadInv
<1> QED
  BY <1>2, <1>3, <1>4 DEF ReaderIInv

LEMMA EndIInv == ASSUME ReaderIInv, DeclareEnd PROVE ReaderIInv'
<1>1. resumed' = DeclaredEnd(resumed) /\ UNCHANGED <<family, input, upcoming>>
  BY DEF DeclareEnd
<1>2. ReaderInv(input, DeclaredEnd(resumed), upcoming)
  BY EndStep DEF ReaderIInv
<1>3. ReadInv'
  BY <1>1 DEF ReaderIInv, ReadInv
<1> QED
  BY <1>1, <1>2, <1>3 DEF ReaderIInv

LEMMA NextIInv == ReaderIInv /\ [Next]_vars => ReaderIInv'
<1> SUFFICES ASSUME ReaderIInv, [Next]_vars PROVE ReaderIInv'
  OBVIOUS
<1>1. CASE Feed
  BY <1>1, FeedIInv
<1>2. CASE Continue
  BY <1>2, ContinueIInv
<1>3. CASE ReadAgain
  BY <1>3, ReadAgainIInv
<1>4. CASE DeclareEnd
  BY <1>4, EndIInv
<1>5. CASE UNCHANGED vars
  BY <1>5 DEF vars, ReaderIInv, ReadInv
<1> QED
  BY <1>1, <1>2, <1>3, <1>4, <1>5 DEF Next

LEMMA SpecIInv == Spec => []ReaderIInv
BY InitIInv, NextIInv, PTL DEF Spec

\* LastOf is the latest frame of its kinds, or 0.
LEMMA LastOfFacts ==
  ASSUME ReadInv, NEW kinds, NEW n \in Nat \ {0}
  PROVE  LET m == LastOf(kinds, n) IN
           /\ m \in 0..(n - 1)
           /\ m # 0 => m \in 1..Len(input) /\ input[m].kind \in kinds
           /\ \A j \in Frames(kinds) : j < n => j =< m
<1> DEFINE S == {0} \cup {m \in Frames(kinds) : m < n}
<1>1. \A j \in Frames(kinds) : j \in 1..Len(input) /\ input[j].kind \in kinds
  BY ReadFacts DEF Frames
<1>2. S \in SUBSET (0..(n - 1)) /\ S # {} /\ n - 1 \in Nat
  BY <1>1
<1>3. Max(S) \in S /\ \A y \in S : Max(S) >= y
  <2> HIDE DEF S
  <2> QED
    BY <1>2, MaxBounded
<1>4. LastOf(kinds, n) = Max(S)
  BY DEF LastOf
<1>5. Max(S) \in 0..(n - 1)
  BY <1>2, <1>3
<1>6. \A j \in Frames(kinds) : j < n => j =< Max(S)
  BY <1>1, <1>3, <1>5
<1>7. Max(S) # 0 => Max(S) \in 1..Len(input) /\ input[Max(S)].kind \in kinds
  BY <1>1, <1>3
<1> HIDE DEF S
<1> QED
  BY <1>4, <1>5, <1>6, <1>7
LEMMA OutFacts ==
  ASSUME ReaderIInv
  PROVE  /\ DOMAIN Out.events = 1..Len(Out.events) /\ DOMAIN Out.bits = 1..Len(Out.bits)
         /\ DOMAIN Out.epochs = 1..Len(Out.epochs)
<1>1. IsSeq(Out.events) /\ IsSeq(Out.bits) /\ IsSeq(Out.epochs)
  BY DEF ReaderIInv, ReaderInv, Shape, Out
<1> QED
  BY <1>1, AppendFacts

\* A bits record's time is the latest navigation frame's, and holds.
LEMMA IInvFresh == ASSUME ReaderIInv PROVE FreshAnchor
<1> SUFFICES ASSUME NEW b \in Occurrences(Out.bits), b.t # None
             PROVE
      LET m == LastOf(Navigation, b.n)
      IN  /\ m > 0 /\ input[m].t = b.t
          /\ ~\E e \in Occurrences(Out.events) :
                e.kind = "RECEIVER_RESTART" /\ e.n \in (m + 1)..b.n
          /\ \A k \in Frames(Measurement \cup {"STATUS"}) :
                k \in m..b.n /\ input[k].t # None => input[k].t - b.t <= Timeout
  BY DEF FreshAnchor
<1> DEFINE m == LastOf(Navigation, b.n)  ev == Out.events
<1>1. ReadInv /\ DOMAIN ev = 1..Len(ev) /\ DOMAIN input = 1..Len(input) /\ Len(input) \in Nat
  BY OutFacts, ReadFacts DEF ReaderIInv
<1>2. BitFresh(input, ev, b)
  <2>1. BitsFresh(input, ev, Out.bits)
    BY DEF ReaderIInv, ReaderInv, Out
  <2>2. PICK i \in DOMAIN Out.bits : b = Out.bits[i]
    BY DEF Occurrences
  <2> QED
    BY <2>1, <2>2, OutFacts DEF BitsFresh
<1>3. b.n \in 1..Len(input) /\ b.n \in Nat \ {0}
  BY <1>1, <1>2 DEF BitFresh
<1>4. PICK a \in Nat : FreshSince(input, ev, b, a)
  BY <1>2 DEF BitFresh
<1>5. a \in 1..(b.n - 1) /\ a \in Frames(Navigation)
  BY <1>1, <1>3, <1>4 DEF FreshSince, Frames
<1>6. /\ m \in 0..(b.n - 1) /\ (m # 0 => m \in 1..Len(input) /\ input[m].kind \in Navigation)
      /\ a =< m
  <2>1. a < b.n
    BY <1>3, <1>5
  <2> QED
    BY <1>1, <1>3, <1>5, <2>1, LastOfFacts
<1> HIDE DEF m, ev
<1>7. m = a
  <2> SUFFICES ASSUME m # a PROVE FALSE
    OBVIOUS
  <2>1. m \in (a + 1)..(b.n - 1) /\ m # 0
    BY <1>3, <1>5, <1>6
  <2> QED
    BY <1>4, <1>6, <2>1 DEF FreshSince
<1>8. m > 0 /\ input[m].t = b.t
  BY <1>4, <1>5, <1>7 DEF FreshSince
<1>9. ~\E e \in Occurrences(ev) : e.kind = "RECEIVER_RESTART" /\ e.n \in (m + 1)..b.n
  BY <1>1, <1>4, <1>7 DEF FreshSince, Occurrences, Restarts
<1>10. \A k \in Frames(Measurement \cup {"STATUS"}) :
          k \in m..b.n /\ input[k].t # None => input[k].t - b.t <= Timeout
  BY <1>4, <1>7 DEF FreshSince, Frames
<1> QED
  BY <1>8, <1>9, <1>10 DEF m, ev

\* What ClosedAt says of the frames.
LEMMA ClosedAtIs ==
  ASSUME ReadInv, NEW n \in Frames({"END"}), ClosedAt(n) PROVE ClosedOn(input, n)
<1> DEFINE kinds == {"MEAS", "EXTRA", "END"}  m == LastOf(kinds, n)
<1>1. /\ n \in 1..Len(input) /\ input[n].kind = "END" /\ input[n].t # None
      /\ Len(input) \in Nat /\ DOMAIN input = 1..Len(input)
  BY ReadFacts DEF Frames, ClosedAt
<1>2. n \in Nat \ {0}
  BY <1>1
<1>3. m > 0 /\ input[m].kind = "MEAS" /\ input[m].t = input[n].t
  BY DEF ClosedAt
<1>4. m \in 0..(n - 1) /\ \A j \in Frames(kinds) : j < n => j =< m
  BY <1>2, LastOfFacts
<1> HIDE DEF m
<1>5. m \in 1..(n - 1)
  BY <1>2, <1>3, <1>4
<1>6. ASSUME NEW j \in (m + 1)..(n - 1) PROVE input[j].kind \notin kinds
  <2>1. j \in 1..Len(input) /\ j < n /\ ~(j =< m)
    BY <1>1, <1>2, <1>5
  <2>2. j \notin Frames(kinds)
    BY <1>4, <2>1
  <2> QED
    BY <1>1, <2>1, <2>2 DEF Frames
<1> QED
  BY <1>1, <1>3, <1>5, <1>6 DEF ClosedOn

\* Epochs are whole, one for each closed group, and told once.
LEMMA IInvEpochs == ASSUME ReaderIInv PROVE EpochsWhole
<1> DEFINE epochs == Occurrences(Out.epochs)  ev == Out.events  ep == Out.epochs
           told == {i \in DOMAIN Out.events : Out.events[i].scope = "OBSERVATION"
                                              /\ Out.events[i].detail = "COMPLETE"}
<1>1. /\ ReadInv /\ DOMAIN ev = 1..Len(ev) /\ DOMAIN ep = 1..Len(ep)
      /\ DOMAIN input = 1..Len(input) /\ Len(input) \in Nat
  BY OutFacts, ReadFacts DEF ReaderIInv
<1>2. /\ AllWhole(input, ep) /\ Counted(ev, ep)
      /\ ~resumed.failed => NoneLost(input, ep)
  BY DEF ReaderIInv, ReaderInv, Out
<1>3. ASSUME NEW e \in epochs
      PROVE  /\ e.rows = {m \in Frames(Measurement) : m \in Min(e.rows)..e.n}
             /\ \A m \in e.rows : input[m].t = e.t
  <2>1. PICK i \in 1..Len(ep) : e = ep[i]
    BY <1>1 DEF Occurrences
  <2>2. WholeEpoch(input, e)
    BY <1>2, <2>1 DEF AllWhole
  <2>3. PICK lo \in e.rows :
          lo \in 1..e.n /\ e.rows = {m \in lo..e.n : input[m].kind \in Measurement}
    BY <2>2 DEF WholeEpoch
  <2>4. e.n \in 1..Len(input)
    BY <2>2 DEF WholeEpoch
  <2>5. Min(e.rows) = lo
    <3>1. e.rows \in SUBSET Nat /\ \A x \in e.rows : lo =< x
      BY <2>3, <2>4
    <3> QED
      BY <3>1, MinIs
  <2>6. \A m \in lo..e.n : m \in 1..Len(input)
    BY <1>1, <2>3, <2>4
  <2>7. e.rows = {m \in Frames(Measurement) : m \in lo..e.n}
    BY <1>1, <2>3, <2>6 DEF Frames
  <2> QED
    BY <2>2, <2>5, <2>7 DEF WholeEpoch
<1>4. ASSUME NEW n \in Frames({"END"}), ClosedAt(n), ~resumed.failed
      PROVE  \E e \in epochs : e.n = n
  <2>1. ClosedOn(input, n) /\ n \in 1..Len(input)
    BY <1>1, <1>4, ClosedAtIs DEF Frames
  <2>2. PICK i \in 1..Len(ep) : ep[i].n = n
    BY <1>2, <1>4, <2>1 DEF NoneLost
  <2> QED
    BY <1>1, <2>2 DEF Occurrences
<1>5. told = Told(ev)
  BY <1>1 DEF Told, Completes
<1>6. Cardinality(told) = Len(ep)
  BY <1>2, <1>5 DEF Counted
<1>7. {ev[i].n : i \in told} = {e.n : e \in epochs}
  <2>1. {ev[i].n : i \in told} = Numbers(ep, 1..Len(ep))
    BY <1>2, <1>5 DEF Counted, Numbers
  <2>2. Numbers(ep, 1..Len(ep)) = {e.n : e \in epochs}
    BY <1>1 DEF Numbers, Occurrences
  <2> QED
    BY <2>1, <2>2
<1> QED
  BY <1>3, <1>4, <1>6, <1>7 DEF EpochsWhole

-----------------------------------------------------------------------------

\* Over any stream of one protocol, with any continuations and declared ends, a
\* RawBits record's time is that of the latest navigation frame before it: an
\* invalid block, a receiver restart and the timeout each end the association.
THEOREM AnchorsFresh == Spec => []FreshAnchor
BY SpecIInv, IInvFresh, PTL

\* Every epoch holds all measurement blocks of its group and no other, every
\* group its EndOfMeas closes becomes one epoch, and each epoch is told by one
\* COMPLETE event, continuations in the middle of a group included.
THEOREM WholeEpochs == Spec => []EpochsWhole
BY SpecIInv, IInvEpochs, PTL

-----------------------------------------------------------------------------
(***************************************************************************)
(* The assembler: what its operations return depends on nothing that a     *)
(* checkpoint leaves out.                                                  *)
(***************************************************************************)

IsFcn(f) == f = [x \in DOMAIN f |-> f[x]]
TeleFields == {"current", "before", "future", "ready", "key", "day", "updates", "ubx"}
TeleForm(t) ==
    /\ IsFcn(t) /\ DOMAIN t = TeleFields
    /\ IsSeq(t.ready) /\ IsFiniteSet(DOMAIN t.future) /\ t.updates \in Nat

\* All but the number of updates, which tells when the size is looked at next.
Like(t, u) ==
    /\ TeleForm(t) /\ TeleForm(u)
    /\ \A x \in TeleFields \ {"updates"} : t[x] = u[x]
    /\ BoundEvery = 1 => t = u

LEMMA AppendSeq == ASSUME NEW s, IsSeq(s), NEW e PROVE IsSeq(Append(s, e))
BY AppendFacts

\* What two assemblers become stays alike when their fields do.
LEMMA LikeMade ==
  ASSUME NEW t, NEW u, Like(t, u), NEW p, NEW q, IsFcn(p), IsFcn(q),
         DOMAIN p = TeleFields, DOMAIN q = TeleFields,
         IsSeq(p.ready), IsFiniteSet(DOMAIN p.future),
         p.updates \in Nat, q.updates \in Nat, t.updates = u.updates => p.updates = q.updates,
         \A x \in TeleFields \ {"updates"} : p[x] = q[x]
  PROVE  Like(p, q)
<1>1. BoundEvery = 1 => p = q
  <2> SUFFICES ASSUME BoundEvery = 1 PROVE p = q
    OBVIOUS
  <2>1. t.updates = u.updates
    BY DEF Like
  <2>2. \A x \in TeleFields : p[x] = q[x]
    BY <2>1 DEF TeleFields
  <2> QED
    BY <2>2 DEF IsFcn
<1>2. p.ready = q.ready /\ p.future = q.future
  BY DEF TeleFields
<1> QED
  BY <1>1, <1>2 DEF Like, TeleForm

LEMMA PublishLike ==
  ASSUME NEW t, NEW u, Like(t, u), NEW complete, NEW pos
  PROVE  Like(Publish(t, complete, pos), Publish(u, complete, pos))
<1>1. t.current = u.current /\ t.ready = u.ready /\ t.day = u.day
  BY DEF Like, TeleFields
<1>2. CASE ~t.current.present
  BY <1>1, <1>2 DEF Publish
<1>3. CASE t.current.present
  <2> DEFINE rows == Append(t.ready, Closed(Touch(t.current, pos), complete, t.day))
  <2>1. /\ Publish(t, complete, pos) = [t EXCEPT !.ready = rows, !.current = EmptyRow]
        /\ Publish(u, complete, pos) = [u EXCEPT !.ready = rows, !.current = EmptyRow]
    BY <1>1, <1>3 DEF Publish, Like, TeleForm, TeleFields
  <2>2. IsSeq(rows)
    BY AppendSeq DEF Like, TeleForm
  <2> HIDE DEF rows
  <2>3. IsFcn(Publish(t, complete, pos)) /\ IsFcn(Publish(u, complete, pos))
    BY <2>1 DEF IsFcn
  <2> QED
    BY <2>1, <2>2, <2>3 DEF Like, TeleForm, TeleFields
<1> QED
  BY <1>2, <1>3

LEMMA UpdateLike ==
  ASSUME NEW t, NEW u, Like(t, u), NEW at, NEW pos, NEW values
  PROVE  /\ Like(UpdateTarget(t, at, pos, values), UpdateTarget(u, at, pos, values))
         /\ Like(UpdateBefore(t, pos, values), UpdateBefore(u, pos, values))
<1>1. /\ t.current = u.current /\ t.before = u.before /\ t.future = u.future
      /\ t.key = u.key /\ t.ubx = u.ubx
  BY DEF Like, TeleFields
<1>0. t.updates + 1 \in Nat /\ u.updates + 1 \in Nat
  BY DEF Like, TeleForm
<1>2. Like(UpdateBefore(t, pos, values), UpdateBefore(u, pos, values))
  <2> DEFINE row == Merge(Touch(t.before, pos), values)
  <2>1. /\ UpdateBefore(t, pos, values) = [t EXCEPT !.before = row, !.updates = t.updates + 1]
        /\ UpdateBefore(u, pos, values) = [u EXCEPT !.before = row, !.updates = u.updates + 1]
    BY <1>1 DEF UpdateBefore, Like, TeleForm, TeleFields
  <2> HIDE DEF row
  <2>2. IsFcn(UpdateBefore(t, pos, values)) /\ IsFcn(UpdateBefore(u, pos, values))
    BY <2>1 DEF IsFcn
  <2>3. LET p == UpdateBefore(t, pos, values)  q == UpdateBefore(u, pos, values) IN
          /\ DOMAIN p = TeleFields /\ DOMAIN q = TeleFields
          /\ p.ready = t.ready /\ p.future = t.future
          /\ p.updates = t.updates + 1 /\ q.updates = u.updates + 1
          /\ \A x \in TeleFields \ {"updates"} : p[x] = q[x]
    BY <2>1 DEF Like, TeleForm, TeleFields
  <2> QED
    BY <1>0, <2>2, <2>3, LikeMade DEF Like, TeleForm
<1>3. Like(UpdateTarget(t, at, pos, values), UpdateTarget(u, at, pos, values))
  <2>1. CASE Waiting(t, at)
    <3> DEFINE row == IF at \in Keys(t) THEN t.future[at] ELSE EmptyRow
               keys == Keys(t) \cup {at}
               future == [k \in keys |-> IF k = at THEN Merge(Touch(row, pos), values)
                                         ELSE t.future[k]]
    <3>1. Waiting(u, at)
      BY <1>1, <2>1 DEF Waiting
    <3>2. UpdateTarget(t, at, pos, values) = [t EXCEPT !.future = future, !.updates = t.updates + 1]
      BY <2>1 DEF UpdateTarget, Like, TeleForm, TeleFields
    <3>3. UpdateTarget(u, at, pos, values) = [u EXCEPT !.future = future, !.updates = u.updates + 1]
      BY <1>1, <3>1 DEF UpdateTarget, Like, TeleForm, TeleFields, Keys
    <3>4. IsFiniteSet(DOMAIN future)
      <4>1. IsFiniteSet(keys)
        BY FS_AddElement DEF Like, TeleForm, Keys
      <4>2. DOMAIN future = keys
        OBVIOUS
      <4> QED
        BY <4>1, <4>2
    <3> HIDE DEF future
    <3>5. /\ IsFcn(UpdateTarget(t, at, pos, values)) /\ IsFcn(UpdateTarget(u, at, pos, values))
      BY <3>2, <3>3 DEF IsFcn
    <3>6. LET p == UpdateTarget(t, at, pos, values)  q == UpdateTarget(u, at, pos, values) IN
            /\ DOMAIN p = TeleFields /\ DOMAIN q = TeleFields
            /\ p.ready = t.ready /\ p.future = future
            /\ p.updates = t.updates + 1 /\ q.updates = u.updates + 1
            /\ \A x \in TeleFields \ {"updates"} : p[x] = q[x]
      BY <3>2, <3>3 DEF Like, TeleForm, TeleFields
    <3> QED
      BY <1>0, <3>4, <3>5, <3>6, LikeMade DEF Like, TeleForm
  <2>2. CASE ~Waiting(t, at)
    <3> DEFINE row == Merge(Touch(t.current, pos), values)
    <3>1. ~Waiting(u, at)
      BY <1>1, <2>2 DEF Waiting
    <3>2. /\ UpdateTarget(t, at, pos, values) = [t EXCEPT !.current = row, !.updates = t.updates + 1]
          /\ UpdateTarget(u, at, pos, values) = [u EXCEPT !.current = row, !.updates = u.updates + 1]
      BY <1>1, <2>2, <3>1 DEF UpdateTarget, Like, TeleForm, TeleFields
    <3> HIDE DEF row
    <3>3. IsFcn(UpdateTarget(t, at, pos, values)) /\ IsFcn(UpdateTarget(u, at, pos, values))
      BY <3>2 DEF IsFcn
    <3>4. LET p == UpdateTarget(t, at, pos, values)  q == UpdateTarget(u, at, pos, values) IN
            /\ DOMAIN p = TeleFields /\ DOMAIN q = TeleFields
            /\ p.ready = t.ready /\ p.future = t.future
            /\ p.updates = t.updates + 1 /\ q.updates = u.updates + 1
            /\ \A x \in TeleFields \ {"updates"} : p[x] = q[x]
      BY <3>2 DEF Like, TeleForm, TeleFields
    <3> QED
      BY <1>0, <3>3, <3>4, LikeMade DEF Like, TeleForm
  <2> QED
    BY <2>1, <2>2
<1> QED
  BY <1>2, <1>3

\* What the other operations change besides.
LEMMA LikeBefore ==
  ASSUME NEW t, NEW u, Like(t, u), NEW a, NEW b, IsSeq(a)
  PROVE  Like([t EXCEPT !.ready = a, !.before = b],
              [u EXCEPT !.ready = a, !.before = b])
BY DEF Like, TeleForm, TeleFields, IsFcn

LEMMA LikeCurrent ==
  ASSUME NEW t, NEW u, Like(t, u), NEW a
  PROVE  Like([t EXCEPT !.current = a],
              [u EXCEPT !.current = a])
BY DEF Like, TeleForm, TeleFields, IsFcn

LEMMA LikeStamped ==
  ASSUME NEW t, NEW u, Like(t, u), NEW a, NEW b
  PROVE  Like([t EXCEPT !.current = a, !.day = b],
              [u EXCEPT !.current = a, !.day = b])
BY DEF Like, TeleForm, TeleFields, IsFcn

LEMMA LikeOpened ==
  ASSUME NEW t, NEW u, Like(t, u), NEW a, NEW b, NEW c, NEW d, NEW e, IsFiniteSet(DOMAIN d)
  PROVE  Like([t EXCEPT !.key = a, !.day = b, !.before = c, !.future = d, !.current = e],
              [u EXCEPT !.key = a, !.day = b, !.before = c, !.future = d, !.current = e])
BY DEF Like, TeleForm, TeleFields, IsFcn

LEMMA LikeFinished ==
  ASSUME NEW t, NEW u, Like(t, u), NEW a, NEW b, NEW c, NEW d, NEW e, IsSeq(a), IsFiniteSet(DOMAIN d)
  PROVE  Like([t EXCEPT !.ready = a, !.current = b, !.before = c, !.future = d, !.key = e],
              [u EXCEPT !.ready = a, !.current = b, !.before = c, !.future = d, !.key = e])
BY DEF Like, TeleForm, TeleFields, IsFcn

LEMMA LikeProtocol ==
  ASSUME NEW t, NEW u, Like(t, u), NEW a
  PROVE  Like([t EXCEPT !.ubx = a],
              [u EXCEPT !.ubx = a])
BY DEF Like, TeleForm, TeleFields, IsFcn

LEMMA LikeReady ==
  ASSUME NEW t, NEW u, Like(t, u), NEW a, IsSeq(a)
  PROVE  Like([t EXCEPT !.ready = a],
              [u EXCEPT !.ready = a])
BY DEF Like, TeleForm, TeleFields, IsFcn

LEMMA LikeLooked ==
  ASSUME NEW t, NEW u, Like(t, u)
  PROVE  Like([t EXCEPT !.updates = 0],
              [u EXCEPT !.updates = 0])
BY DEF Like, TeleForm, TeleFields, IsFcn

LEMMA LikeFields ==
  ASSUME NEW t, NEW u, Like(t, u)
  PROVE  /\ t.current = u.current /\ t.before = u.before /\ t.future = u.future
         /\ t.ready = u.ready /\ t.key = u.key /\ t.day = u.day /\ t.ubx = u.ubx
         /\ Keys(t) = Keys(u) /\ IsFiniteSet(Keys(t)) /\ IsSeq(t.ready)
BY DEF Like, TeleForm, TeleFields, Keys

LEMMA OpenLike ==
  ASSUME NEW t, NEW u, Like(t, u), NEW next, NEW n, NEW pos, NEW day
  PROVE  Like(Open(t, next, n, pos, day), Open(u, next, n, pos, day))
<1> DEFINE earlier == {k \in Keys(t) : k < next}
           row == MergeAll(t.current, t.future, earlier)
           tc == Publish([t EXCEPT !.current = row], t.key # None, pos)
           uc == Publish([u EXCEPT !.current = row], t.key # None, pos)
           same == IF next \in Keys(t) THEN t.future[next] ELSE EmptyRow
           merged == Merge(Merge(tc.current, t.before), same)
           opened == [merged EXCEPT !.present = TRUE, !.located = TRUE, !.gpst = None,
                                    !.anchor = pos.anchor, !.index = pos.index, !.opened = n]
           left == Without(tc.future, earlier \cup {next})
<1>0. /\ t.current = u.current /\ t.before = u.before /\ t.future = u.future
      /\ t.key = u.key /\ Keys(t) = Keys(u) /\ IsSeq(t.ready)
  BY LikeFields
<1>1. Like([t EXCEPT !.current = row], [u EXCEPT !.current = row])
  <2> HIDE DEF row
  <2> QED
    BY LikeCurrent
<1>2. Like(tc, uc)
  <2> HIDE DEF row
  <2> QED
    BY <1>1, PublishLike
<1>3. Open(t, next, n, pos, day) =
        [tc EXCEPT !.key = next, !.day = day, !.before = EmptyRow, !.future = left,
                   !.current = opened]
  <2>1. [t EXCEPT !.current = MergeAll(@, t.future, earlier)] = [t EXCEPT !.current = row]
    <3> HIDE DEF earlier
    <3> QED
      BY DEF Like, TeleForm, TeleFields
  <2>2. DOMAIN tc = TeleFields
    <3> HIDE DEF tc
    <3> QED
      BY <1>2 DEF Like, TeleForm
  <2> QED
    BY <2>1, <2>2 DEF Open, TeleFields
<1>4. Open(u, next, n, pos, day) =
        [uc EXCEPT !.key = next, !.day = day, !.before = EmptyRow, !.future = left,
                   !.current = opened]
  <2>1. [u EXCEPT !.current = MergeAll(@, u.future, {k \in Keys(u) : k < next})]
          = [u EXCEPT !.current = row]
    BY <1>0 DEF Like, TeleForm, TeleFields
  <2>2. DOMAIN uc = TeleFields /\ tc.current = uc.current /\ tc.future = uc.future
    <3> HIDE DEF tc, uc
    <3> QED
      BY <1>2, LikeFields DEF Like, TeleForm
  <2>3. Open(u, next, n, pos, day) =
          [uc EXCEPT !.key = next, !.day = day, !.before = EmptyRow,
                     !.future = Without(uc.future, earlier \cup {next}),
                     !.current = [Merge(Merge(uc.current, u.before), same) EXCEPT
                                    !.present = TRUE, !.located = TRUE, !.gpst = None,
                                    !.anchor = pos.anchor, !.index = pos.index, !.opened = n]]
    BY <1>0, <2>1, <2>2 DEF Open, TeleFields
  <2> HIDE DEF tc, uc
  <2> QED
    BY <1>0, <2>2, <2>3
<1>5. IsFiniteSet(DOMAIN left)
  <2> HIDE DEF tc, uc
  <2>1. IsFiniteSet(DOMAIN tc.future)
    BY <1>2 DEF Like, TeleForm
  <2>2. DOMAIN left = DOMAIN tc.future \ (earlier \cup {next})
    BY DEF Without, Restrict
  <2> QED
    BY <2>1, <2>2, FS_Subset
<1> HIDE DEF tc, uc, left, opened
<1>6. Like([tc EXCEPT !.key = next, !.day = day, !.before = EmptyRow, !.future = left,
                      !.current = opened],
           [uc EXCEPT !.key = next, !.day = day, !.before = EmptyRow, !.future = left,
                      !.current = opened])
  BY <1>2, <1>5, LikeOpened
<1> QED
  BY <1>3, <1>4, <1>6

LEMMA StampLike ==
  ASSUME NEW t, NEW u, Like(t, u), NEW stamp, NEW navigation
  PROVE  Like(Stamp(t, stamp, navigation), Stamp(u, stamp, navigation))
<1>1. t.current = u.current /\ t.key = u.key
  BY LikeFields
<1>2. CASE t.key # None /\ navigation # None /\ stamp = t.key
  <2> DEFINE row == [t.current EXCEPT !.gpst = navigation]
             day == navigation \div DayLength
  <2>1. /\ Stamp(t, stamp, navigation) = [t EXCEPT !.current = row, !.day = day]
        /\ Stamp(u, stamp, navigation) = [u EXCEPT !.current = row, !.day = day]
    BY <1>1, <1>2 DEF Stamp, Like, TeleForm, TeleFields
  <2> HIDE DEF row, day
  <2>2. Like([t EXCEPT !.current = row, !.day = day], [u EXCEPT !.current = row, !.day = day])
    BY LikeStamped
  <2> QED
    BY <2>1, <2>2
<1>3. CASE ~(t.key # None /\ navigation # None /\ stamp = t.key)
  BY <1>1, <1>3 DEF Stamp
<1> QED
  BY <1>2, <1>3

LEMMA ReportLike ==
  ASSUME NEW t, NEW u, Like(t, u), NEW at, NEW v, NEW n, NEW pos
  PROVE  /\ Like(StatusReport(t, at, v, n, pos), StatusReport(u, at, v, n, pos))
         /\ Like(MeasurementClock(t, at, n, pos), MeasurementClock(u, at, n, pos))
         /\ Like(PulseReport(t, at, n, pos), PulseReport(u, at, n, pos))
         /\ Like(ClockReport(t, at, v, n, pos), ClockReport(u, at, v, n, pos))
<1> USE LikeFields
<1>1. /\ Like(PulseReport(t, at, n, pos), PulseReport(u, at, n, pos))
      /\ Like(ClockReport(t, at, v, n, pos), ClockReport(u, at, v, n, pos))
  BY UpdateLike DEF PulseReport, ClockReport
<1>2. Like(MeasurementClock(t, at, n, pos), MeasurementClock(u, at, n, pos))
  <2>1. t.ubx = u.ubx
    OBVIOUS
  <2> QED
    BY <2>1, UpdateLike DEF MeasurementClock
<1>3. Like(StatusReport(t, at, v, n, pos), StatusReport(u, at, v, n, pos))
  <2> DEFINE values == [Report(n) EXCEPT !.uptime = v]
             Split(x) == IF ~Differ(x.before.uptime, v) THEN x
                         ELSE [x EXCEPT !.ready = Append(@, Closed(x.before, FALSE, x.day)),
                                        !.before = EmptyRow]
             rows == Append(t.ready, Closed(t.before, FALSE, t.day))
             ts == Split(t)
             us == Split(u)
  <2>1. t.before = u.before /\ t.ready = u.ready /\ t.day = u.day /\ t.ubx = u.ubx
    OBVIOUS
  <2>2. IsSeq(rows)
    BY AppendSeq
  <2>3. Like(ts, us)
    <3>1. CASE ~Differ(t.before.uptime, v)
      BY <2>1, <3>1
    <3>2. CASE Differ(t.before.uptime, v)
      <4>1. /\ ts = [t EXCEPT !.ready = rows, !.before = EmptyRow]
            /\ us = [u EXCEPT !.ready = rows, !.before = EmptyRow]
        BY <2>1, <3>2 DEF Like, TeleForm, TeleFields
      <4> HIDE DEF rows, ts, us
      <4>2. Like([t EXCEPT !.ready = rows, !.before = EmptyRow],
                 [u EXCEPT !.ready = rows, !.before = EmptyRow])
        BY <2>2, LikeBefore
      <4> QED
        BY <4>1, <4>2
    <3> QED
      BY <3>1, <3>2
  <2>4. /\ StatusReport(t, at, v, n, pos) = IF t.ubx THEN UpdateBefore(ts, pos, values)
                                            ELSE UpdateTarget(t, at, pos, values)
        /\ StatusReport(u, at, v, n, pos) = IF u.ubx THEN UpdateBefore(us, pos, values)
                                            ELSE UpdateTarget(u, at, pos, values)
    BY DEF StatusReport
  <2> HIDE DEF ts, us, values
  <2> QED
    BY <2>1, <2>3, <2>4, UpdateLike
<1> QED
  BY <1>1, <1>2, <1>3

\* The rows a declared end leaves are a sequence.
LEMMA ConcatSeq ==
  ASSUME NEW a, NEW b, IsSeq(a), IsSeq(b) PROVE IsSeq(a \o b)
<1>1. PICK S, T : a \in Seq(S) /\ b \in Seq(T)
  BY DEF IsSeq
<1>2. a \in Seq(S \cup T) /\ b \in Seq(S \cup T)
  BY <1>1, SeqMonotonic
<1>3. a \o b \in Seq(S \cup T)
  BY <1>2, ConcatProperties
<1> QED
  BY <1>3 DEF IsSeq

LEMMA LeftoverSeq ==
  ASSUME NEW t, IsFiniteSet(Keys(t)) PROVE IsSeq(Leftover(t))
<1>1. ASSUME NEW row PROVE IsSeq(Shown(row))
  <2>1. <<>> \in Seq({row}) /\ <<row>> \in Seq({row})
    OBVIOUS
  <2> QED
    BY <2>1 DEF Shown, IsSeq
<1>2. ASSUME NEW future, NEW keys, IsFiniteSet(keys) PROVE IsSeq(ByTime(future, keys))
  <2>1. Cardinality(keys) \in Nat
    BY <1>2, FS_CardinalityType
  <2> DEFINE S == {future[Ascending(keys)[i]] : i \in 1..Cardinality(keys)}
  <2>2. ByTime(future, keys) \in [1..Cardinality(keys) -> S]
    BY DEF ByTime
  <2> HIDE DEF S
  <2>3. ByTime(future, keys) \in Seq(S)
    BY <2>1, <2>2, SeqDef
  <2> QED
    BY <2>3 DEF IsSeq
<1>3. IsFiniteSet({k \in Keys(t) : t.future[k].present})
  BY FS_Subset
<1> QED
  BY <1>1, <1>2, <1>3, ConcatSeq DEF Leftover

LEMMA FinishLike ==
  ASSUME NEW t, NEW u, Like(t, u), NEW pos
  PROVE  /\ Like(FinishAll(t, pos), FinishAll(u, pos))
         /\ FinishAll(t, pos).updates = t.updates
         /\ FinishAll(t, pos).current = EmptyRow /\ FinishAll(t, pos).before = EmptyRow
         /\ FinishAll(t, pos).future = <<>>
<1> DEFINE rows == Leftover(t)
           ended == [i \in DOMAIN rows |-> Closed(Touch(rows[i], pos), FALSE, t.day)]
           ready == t.ready \o ended
<1>0. /\ t.current = u.current /\ t.before = u.before /\ t.future = u.future
      /\ t.ready = u.ready /\ t.day = u.day /\ Keys(t) = Keys(u)
      /\ IsFiniteSet(Keys(t)) /\ IsSeq(t.ready)
  BY LikeFields
<1>1. Leftover(u) = rows
  BY <1>0 DEF Leftover
<1>2. IsSeq(rows)
  BY <1>0, LeftoverSeq
<1>3. IsSeq(ended)
  <2> HIDE DEF rows
  <2>1. Len(rows) \in Nat /\ DOMAIN rows = 1..Len(rows)
    BY <1>2, AppendFacts
  <2> DEFINE S == {Closed(Touch(rows[i], pos), FALSE, t.day) : i \in DOMAIN rows}
  <2>2. ended \in [1..Len(rows) -> S]
    BY <2>1
  <2> HIDE DEF ended, S
  <2>3. ended \in Seq(S)
    BY <2>1, <2>2, SeqDef
  <2> QED
    BY <2>3 DEF IsSeq
<1>4. IsSeq(ready)
  <2> HIDE DEF ended
  <2> QED
    BY <1>0, <1>3, ConcatSeq
<1>5. /\ FinishAll(t, pos) = [t EXCEPT !.ready = ready, !.current = EmptyRow,
                                       !.before = EmptyRow, !.future = <<>>, !.key = None]
      /\ FinishAll(u, pos) = [u EXCEPT !.ready = ready, !.current = EmptyRow,
                                       !.before = EmptyRow, !.future = <<>>, !.key = None]
  <2> HIDE DEF rows
  <2> QED
    BY <1>0, <1>1 DEF FinishAll, rows, Like, TeleForm, TeleFields
<1> HIDE DEF ready
<1>6. IsFiniteSet(DOMAIN <<>>)
  <2>1. DOMAIN <<>> = {}
    OBVIOUS
  <2> QED
    BY <2>1, FS_EmptySet
<1>7. Like([t EXCEPT !.ready = ready, !.current = EmptyRow, !.before = EmptyRow,
                     !.future = <<>>, !.key = None],
           [u EXCEPT !.ready = ready, !.current = EmptyRow, !.before = EmptyRow,
                     !.future = <<>>, !.key = None])
  BY <1>4, <1>6, LikeFinished
<1> QED
  BY <1>5, <1>7 DEF Like, TeleForm, TeleFields

LEMMA RaisedLike ==
  ASSUME NEW t, NEW u, Like(t, u)
  PROVE  Raised(t) = Raised(u) /\ Load(t) = Load(u)
BY LikeFields DEF Raised, Load

\* The two look at the size together, or the limit is not exceeded.
LEMMA BoundLike ==
  ASSUME NEW t, NEW u, Like(t, u), BoundEvery = 1 \/ ~(Load(t) > MaxItems), NEW pos
  PROVE  /\ Like(Bound(t, pos), Bound(u, pos))
         /\ BoundEvery = 1 => Bound(t, pos).updates = 0
<1> DEFINE tl == [t EXCEPT !.updates = 0]  ul == [u EXCEPT !.updates = 0]
<1>1. Like(tl, ul) /\ Like(tl, tl) /\ tl.updates = 0
  <2>1. Like(t, t)
    BY DEF Like
  <2>2. tl.updates = 0
    BY DEF Like, TeleForm, TeleFields
  <2> QED
    BY <2>1, <2>2, LikeLooked
<1> HIDE DEF tl, ul
<1>2. CASE BoundEvery = 1
  <2>1. t = u /\ t.updates \in Nat
    BY <1>2 DEF Like, TeleForm
  <2>2. CASE t.updates < BoundEvery
    <3>1. Bound(t, pos) = t /\ t.updates = 0
      BY <1>2, <2>1, <2>2 DEF Bound
    <3> QED
      BY <2>1, <3>1
  <2>3. CASE ~(t.updates < BoundEvery)
    <3>1. Bound(t, pos) = IF Load(t) > MaxItems THEN FinishAll(tl, pos) ELSE tl
      BY <2>3 DEF Bound, tl
    <3>2. Like(FinishAll(tl, pos), FinishAll(tl, pos)) /\ FinishAll(tl, pos).updates = 0
      BY <1>1, FinishLike
    <3> QED
      BY <1>1, <2>1, <3>1, <3>2
  <2> QED
    BY <2>2, <2>3
<1>3. CASE BoundEvery # 1
  <2>1. ~(Load(t) > MaxItems) /\ ~(Load(u) > MaxItems)
    BY <1>3, RaisedLike
  <2>2. Bound(t, pos) \in {t, tl} /\ Bound(u, pos) \in {u, ul}
    BY <2>1 DEF Bound, tl, ul
  <2>3. Like(t, ul) /\ Like(tl, u)
    BY <1>3 DEF Like, TeleForm, TeleFields, IsFcn, tl, ul
  <2> QED
    BY <1>1, <1>3, <2>2, <2>3
<1> QED
  BY <1>2, <1>3

(***************************************************************************)
(* The reader: its stages make readers that are alike alike.               *)
(***************************************************************************)

Shared == ReaderFields \ {"tele", "pos", "pendingStart", "reportedTail"}
PosFields == {"anchor", "index"}
OutFields == {"events", "bits", "epochs", "rows"}
LastFields == {"navigation", "observation"}

PosForm(pos) == IsFcn(pos) /\ DOMAIN pos = PosFields

\* All but the index of the last frame, what a declared end reported, and the
\* start of a group that is not there.
Alike(r, q) ==
    /\ DOMAIN r = ReaderFields /\ DOMAIN q = ReaderFields
    /\ \A x \in Shared : r[x] = q[x]
    /\ Like(r.tele, q.tele)
    /\ r.pending # None => r.pendingStart = q.pendingStart
    /\ PosForm(r.pos) /\ PosForm(q.pos) /\ r.pos.anchor = q.pos.anchor
    /\ IsFcn(r.out) /\ DOMAIN r.out = OutFields /\ IsSeq(r.out.rows)
    /\ IsFcn(r.last) /\ DOMAIN r.last = LastFields

\* Two readers in the middle of a frame.
Twin(r, q) == Alike(r, q) /\ r.pos = q.pos

LEMMA TwinFields ==
  ASSUME NEW r, NEW q, Alike(r, q)
  PROVE  /\ r.clock = q.clock /\ r.next = q.next /\ r.closure = q.closure
         /\ r.navConflict = q.navConflict /\ r.last = q.last /\ r.cadence = q.cadence
         /\ r.pending = q.pending /\ r.extras = q.extras /\ r.failed = q.failed
         /\ r.hasMeasurements = q.hasMeasurements /\ r.out = q.out /\ Like(r.tele, q.tele)
BY DEF Alike, Shared, ReaderFields

LEMMA EventTwin ==
  ASSUME NEW r, NEW q, Twin(r, q), NEW n, NEW kind, NEW scope, NEW t, NEW detail
  PROVE  LET p == Event(r, n, kind, scope, t, detail)
             s == Event(q, n, kind, scope, t, detail)
         IN  Twin(p, s) /\ p.pendingStart = r.pendingStart /\ s.pendingStart = q.pendingStart
<1> DEFINE e == [n |-> n, kind |-> kind, scope |-> scope, t |-> t, detail |-> detail, at |-> r.pos,
                 day |-> IF t = None THEN r.clock.archiveDay ELSE t \div DayLength]
           ev == Append(r.out.events, e)
           p == Event(r, n, kind, scope, t, detail)
           s == Event(q, n, kind, scope, t, detail)
<1>1. p = [r EXCEPT !.out.events = ev] /\ s = [q EXCEPT !.out.events = ev]
  <2>1. p = [r EXCEPT !.out.events = ev]
    BY DEF Event, Twin, Alike, ReaderFields
  <2> DEFINE d == [n |-> n, kind |-> kind, scope |-> scope, t |-> t, detail |-> detail, at |-> q.pos,
                   day |-> IF t = None THEN q.clock.archiveDay ELSE t \div DayLength]
  <2>2. s = [q EXCEPT !.out.events = Append(q.out.events, d)]
    BY DEF Event, Twin, Alike, ReaderFields
  <2>3. d = e /\ q.out = r.out
    BY TwinFields DEF Twin
  <2> HIDE DEF d, e, s
  <2>4. [q EXCEPT !.out.events = Append(q.out.events, d)] = [q EXCEPT !.out.events = ev]
    BY <2>3
  <2> QED
    BY <2>1, <2>2, <2>4
<1> HIDE DEF ev, p, s
<1>2. /\ DOMAIN p = ReaderFields /\ DOMAIN s = ReaderFields
      /\ \A x \in ReaderFields \ {"out"} : p[x] = r[x] /\ s[x] = q[x]
      /\ p.out = [r.out EXCEPT !.events = ev] /\ s.out = [q.out EXCEPT !.events = ev]
  BY <1>1 DEF Twin, Alike, ReaderFields
<1>3. p.out = s.out /\ IsFcn(p.out) /\ DOMAIN p.out = OutFields /\ p.out.rows = r.out.rows
  BY <1>2, TwinFields DEF Twin, Alike, IsFcn, OutFields
<1>4. Twin(p, s)
  BY <1>2, <1>3 DEF Twin, Alike, Shared, ReaderFields
<1> QED
  BY <1>2, <1>4 DEF p, s, ReaderFields

LEMMA LocateTwin ==
  ASSUME NEW r, NEW q, Alike(r, q), NEW f PROVE Twin(Locate(r, f), Locate(q, f))
<1> DEFINE moved == /\ f.kind \in Navigation /\ f.t # None
                    /\ r.pos.anchor = None \/ f.t > r.pos.anchor
           fresh == [anchor |-> f.t, index |-> 0]
           here == [r.pos EXCEPT !.index = r.next]
           p == Locate(r, f)
           s == Locate(q, f)
<1>1. r.pos.anchor = q.pos.anchor /\ r.next = q.next
  BY TwinFields DEF Alike
<1>2. [q.pos EXCEPT !.index = r.next] = here /\ PosForm(here) /\ here.anchor = r.pos.anchor
  BY DEF Alike, PosForm, PosFields, IsFcn
<1>3. CASE moved
  <2>1. p = [r EXCEPT !.pos = fresh, !.next = 1] /\ s = [q EXCEPT !.pos = fresh, !.next = 1]
    BY <1>1, <1>3 DEF Locate
  <2>2. PosForm(fresh)
    BY DEF PosForm, PosFields, IsFcn
  <2> HIDE DEF fresh, p, s
  <2>3. Twin(p, s)
    BY <2>1, <2>2 DEF Twin, Alike, Shared, ReaderFields
  <2> QED
    BY <2>3 DEF p, s
<1>4. CASE ~moved
  <2>1. /\ p = [r EXCEPT !.pos = here, !.next = r.next + 1]
        /\ s = [q EXCEPT !.pos = here, !.next = r.next + 1]
    BY <1>1, <1>2, <1>4 DEF Locate, Alike, ReaderFields
  <2> HIDE DEF here, p, s
  <2>2. Twin(p, s)
    BY <1>2, <2>1 DEF Twin, Alike, Shared, ReaderFields
  <2> QED
    BY <2>2 DEF p, s
<1> QED
  BY <1>3, <1>4

LEMMA NavigationBlockTwin ==
  ASSUME NEW r, NEW q, Twin(r, q), NEW f
  PROVE  LET p == NavigationBlock(r, f)  s == NavigationBlock(q, f)
         IN  Twin(p, s)
<1> DEFINE Reversed(x) == f.t # None /\ x.last.navigation # None /\ f.t < x.last.navigation
           Dated(x) == IF f.t = None THEN x ELSE [x EXCEPT !.last.navigation = f.t]
           Marked(x) == IF f.kind = "TIMEGPS"
                          THEN [Dated(x) EXCEPT !.closure = f.t, !.navConflict = f.t = None]
                          ELSE Dated(x)
           Noted(x) == IF Reversed(x)
                        THEN [Event(Marked(x), f.n, "TIME_REVERSAL", "NAVIGATION", f.t, None)
                                EXCEPT !.clock.progress = None]
                        ELSE Marked(x)
<1>1. /\ NavigationBlock(r, f) = [Noted(r) EXCEPT !.clock = SetNavigation(@, f.t)]
      /\ NavigationBlock(q, f) = [Noted(q) EXCEPT !.clock = SetNavigation(@, f.t)]
  BY DEF NavigationBlock
<1>2. Twin(Dated(r), Dated(q))
  <2>1. CASE f.t = None
    BY <2>1
  <2>2. CASE f.t # None
    <3> DEFINE d == [r EXCEPT !.last.navigation = f.t]  e == [q EXCEPT !.last.navigation = f.t]
    <3>1. /\ DOMAIN d = ReaderFields /\ DOMAIN e = ReaderFields
          /\ \A x \in ReaderFields \ {"last"} : d[x] = r[x] /\ e[x] = q[x]
          /\ d.last = [r.last EXCEPT !.navigation = f.t] /\ e.last = d.last
      BY TwinFields DEF Twin, Alike, ReaderFields
    <3>2. IsFcn(d.last) /\ DOMAIN d.last = LastFields
      BY <3>1 DEF Twin, Alike, IsFcn
    <3> HIDE DEF d, e
    <3>3. Twin(d, e)
      BY <3>1, <3>2 DEF Twin, Alike, Shared, ReaderFields
    <3> QED
      BY <2>2, <3>3 DEF d, e
  <2> QED
    BY <2>1, <2>2
<1>3. Twin(Marked(r), Marked(q))
  <2> HIDE DEF Dated
  <2> DEFINE invalid == f.t = None
             d == [Dated(r) EXCEPT !.closure = f.t, !.navConflict = invalid]
             e == [Dated(q) EXCEPT !.closure = f.t, !.navConflict = invalid]
  <2>1. Twin(d, e)
    <3> HIDE DEF invalid
    <3> QED
      BY <1>2 DEF Twin, Alike, Shared, ReaderFields
  <2> QED
    BY <1>2, <2>1
<1>4. Reversed(r) = Reversed(q)
  BY TwinFields DEF Twin
<1>5. Twin(Noted(r), Noted(q))
  <2> HIDE DEF Marked
  <2> DEFINE d == Event(Marked(r), f.n, "TIME_REVERSAL", "NAVIGATION", f.t, None)
             e == Event(Marked(q), f.n, "TIME_REVERSAL", "NAVIGATION", f.t, None)
  <2>1. Twin(d, e)
    BY <1>3, EventTwin
  <2> HIDE DEF d, e
  <2>2. Twin([d EXCEPT !.clock.progress = None], [e EXCEPT !.clock.progress = None])
    <3>1. d.clock = e.clock
      BY <2>1, TwinFields DEF Twin
    <3> QED
      BY <2>1, <3>1 DEF Twin, Alike, Shared, ReaderFields
  <2> HIDE DEF Reversed
  <2> QED
    BY <1>3, <1>4, <2>2 DEF d, e
<1>6. Twin([Noted(r) EXCEPT !.clock = SetNavigation(@, f.t)],
           [Noted(q) EXCEPT !.clock = SetNavigation(@, f.t)])
  <2> HIDE DEF Noted
  <2>1. Noted(r).clock = Noted(q).clock
    BY <1>5, TwinFields DEF Twin
  <2> DEFINE c == SetNavigation(Noted(r).clock, f.t)
  <2>2. /\ [Noted(r) EXCEPT !.clock = SetNavigation(@, f.t)] = [Noted(r) EXCEPT !.clock = c]
        /\ [Noted(q) EXCEPT !.clock = SetNavigation(@, f.t)] = [Noted(q) EXCEPT !.clock = c]
    BY <1>5, <2>1 DEF Twin, Alike, ReaderFields
  <2> HIDE DEF c
  <2>3. Twin([Noted(r) EXCEPT !.clock = c], [Noted(q) EXCEPT !.clock = c])
    BY <1>5 DEF Twin, Alike, Shared, ReaderFields
  <2> QED
    BY <2>2, <2>3
<1> QED
  BY <1>1, <1>6

LEMMA TwinSet ==
  ASSUME NEW r, NEW q, Twin(r, q), NEW a, NEW b
  PROVE  /\ Twin([r EXCEPT !.clock = a], [q EXCEPT !.clock = a])
         /\ Twin([r EXCEPT !.closure = a], [q EXCEPT !.closure = a])
         /\ Twin([r EXCEPT !.closure = a, !.navConflict = b],
                 [q EXCEPT !.closure = a, !.navConflict = b])
<1>1. Twin([r EXCEPT !.clock = a], [q EXCEPT !.clock = a])
  BY DEF Twin, Alike, Shared, ReaderFields
<1>2. Twin([r EXCEPT !.closure = a], [q EXCEPT !.closure = a])
  BY DEF Twin, Alike, Shared, ReaderFields
<1>3. Twin([r EXCEPT !.closure = a, !.navConflict = b], [q EXCEPT !.closure = a, !.navConflict = b])
  BY DEF Twin, Alike, Shared, ReaderFields
<1> QED
  BY <1>1, <1>2, <1>3

LEMMA TwinTele ==
  ASSUME NEW r, NEW q, Twin(r, q), NEW t, NEW u, Like(t, u)
  PROVE  Twin([r EXCEPT !.tele = t], [q EXCEPT !.tele = u])
BY DEF Twin, Alike, Shared, ReaderFields

LEMMA EmitBitsTwin ==
  ASSUME NEW r, NEW q, Twin(r, q), NEW f PROVE Twin(EmitBits(r, f), EmitBits(q, f))
<1> DEFINE b == [n |-> f.n, t |-> Anchor(r.clock), uptime |-> AssociatedUptime(r.clock),
                 at |-> r.pos, day |-> r.clock.archiveDay]
           c == [n |-> f.n, t |-> Anchor(q.clock), uptime |-> AssociatedUptime(q.clock),
                 at |-> q.pos, day |-> q.clock.archiveDay]
           bits == Append(r.out.bits, b)
           p == EmitBits(r, f)
           s == EmitBits(q, f)
<1>1. b = c /\ r.out = q.out
  BY TwinFields DEF Twin
<1>2. p = [r EXCEPT !.out.bits = Append(r.out.bits, b)]
  BY DEF EmitBits, Twin, Alike, ReaderFields
<1>3. s = [q EXCEPT !.out.bits = Append(q.out.bits, c)]
  BY DEF EmitBits, Twin, Alike, ReaderFields
<1> HIDE DEF b, c, p, s
<1>4. /\ DOMAIN p = ReaderFields /\ DOMAIN s = ReaderFields
      /\ \A x \in ReaderFields \ {"out"} : p[x] = r[x] /\ s[x] = q[x]
      /\ p.out = [r.out EXCEPT !.bits = bits] /\ s.out = p.out
  BY <1>1, <1>2, <1>3 DEF Twin, Alike, ReaderFields
<1>5. IsFcn(p.out) /\ DOMAIN p.out = OutFields /\ p.out.rows = r.out.rows
  BY <1>4 DEF Twin, Alike, IsFcn, OutFields
<1>6. Twin(p, s)
  BY <1>4, <1>5 DEF Twin, Alike, Shared, ReaderFields
<1> QED
  BY <1>6 DEF p, s

LEMMA EndOfEpochTwin ==
  ASSUME NEW r, NEW q, Twin(r, q), NEW f PROVE Twin(EndOfEpoch(r, f), EndOfEpoch(q, f))
<1> DEFINE Known(x) == x.closure # None /\ ~x.navConflict /\ Tow(x.closure) = f.t
           Noted(x) == IF Known(x)
                        THEN Event(x, f.n, "EPOCH_COMPLETION", "NAVIGATION", x.closure, "COMPLETE")
                        ELSE Event(x, f.n, "EPOCH_COMPLETION", "NAVIGATION", None, "UNKNOWN")
<1>1. /\ EndOfEpoch(r, f) = [Noted(r) EXCEPT !.closure = None, !.navConflict = FALSE]
      /\ EndOfEpoch(q, f) = [Noted(q) EXCEPT !.closure = None, !.navConflict = FALSE]
  BY DEF EndOfEpoch
<1>2. Known(r) = Known(q) /\ r.closure = q.closure
  BY TwinFields DEF Twin
<1>3. Twin(Noted(r), Noted(q))
  <2> HIDE DEF Known
  <2> QED
    BY <1>2, EventTwin
<1> HIDE DEF Noted
<1>4. Twin([Noted(r) EXCEPT !.closure = None, !.navConflict = FALSE],
           [Noted(q) EXCEPT !.closure = None, !.navConflict = FALSE])
  BY <1>3, TwinSet
<1> QED
  BY <1>1, <1>4

LEMMA NavigateTwin ==
  ASSUME NEW r, NEW q, Twin(r, q), NEW f PROVE Twin(Navigate(r, f), Navigate(q, f))
<1>1. Twin(NavigationBlock(r, f), NavigationBlock(q, f))
  BY NavigationBlockTwin
<1>2. Twin(EmitBits(r, f), EmitBits(q, f))
  BY EmitBitsTwin
<1>3. Twin(EndOfEpoch(r, f), EndOfEpoch(q, f))
  BY EndOfEpochTwin
<1>4. Twin([r EXCEPT !.clock = Advance(@, f.t)], [q EXCEPT !.clock = Advance(@, f.t)])
  <2> DEFINE c == Advance(r.clock, f.t)
  <2>1. /\ [r EXCEPT !.clock = Advance(@, f.t)] = [r EXCEPT !.clock = c]
        /\ [q EXCEPT !.clock = Advance(@, f.t)] = [q EXCEPT !.clock = c]
    BY TwinFields DEF Twin, Alike, ReaderFields
  <2> HIDE DEF c
  <2>2. Twin([r EXCEPT !.clock = c], [q EXCEPT !.clock = c])
    BY TwinSet
  <2> QED
    BY <2>1, <2>2
<1>5. CASE f.kind \in Measurement
  BY <1>4, <1>5 DEF Navigate, Measurement, Navigation, BitsKinds
<1>6. CASE f.kind \in Navigation
  BY <1>1, <1>6 DEF Navigate, Measurement, Navigation, BitsKinds
<1>7. CASE f.kind \in BitsKinds
  BY <1>2, <1>7 DEF Navigate, Measurement, Navigation, BitsKinds
<1>8. CASE f.kind = "EOE"
  BY <1>3, <1>8 DEF Navigate, Measurement, Navigation, BitsKinds
<1>9. CASE f.kind \notin Measurement \cup Navigation \cup BitsKinds \cup {"EOE"}
  BY <1>9 DEF Navigate
<1> QED
  BY <1>5, <1>6, <1>7, <1>8, <1>9

LEMMA AssembleTwin ==
  ASSUME NEW r, NEW q, Twin(r, q), NEW f PROVE Twin(Assemble(r, f), Assemble(q, f))
<1> DEFINE Ta(x) == [x.tele EXCEPT !.ubx = f.kind \in Ubx]
           Key(x) == CASE f.kind = "NAVPVT" -> f.t
                       [] f.kind = "PVT" -> IF f.t = None THEN DoNotUse ELSE f.t
                       [] OTHER -> Ta(x).key
           Opened(x) == IF Key(x) = Ta(x).key THEN Ta(x)
                        ELSE Open(Ta(x), Key(x), f.n, x.pos, x.clock.archiveDay)
           Done(x) == CASE f.t = None -> Opened(x)
                        [] f.kind = "TIMEGPS" -> Stamp(Opened(x), Tow(f.t), x.clock.navigation)
                        [] f.kind = "PVT" -> Stamp(Opened(x), f.t, x.clock.navigation)
                        [] OTHER -> Opened(x)
<1>1. Assemble(r, f) = [r EXCEPT !.tele = Done(r)] /\ Assemble(q, f) = [q EXCEPT !.tele = Done(q)]
  BY DEF Assemble
<1>2. Like(Ta(r), Ta(q))
  <2> DEFINE ubx == f.kind \in Ubx
  <2>1. Like(r.tele, q.tele)
    BY TwinFields DEF Twin
  <2> HIDE DEF ubx
  <2> QED
    BY <2>1, LikeProtocol
<1> HIDE DEF Ta
<1>3. Key(r) = Key(q) /\ Ta(r).key = Ta(q).key
  BY <1>2, LikeFields
<1>4. r.pos = q.pos /\ r.clock = q.clock
  BY TwinFields DEF Twin
<1>5. Like(Opened(r), Opened(q))
  <2> HIDE DEF Key
  <2> QED
    BY <1>2, <1>3, <1>4, OpenLike
<1> HIDE DEF Opened
<1>6. Like(Done(r), Done(q))
  BY <1>4, <1>5, StampLike
<1> HIDE DEF Done
<1> QED
  BY <1>1, <1>6, TwinTele

LEMMA RestartTwin ==
  ASSUME NEW r, NEW q, Twin(r, q), NEW n, NEW reason, NEW sample
  PROVE  Twin(Restart(r, n, reason, sample), Restart(q, n, reason, sample))
<1> DEFINE p == [r EXCEPT !.closure = None]  s == [q EXCEPT !.closure = None]
<1>1. Twin(p, s)
  BY TwinSet
<1> HIDE DEF p, s
<1>2. Twin(Event(p, n, "RECEIVER_RESTART", "RECEIVER", sample, reason),
           Event(s, n, "RECEIVER_RESTART", "RECEIVER", sample, reason))
  BY <1>1, EventTwin
<1> QED
  BY <1>2 DEF Restart, p, s

LEMMA ReportTwin ==
  ASSUME NEW r, NEW q, Twin(r, q), NEW c, NEW n, NEW up, NEW sample, NEW direct
  PROVE  Twin(Reported(r, c, n, up, sample, direct), Reported(q, c, n, up, sample, direct))
<1> DEFINE d == ReportUptime(c, up, sample, direct)
           p == [r EXCEPT !.clock = d]  s == [q EXCEPT !.clock = d]
<1> HIDE DEF d
<1>1. Twin(p, s)
  BY TwinSet
<1> HIDE DEF p, s
<1> QED
  BY <1>1, RestartTwin DEF Reported, p, s, d

LEMMA PairTwin ==
  ASSUME NEW r, NEW q, Twin(r, q), NEW f PROVE Twin(Pair(r, f), Pair(q, f))
<1> DEFINE up == r.tele.current.uptime
           sample == r.clock.navigation
           reason == RestartReason(r.clock, up, sample, TRUE)
           p == Reported(r, r.clock, f.n, up, sample, TRUE)
           s == Reported(q, r.clock, f.n, up, sample, TRUE)
           none == f.kind # "TIMEGPS" \/ up = None \/ r.tele.current.gpst = None
<1>1. r.clock = q.clock /\ r.tele.current = q.tele.current
  BY TwinFields, LikeFields DEF Twin
<1>2. /\ Pair(r, f) = IF none THEN r ELSE IF reason = "none" THEN p
                      ELSE [p EXCEPT !.clock = SetNavigation(@, sample)]
      /\ Pair(q, f) = IF none THEN q ELSE IF reason = "none" THEN s
                      ELSE [s EXCEPT !.clock = SetNavigation(@, sample)]
  BY <1>1 DEF Pair, Reported
<1>3. Twin(p, s)
  BY ReportTwin
<1> HIDE DEF p, s, none, reason
<1>4. Twin([p EXCEPT !.clock = SetNavigation(@, sample)],
           [s EXCEPT !.clock = SetNavigation(@, sample)])
  <2> DEFINE c == SetNavigation(p.clock, sample)
  <2>1. /\ [p EXCEPT !.clock = SetNavigation(@, sample)] = [p EXCEPT !.clock = c]
        /\ [s EXCEPT !.clock = SetNavigation(@, sample)] = [s EXCEPT !.clock = c]
    BY <1>3, TwinFields DEF Twin, Alike, ReaderFields
  <2> HIDE DEF c
  <2>2. Twin([p EXCEPT !.clock = c], [s EXCEPT !.clock = c])
    BY <1>3, TwinSet
  <2> QED
    BY <2>1, <2>2
<1> QED
  BY <1>2, <1>3, <1>4

LEMMA ReceiverStatusTwin ==
  ASSUME NEW r, NEW q, Twin(r, q), NEW f
  PROVE  Twin(ReceiverStatus(r, f), ReceiverStatus(q, f))
<1> DEFINE sample == IF f.kind = "STATUS" THEN f.t ELSE None
           direct == f.kind = "STATUS"
           clock == IF sample = None THEN r.clock ELSE Advance(r.clock, sample)
           p == Reported(r, clock, f.n, f.v, sample, direct)
           s == Reported(q, clock, f.n, f.v, sample, direct)
<1>1. r.clock = q.clock
  BY TwinFields DEF Twin
<1>2. /\ ReceiverStatus(r, f) = IF f.kind \notin Uptime THEN r
                                ELSE [p EXCEPT !.tele = StatusReport(@, sample, f.v, f.n, r.pos)]
      /\ ReceiverStatus(q, f) = IF f.kind \notin Uptime THEN q
                                ELSE [s EXCEPT !.tele = StatusReport(@, sample, f.v, f.n, q.pos)]
  BY <1>1 DEF ReceiverStatus, Reported
<1>3. Twin(p, s) /\ r.pos = q.pos
  BY ReportTwin DEF Twin
<1> HIDE DEF p, s, sample
<1>4. Like(StatusReport(p.tele, sample, f.v, f.n, r.pos), StatusReport(s.tele, sample, f.v, f.n, r.pos))
  BY <1>3, TwinFields, ReportLike DEF Twin
<1> DEFINE t == StatusReport(p.tele, sample, f.v, f.n, r.pos)
           u == StatusReport(s.tele, sample, f.v, f.n, r.pos)
<1>5. /\ [p EXCEPT !.tele = StatusReport(@, sample, f.v, f.n, r.pos)] = [p EXCEPT !.tele = t]
      /\ [s EXCEPT !.tele = StatusReport(@, sample, f.v, f.n, q.pos)] = [s EXCEPT !.tele = u]
  BY <1>3 DEF Twin, Alike, ReaderFields
<1>6. Twin([p EXCEPT !.tele = t], [s EXCEPT !.tele = u])
  <2> HIDE DEF t, u
  <2> QED
    BY <1>3, <1>4, TwinTele DEF t, u
<1> QED
  BY <1>2, <1>5, <1>6

LEMMA EstimatesTwin ==
  ASSUME NEW r, NEW q, Twin(r, q), NEW f PROVE Twin(Estimates(r, f), Estimates(q, f))
<1> DEFINE Ta(x) ==
             CASE f.kind \in {"TIMTP", "PPS"} -> PulseReport(x.tele, f.t, f.n, x.pos)
               [] f.kind = "NAVCLOCK" -> ClockReport(x.tele, None, f.v, f.n, x.pos)
               [] f.kind = "PVT" -> ClockReport(x.tele, f.t, f.v, f.n, x.pos)
               [] f.kind \in Measurement -> MeasurementClock(x.tele, f.t, f.n, x.pos)
               [] OTHER -> x.tele
<1>1. Estimates(r, f) = [r EXCEPT !.tele = Ta(r)] /\ Estimates(q, f) = [q EXCEPT !.tele = Ta(q)]
  BY DEF Estimates
<1>2. Like(r.tele, q.tele) /\ r.pos = q.pos
  BY TwinFields DEF Twin
<1>3. Like(Ta(r), Ta(q))
  <2>1. /\ Like(PulseReport(r.tele, f.t, f.n, r.pos), PulseReport(q.tele, f.t, f.n, r.pos))
        /\ \A t : Like(ClockReport(r.tele, t, f.v, f.n, r.pos), ClockReport(q.tele, t, f.v, f.n, r.pos))
        /\ Like(MeasurementClock(r.tele, f.t, f.n, r.pos), MeasurementClock(q.tele, f.t, f.n, r.pos))
    BY <1>2, ReportLike
  <2> QED
    BY <1>2, <2>1 DEF Measurement
<1> HIDE DEF Ta
<1> QED
  BY <1>1, <1>3, TwinTele

LEMMA LimitTwin ==
  ASSUME NEW r, NEW q, Twin(r, q), BoundEvery = 1 \/ ~(Load(r.tele) > MaxItems)
  PROVE  Twin(Limit(r), Limit(q)) /\ (BoundEvery = 1 => Limit(r).tele.updates = 0)
<1> DEFINE t == Bound(r.tele, r.pos)  u == Bound(q.tele, r.pos)
<1>1. /\ Limit(r) = [r EXCEPT !.tele = t] /\ Limit(q) = [q EXCEPT !.tele = u]
      /\ Limit(r).tele = t
  BY DEF Limit, Twin, Alike, ReaderFields
<1>2. Like(t, u) /\ (BoundEvery = 1 => t.updates = 0)
  BY BoundLike, TwinFields DEF Twin
<1> HIDE DEF t, u
<1> QED
  BY <1>1, <1>2, TwinTele

(***************************************************************************)
(* The group of readers that are alike.                                    *)
(***************************************************************************)

LEMMA ClassifyTwin ==
  ASSUME NEW r, NEW q, Twin(r, q), NEW n, NEW t PROVE Twin(Classify(r, n, t), Classify(q, n, t))
<1> DEFINE interval == t - r.cadence.last
           kind == CadenceKind(interval, Expected(r.cadence.window))
           Noted(x) == IF kind = "regular" THEN x
                      ELSE Event(x, n, kind, "OBSERVATION", t, None)
           window == Append(r.cadence.window, interval)
           kept == IF Len(window) > Capacity THEN Tail(window) ELSE window
           After(x) == IF r.cadence.last = None THEN x
                       ELSE IF interval > 0 THEN [Noted(x) EXCEPT !.cadence.window = kept]
                       ELSE Noted(x)
<1>1. r.cadence = q.cadence
  BY TwinFields DEF Twin
<1>2. Classify(r, n, t) = After(r) /\ Classify(q, n, t) = After(q)
  BY <1>1 DEF Classify
<1> HIDE DEF kind, kept
<1>3. Twin(Noted(r), Noted(q))
  BY EventTwin
<1> HIDE DEF Noted, interval
<1>4. Twin([Noted(r) EXCEPT !.cadence.window = kept], [Noted(q) EXCEPT !.cadence.window = kept])
  <2>1. Noted(r).cadence = Noted(q).cadence
    BY <1>3, TwinFields DEF Twin
  <2> QED
    BY <1>3, <2>1 DEF Twin, Alike, Shared, ReaderFields
<1> QED
  BY <1>2, <1>3, <1>4

LEMMA EmitTwin ==
  ASSUME NEW r, NEW q, Twin(r, q), NEW n, NEW t, NEW rows, NEW extras
  PROVE  Twin(Emit(r, n, t, rows, extras), Emit(q, n, t, rows, extras))
<1> DEFINE a == Classify(r, n, t)  b == Classify(q, n, t)
           c == [a EXCEPT !.cadence.last = t]  d == [b EXCEPT !.cadence.last = t]
           p == Event(c, n, "EPOCH_COMPLETION", "OBSERVATION", t, "COMPLETE")
           s == Event(d, n, "EPOCH_COMPLETION", "OBSERVATION", t, "COMPLETE")
           e == [n |-> n, t |-> t, rows |-> rows, extras |-> extras]
<1>1. /\ Emit(r, n, t, rows, extras) = IF t = None THEN r
                                       ELSE [p EXCEPT !.out.epochs = Append(@, e)]
      /\ Emit(q, n, t, rows, extras) = IF t = None THEN q
                                       ELSE [s EXCEPT !.out.epochs = Append(@, e)]
  BY DEF Emit
<1>2. Twin(a, b)
  BY ClassifyTwin
<1> HIDE DEF a, b
<1>3. Twin(c, d)
  <2>1. a.cadence = b.cadence
    BY <1>2, TwinFields DEF Twin
  <2> QED
    BY <1>2, <2>1 DEF Twin, Alike, Shared, ReaderFields
<1> HIDE DEF c, d
<1>4. Twin(p, s)
  BY <1>3, EventTwin
<1> HIDE DEF p, s, e
<1>5. Twin([p EXCEPT !.out.epochs = Append(@, e)], [s EXCEPT !.out.epochs = Append(@, e)])
  <2> DEFINE ep == Append(p.out.epochs, e)
             x == [p EXCEPT !.out.epochs = Append(@, e)]
             y == [s EXCEPT !.out.epochs = Append(@, e)]
  <2>1. p.out = s.out
    BY <1>4, TwinFields DEF Twin
  <2>2. x = [p EXCEPT !.out.epochs = ep] /\ y = [s EXCEPT !.out.epochs = ep]
    BY <1>4, <2>1 DEF Twin, Alike, ReaderFields
  <2> HIDE DEF ep, x, y
  <2>3. /\ DOMAIN x = ReaderFields /\ DOMAIN y = ReaderFields
        /\ \A z \in ReaderFields \ {"out"} : x[z] = p[z] /\ y[z] = s[z]
        /\ x.out = [p.out EXCEPT !.epochs = ep] /\ y.out = x.out
    BY <1>4, <2>1, <2>2 DEF Twin, Alike, ReaderFields
  <2>4. IsFcn(x.out) /\ DOMAIN x.out = OutFields /\ x.out.rows = p.out.rows
    BY <1>4, <2>3 DEF Twin, Alike, IsFcn, OutFields
  <2>5. Twin(x, y)
    BY <1>4, <2>3, <2>4 DEF Twin, Alike, Shared, ReaderFields
  <2> QED
    BY <2>5 DEF x, y
<1> QED
  BY <1>1, <1>5

LEMMA GroupSet ==
  ASSUME NEW r, NEW q, Twin(r, q), NEW a, NEW b, NEW c, NEW d
  PROVE  /\ Twin([r EXCEPT !.pending = a, !.pendingStart = b, !.extras = c, !.hasMeasurements = d],
                 [q EXCEPT !.pending = a, !.pendingStart = b, !.extras = c, !.hasMeasurements = d])
         /\ Twin([r EXCEPT !.pending = None, !.extras = {}, !.hasMeasurements = FALSE],
                 [q EXCEPT !.pending = None, !.extras = {}, !.hasMeasurements = FALSE])
         /\ Twin([r EXCEPT !.extras = c], [q EXCEPT !.extras = c])
         /\ Twin([r EXCEPT !.failed = d], [q EXCEPT !.failed = d])
<1>1. Twin([r EXCEPT !.pending = a, !.pendingStart = b, !.extras = c, !.hasMeasurements = d],
           [q EXCEPT !.pending = a, !.pendingStart = b, !.extras = c, !.hasMeasurements = d])
  BY DEF Twin, Alike, Shared, ReaderFields
<1>2. Twin([r EXCEPT !.pending = None, !.extras = {}, !.hasMeasurements = FALSE],
           [q EXCEPT !.pending = None, !.extras = {}, !.hasMeasurements = FALSE])
  BY DEF Twin, Alike, Shared, ReaderFields
<1>3. Twin([r EXCEPT !.extras = c], [q EXCEPT !.extras = c])
  BY DEF Twin, Alike, Shared, ReaderFields
<1>4. Twin([r EXCEPT !.failed = d], [q EXCEPT !.failed = d])
  BY DEF Twin, Alike, Shared, ReaderFields
<1> QED
  BY <1>1, <1>2, <1>3, <1>4

LEMMA IncompleteTwin ==
  ASSUME NEW r, NEW q, Twin(r, q), NEW n, NEW basis
  PROVE  /\ Twin(Incomplete(r, n, basis), Incomplete(q, n, basis))
         /\ Incomplete(r, n, basis).pendingStart = r.pendingStart
         /\ Incomplete(q, n, basis).pendingStart = q.pendingStart
<1>1. r.pending = q.pending
  BY TwinFields DEF Twin
<1> QED
  BY <1>1, EventTwin DEF Incomplete

LEMMA AdoptTwin ==
  ASSUME NEW r, NEW q, Twin(r, q), NEW f
  PROVE  /\ Twin(Adopt(r, f), Adopt(q, f))
         /\ Adopt(r, f).pendingStart = Adopt(q, f).pendingStart
<1> DEFINE Noted(x) == IF r.hasMeasurements THEN Incomplete(x, f.n, "SUPERSEDED") ELSE x
           fresh == [t |-> f.t, rows |-> {}, counter |-> None]
           Fresh(x) == [Noted(x) EXCEPT !.pending = fresh,
                                       !.pendingStart = f.n, !.extras = {}, !.hasMeasurements = FALSE]
<1>1. /\ Adopt(r, f) = IF r.pending # None /\ r.pending.t = f.t THEN r ELSE Fresh(r)
      /\ Adopt(q, f) = IF r.pending # None /\ r.pending.t = f.t THEN q ELSE Fresh(q)
  <2>1. q.pending = r.pending /\ q.hasMeasurements = r.hasMeasurements
    BY TwinFields DEF Twin
  <2>2. Adopt(r, f) = IF r.pending # None /\ r.pending.t = f.t THEN r ELSE Fresh(r)
    BY Zenon DEF Adopt
  <2>3. Adopt(q, f) = IF q.pending # None /\ q.pending.t = f.t THEN q
                      ELSE [(IF q.hasMeasurements THEN Incomplete(q, f.n, "SUPERSEDED") ELSE q)
                              EXCEPT !.pending = fresh, !.pendingStart = f.n, !.extras = {},
                                     !.hasMeasurements = FALSE]
    BY Zenon DEF Adopt
  <2> HIDE DEF fresh
  <2>4. Adopt(q, f) = IF r.pending # None /\ r.pending.t = f.t THEN q ELSE Fresh(q)
    BY <2>1, <2>3, Zenon
  <2> QED
    BY <2>2, <2>4
<1>2. Twin(Noted(r), Noted(q))
  BY IncompleteTwin
<1>3. r.pending # None => r.pendingStart = q.pendingStart
  BY DEF Twin, Alike
<1> HIDE DEF Noted, fresh
<1>4. Twin(Fresh(r), Fresh(q))
  BY <1>2, GroupSet
<1>5. Fresh(r).pendingStart = f.n /\ Fresh(q).pendingStart = f.n
  BY <1>2 DEF Twin, Alike, ReaderFields
<1> HIDE DEF Fresh
<1> QED
  BY <1>1, <1>3, <1>4, <1>5

LEMMA AddTwin ==
  ASSUME NEW r, NEW q, Twin(r, q), r.pendingStart = q.pendingStart, NEW f
  PROVE  Twin(AddMeasurements(r, f), AddMeasurements(q, f))
<1> DEFINE w == [r.pending EXCEPT !.rows = @ \cup {f.n}, !.counter = f.v]
           New(x) == [x EXCEPT !.pending = w, !.hasMeasurements = TRUE]
           Old(x) == [x EXCEPT !.pending.rows = @ \cup {f.n}, !.pending.counter = f.v,
                               !.hasMeasurements = TRUE]
           Bad(x) == [x EXCEPT !.failed = TRUE]
<1>0. r.pending = q.pending
  BY TwinFields DEF Twin
<1>1. /\ AddMeasurements(r, f) = IF Conflicts(r.pending.counter, f.v) THEN Bad(r) ELSE Old(r)
      /\ AddMeasurements(q, f) = IF Conflicts(r.pending.counter, f.v) THEN Bad(q) ELSE Old(q)
  BY <1>0 DEF AddMeasurements
<1>2. Old(r) = New(r) /\ Old(q) = New(q)
  BY <1>0 DEF Twin, Alike, ReaderFields
<1> HIDE DEF w, Old
<1>3. Twin(New(r), New(q))
  BY DEF Twin, Alike, Shared, ReaderFields
<1>4. Twin(Bad(r), Bad(q))
  BY GroupSet
<1> HIDE DEF New, Bad
<1> QED
  BY <1>1, <1>2, <1>3, <1>4

LEMMA CloseTwin ==
  ASSUME NEW r, NEW q, Twin(r, q), NEW f
  PROVE  Twin(CloseGroup(r, f), CloseGroup(q, f))
<1> DEFINE Emitted(x) == IF r.hasMeasurements
                           THEN Emit(x, f.n, f.t, r.pending.rows, r.extras) ELSE x
           After(x) == [Emitted(x) EXCEPT !.pending = None, !.extras = {}, !.hasMeasurements = FALSE]
<1>0. r.pending = q.pending /\ r.hasMeasurements = q.hasMeasurements /\ r.extras = q.extras
  BY TwinFields DEF Twin
<1>1. /\ CloseGroup(r, f) = IF r.pending = None \/ r.pending.t # f.t THEN r ELSE After(r)
      /\ CloseGroup(q, f) = IF r.pending = None \/ r.pending.t # f.t THEN q ELSE After(q)
  BY <1>0 DEF CloseGroup
<1>2. Twin(Emitted(r), Emitted(q))
  BY EmitTwin
<1> HIDE DEF Emitted
<1>3. Twin(After(r), After(q))
  BY <1>2, GroupSet
<1> HIDE DEF After
<1> QED
  BY <1>1, <1>3

LEMMA GroupTwin ==
  ASSUME NEW r, NEW q, Twin(r, q), NEW f PROVE Twin(Group(r, f), Group(q, f))
<1> DEFINE Dated(x) == IF f.kind \in Measurement /\ f.t # None
                         THEN [x EXCEPT !.last.observation = f.t] ELSE x
<1>1. Twin(Dated(r), Dated(q))
  <2> DEFINE d == [r EXCEPT !.last.observation = f.t]  e == [q EXCEPT !.last.observation = f.t]
  <2>1. /\ DOMAIN d = ReaderFields /\ DOMAIN e = ReaderFields
        /\ \A x \in ReaderFields \ {"last"} : d[x] = r[x] /\ e[x] = q[x]
        /\ d.last = [r.last EXCEPT !.observation = f.t] /\ e.last = d.last
    BY TwinFields DEF Twin, Alike, ReaderFields
  <2>2. IsFcn(d.last) /\ DOMAIN d.last = LastFields
    BY <2>1 DEF Twin, Alike, IsFcn
  <2> HIDE DEF d, e
  <2>3. Twin(d, e)
    BY <2>1, <2>2 DEF Twin, Alike, Shared, ReaderFields
  <2> QED
    BY <2>3 DEF d, e
<1> HIDE DEF Dated
<1>2. CASE f.kind = "EXTRA"
  <2> DEFINE a == Adopt(r, f)  b == Adopt(q, f)
  <2>1. Twin(a, b)
    BY AdoptTwin
  <2>2. Group(r, f) = [a EXCEPT !.extras = @ \cup {f.n}] /\ Group(q, f) = [b EXCEPT !.extras = @ \cup {f.n}]
    BY <1>2 DEF Group
  <2> HIDE DEF a, b
  <2> DEFINE c == a.extras \cup {f.n}
  <2>3. Group(r, f) = [a EXCEPT !.extras = c] /\ Group(q, f) = [b EXCEPT !.extras = c]
    <3>1. a.extras = b.extras
      BY <2>1, TwinFields DEF Twin
    <3>2. Group(r, f) = [a EXCEPT !.extras = a.extras \cup {f.n}]
      BY <2>2
    <3>3. Group(q, f) = [b EXCEPT !.extras = b.extras \cup {f.n}]
      BY <2>2
    <3> QED
      BY <3>1, <3>2, <3>3, Zenon
  <2> HIDE DEF c
  <2>4. Twin([a EXCEPT !.extras = c], [b EXCEPT !.extras = c])
    BY <2>1, GroupSet
  <2> QED
    BY <2>3, <2>4
<1>3. CASE f.kind = "RAWX"
  <2>1. /\ Group(r, f) = Emit(Dated(r), f.n, f.t, {f.n}, {})
        /\ Group(q, f) = Emit(Dated(q), f.n, f.t, {f.n}, {})
    BY <1>3 DEF Group, Dated
  <2> QED
    BY <1>1, <2>1, EmitTwin
<1>4. CASE f.kind = "MEAS"
  <2>1. /\ Group(r, f) = AddMeasurements(Adopt(Dated(r), f), f)
        /\ Group(q, f) = AddMeasurements(Adopt(Dated(q), f), f)
    BY <1>4 DEF Group, Dated
  <2>2. /\ Twin(Adopt(Dated(r), f), Adopt(Dated(q), f))
        /\ Adopt(Dated(r), f).pendingStart = Adopt(Dated(q), f).pendingStart
    BY <1>1, AdoptTwin
  <2> QED
    BY <2>1, <2>2, AddTwin
<1>5. CASE f.kind = "END"
  <2>1. Group(r, f) = CloseGroup(r, f) /\ Group(q, f) = CloseGroup(q, f)
    BY <1>5 DEF Group
  <2> QED
    BY <2>1, CloseTwin
<1>6. CASE f.kind \notin GroupKinds
  BY <1>6, GroupOther
<1> QED
  BY <1>2, <1>3, <1>4, <1>5, <1>6 DEF GroupKinds

LEMMA EmptyIsSeq == ASSUME NEW s, s = <<>> PROVE IsSeq(s)
<1>1. s \in Seq({0})
  OBVIOUS
<1> QED
  BY <1>1 DEF IsSeq

LEMMA DeliverTwin ==
  ASSUME NEW r, NEW q, Twin(r, q) PROVE Alike(Deliver(r), Deliver(q))
<1> DEFINE rows == r.out.rows \o r.tele.ready
           t == [r.tele EXCEPT !.ready = <<>>]  u == [q.tele EXCEPT !.ready = <<>>]
           p == Deliver(r)  s == Deliver(q)
<1>1. r.out = q.out /\ r.tele.ready = q.tele.ready /\ Like(r.tele, q.tele)
  BY TwinFields, LikeFields DEF Twin
<1>2. p = [r EXCEPT !.out.rows = rows, !.tele = t] /\ s = [q EXCEPT !.out.rows = rows, !.tele = u]
  BY <1>1 DEF Deliver, Twin, Alike, ReaderFields
<1>3. IsSeq(rows)
  BY <1>1, ConcatSeq DEF Twin, Alike, Like, TeleForm
<1>4. Like(t, u)
  <2> DEFINE none == <<>>
  <2>0. none = <<>>
    OBVIOUS
  <2> HIDE DEF none
  <2>1. IsSeq(none)
    BY <2>0, EmptyIsSeq
  <2>2. Like([r.tele EXCEPT !.ready = none], [q.tele EXCEPT !.ready = none])
    BY <1>1, <2>1, LikeReady
  <2> QED
    BY <2>2 DEF none
<1> HIDE DEF rows, t, u, p, s
<1>5. /\ DOMAIN p = ReaderFields /\ DOMAIN s = ReaderFields
      /\ \A x \in ReaderFields \ {"out", "tele"} : p[x] = r[x] /\ s[x] = q[x]
      /\ p.out = [r.out EXCEPT !.rows = rows] /\ s.out = p.out
      /\ p.tele = t /\ s.tele = u
  BY <1>1, <1>2 DEF Twin, Alike, ReaderFields
<1>6. IsFcn(p.out) /\ DOMAIN p.out = OutFields /\ p.out.rows = rows
  BY <1>5 DEF Twin, Alike, IsFcn, OutFields
<1>7. Alike(p, s)
  BY <1>3, <1>4, <1>5, <1>6 DEF Twin, Alike, Shared, ReaderFields
<1> QED
  BY <1>7 DEF p, s

LEMMA SettledTwin ==
  ASSUME NEW r, NEW q, Alike(r, q), NEW g, NEW h, Twin(g, h)
  PROVE  Alike(Settled(r, g), Settled(q, h))
<1>1. g.failed = h.failed /\ Raised(g.tele) = Raised(h.tele)
  BY TwinFields, RaisedLike DEF Twin
<1>2. Alike(Deliver(g), Deliver(h))
  BY DeliverTwin
<1>3. Alike([r EXCEPT !.failed = TRUE], [q EXCEPT !.failed = TRUE])
  BY DEF Alike, Shared, ReaderFields
<1> QED
  BY <1>1, <1>2, <1>3 DEF Settled

\* The reader before the pending telemetry is looked at.
Worked(r, f) ==
    Estimates(ReceiverStatus(Pair(Assemble(Navigate(Locate(r, f), f), f), f), f), f)

LEMMA WorkedTwin ==
  ASSUME NEW r, NEW q, Alike(r, q), NEW f PROVE Twin(Worked(r, f), Worked(q, f))
<1> DEFINE r0 == Locate(r, f)        r1 == Navigate(r0, f)       r2 == Assemble(r1, f)
           r3 == Pair(r2, f)         r4 == ReceiverStatus(r3, f)
           q0 == Locate(q, f)        q1 == Navigate(q0, f)       q2 == Assemble(q1, f)
           q3 == Pair(q2, f)         q4 == ReceiverStatus(q3, f)
<1>1. Worked(r, f) = Estimates(r4, f) /\ Worked(q, f) = Estimates(q4, f)
  BY DEF Worked
<1> HIDE DEF r0, r1, r2, r3, r4, q0, q1, q2, q3, q4
<1>2. Twin(r0, q0)
  BY LocateTwin DEF r0, q0
<1>3. Twin(r1, q1)
  BY <1>2, NavigateTwin DEF r1, q1
<1>4. Twin(r2, q2)
  BY <1>3, AssembleTwin DEF r2, q2
<1>5. Twin(r3, q3)
  BY <1>4, PairTwin DEF r3, q3
<1>6. Twin(r4, q4)
  BY <1>5, ReceiverStatusTwin DEF r4, q4
<1> QED
  BY <1>1, <1>6, EstimatesTwin

LEMMA MergedIs == ASSUME NEW r, NEW f PROVE Merged(r, f) = Limit(Worked(r, f))
BY DEF Merged, Worked

LEMMA ConsumeTwin ==
  ASSUME NEW r, NEW q, Alike(r, q), NEW f, BoundEvery = 1 \/ ~(Load(Worked(r, f).tele) > MaxItems)
  PROVE  Alike(Consume(r, f), Consume(q, f))
<1> DEFINE a == Worked(r, f)  b == Worked(q, f)  g == Group(Limit(a), f)  h == Group(Limit(b), f)
<1>1. Consume(r, f) = Settled(r, g) /\ Consume(q, f) = Settled(q, h)
  BY ConsumeIs, MergedIs
<1>2. Twin(a, b)
  BY WorkedTwin
<1> HIDE DEF a, b
<1>3. Twin(Limit(a), Limit(b))
  BY <1>2, LimitTwin DEF a
<1>4. Twin(g, h)
  BY <1>3, GroupTwin
<1> HIDE DEF g, h
<1> QED
  BY <1>1, <1>4, SettledTwin

\* A declared end does the same to both when both or none has told of the group.
LEMMA EndTwin ==
  ASSUME NEW r, NEW q, Twin(r, q),
         r.pending # None => (r.reportedTail # r.pendingStart <=> q.reportedTail # q.pendingStart)
  PROVE  Alike(DeclaredEnd(r), DeclaredEnd(q))
<1> DEFINE untold == r.pending # None /\ r.hasMeasurements /\ r.reportedTail # r.pendingStart
           Noted(x) == IF untold
                        THEN [Incomplete(x, Len(input), "INCOMPLETE_TAIL")
                                EXCEPT !.reportedTail = x.pendingStart]
                        ELSE x
           p == Noted(r)  s == Noted(q)
<1>1. r.pending = q.pending /\ r.hasMeasurements = q.hasMeasurements /\ r.pos = q.pos
  BY TwinFields DEF Twin
<1>2. /\ DeclaredEnd(r) = Deliver([p EXCEPT !.tele = FinishAll(@, r.pos)])
      /\ DeclaredEnd(q) = Deliver([s EXCEPT !.tele = FinishAll(@, r.pos)])
  BY <1>1 DEF DeclaredEnd
<1>3. Twin(p, s)
  <2> DEFINE a == Incomplete(r, Len(input), "INCOMPLETE_TAIL")
             b == Incomplete(q, Len(input), "INCOMPLETE_TAIL")
  <2>1. Twin(a, b)
    BY IncompleteTwin
  <2> HIDE DEF a, b
  <2>2. Twin([a EXCEPT !.reportedTail = r.pendingStart], [b EXCEPT !.reportedTail = q.pendingStart])
    BY <2>1 DEF Twin, Alike, Shared, ReaderFields
  <2> HIDE DEF untold
  <2> QED
    BY <2>2 DEF a, b
<1> HIDE DEF p, s
<1>4. Like(FinishAll(p.tele, r.pos), FinishAll(s.tele, r.pos))
  BY <1>3, TwinFields, FinishLike DEF Twin
<1> DEFINE t == FinishAll(p.tele, r.pos)  u == FinishAll(s.tele, r.pos)
<1>5. /\ [p EXCEPT !.tele = FinishAll(@, r.pos)] = [p EXCEPT !.tele = t]
      /\ [s EXCEPT !.tele = FinishAll(@, r.pos)] = [s EXCEPT !.tele = u]
  BY <1>3 DEF Twin, Alike, ReaderFields
<1>6. Twin([p EXCEPT !.tele = t], [s EXCEPT !.tele = u])
  <2> HIDE DEF t, u
  <2> QED
    BY <1>3, <1>4, TwinTele DEF t, u
<1> HIDE DEF t, u
<1>7. Alike(Deliver([p EXCEPT !.tele = t]), Deliver([s EXCEPT !.tele = u]))
  BY <1>6, DeliverTwin
<1> QED
  BY <1>2, <1>5, <1>7

(***************************************************************************)
(* What the stages before the group leave to a reader.                     *)
(***************************************************************************)

StayFields == {"pos", "next", "reportedTail", "pending", "pendingStart", "extras",
               "hasMeasurements", "failed"}
Listed(r) == DOMAIN r = ReaderFields /\ DOMAIN r.last = LastFields
Stays(r, q) ==
    /\ Listed(q) /\ \A x \in StayFields : q[x] = r[x]
    /\ q.last.observation = r.last.observation

LEMMA StaysSelf == ASSUME NEW r, Listed(r) PROVE Stays(r, r)
BY DEF Stays

LEMMA StaysTwice == ASSUME NEW r, NEW q, NEW p, Stays(r, q), Stays(q, p) PROVE Stays(r, p)
BY DEF Stays

LEMMA StaysListed == ASSUME NEW r, NEW q, Stays(r, q) PROVE Listed(q)
BY DEF Stays

LEMMA StaysClock ==
  ASSUME NEW r, Listed(r), NEW a PROVE Stays(r, [r EXCEPT !.clock = a])
BY DEF Stays, Listed, StayFields, ReaderFields

LEMMA StaysClosure ==
  ASSUME NEW r, Listed(r), NEW a PROVE Stays(r, [r EXCEPT !.closure = a])
BY DEF Stays, Listed, StayFields, ReaderFields

LEMMA StaysTele ==
  ASSUME NEW r, Listed(r), NEW a PROVE Stays(r, [r EXCEPT !.tele = a])
BY DEF Stays, Listed, StayFields, ReaderFields

LEMMA StaysOut ==
  ASSUME NEW r, Listed(r), NEW a PROVE Stays(r, [r EXCEPT !.out = a])
BY DEF Stays, Listed, StayFields, ReaderFields

LEMMA StaysConflict ==
  ASSUME NEW r, Listed(r), NEW a, NEW b
  PROVE  Stays(r, [r EXCEPT !.closure = a, !.navConflict = b])
BY DEF Stays, Listed, StayFields, ReaderFields

LEMMA StaysDated ==
  ASSUME NEW r, Listed(r), NEW a PROVE Stays(r, [r EXCEPT !.last.navigation = a])
<1> DEFINE d == [r EXCEPT !.last.navigation = a]
<1>1. /\ DOMAIN d = ReaderFields /\ \A x \in ReaderFields \ {"last"} : d[x] = r[x]
      /\ d.last = [r.last EXCEPT !.navigation = a]
  BY DEF Listed, ReaderFields
<1>2. DOMAIN d.last = LastFields /\ d.last.observation = r.last.observation
  BY <1>1 DEF Listed, LastFields
<1> HIDE DEF d
<1>3. Stays(r, d)
  BY <1>1, <1>2 DEF Stays, Listed, StayFields, ReaderFields
<1> QED
  BY <1>3 DEF d

LEMMA StaysEvent ==
  ASSUME NEW r, Listed(r), NEW n, NEW kind, NEW scope, NEW t, NEW detail
  PROVE  Stays(r, Event(r, n, kind, scope, t, detail))
<1>1. \E out : Event(r, n, kind, scope, t, detail) = [r EXCEPT !.out = out]
  <2> DEFINE e == [n |-> n, kind |-> kind, scope |-> scope, t |-> t, detail |-> detail, at |-> r.pos,
                   day |-> IF t = None THEN r.clock.archiveDay ELSE t \div DayLength]
             out == [r.out EXCEPT !.events = Append(r.out.events, e)]
  <2>1. Event(r, n, kind, scope, t, detail) = [r EXCEPT !.out = out]
    BY DEF Event, Listed, ReaderFields
  <2> QED
    BY <2>1
<1> QED
  BY <1>1, StaysOut

LEMMA NavigationBlockStays ==
  ASSUME NEW r, Listed(r), NEW f PROVE Stays(r, NavigationBlock(r, f))
<1> DEFINE reversed == f.t # None /\ r.last.navigation # None /\ f.t < r.last.navigation
           dated == IF f.t = None THEN r ELSE [r EXCEPT !.last.navigation = f.t]
           invalid == f.t = None
           set == [dated EXCEPT !.closure = f.t, !.navConflict = invalid]
           marked == IF f.kind = "TIMEGPS" THEN set ELSE dated
           ev == Event(marked, f.n, "TIME_REVERSAL", "NAVIGATION", f.t, None)
           told == IF reversed THEN [ev EXCEPT !.clock.progress = None] ELSE marked
<1>1. Stays(r, dated)
  BY StaysSelf, StaysDated
<1>2. Stays(r, marked)
  <2> HIDE DEF dated, invalid
  <2>1. Stays(dated, set)
    BY <1>1, StaysListed, StaysConflict
  <2> QED
    BY <1>1, <2>1, StaysTwice
<1>3. Stays(r, told)
  <2> HIDE DEF marked
  <2>1. Stays(marked, ev)
    BY <1>2, StaysListed, StaysEvent
  <2> HIDE DEF ev
  <2> DEFINE c == [ev.clock EXCEPT !.progress = None]
  <2>2. [ev EXCEPT !.clock.progress = None] = [ev EXCEPT !.clock = c]
    BY <2>1 DEF Stays, Listed, ReaderFields
  <2> HIDE DEF c
  <2>3. Stays(ev, [ev EXCEPT !.clock = c])
    BY <2>1, StaysListed, StaysClock
  <2> HIDE DEF reversed
  <2> QED
    BY <1>2, <2>1, <2>2, <2>3, StaysTwice
<1>4. NavigationBlock(r, f) = [told EXCEPT !.clock = SetNavigation(@, f.t)]
  BY DEF NavigationBlock
<1> HIDE DEF told
<1> DEFINE c == SetNavigation(told.clock, f.t)
<1>5. NavigationBlock(r, f) = [told EXCEPT !.clock = c]
  BY <1>3, <1>4 DEF Stays, Listed, ReaderFields
<1> HIDE DEF c
<1>6. Stays(told, [told EXCEPT !.clock = c])
  BY <1>3, StaysListed, StaysClock
<1> QED
  BY <1>3, <1>5, <1>6, StaysTwice

LEMMA NavigateStays == ASSUME NEW r, Listed(r), NEW f PROVE Stays(r, Navigate(r, f))
<1>1. Stays(r, NavigationBlock(r, f)) /\ Stays(r, r)
  BY NavigationBlockStays, StaysSelf
<1>2. Stays(r, EmitBits(r, f))
  <2> DEFINE b == [n |-> f.n, t |-> Anchor(r.clock), uptime |-> AssociatedUptime(r.clock),
                   at |-> r.pos, day |-> r.clock.archiveDay]
             out == [r.out EXCEPT !.bits = Append(r.out.bits, b)]
  <2>1. EmitBits(r, f) = [r EXCEPT !.out = out]
    BY DEF EmitBits, Listed, ReaderFields
  <2> HIDE DEF out
  <2> QED
    BY <2>1, StaysOut
<1>3. Stays(r, EndOfEpoch(r, f))
  <2> DEFINE known == r.closure # None /\ ~r.navConflict /\ Tow(r.closure) = f.t
             told == IF known
                       THEN Event(r, f.n, "EPOCH_COMPLETION", "NAVIGATION", r.closure, "COMPLETE")
                       ELSE Event(r, f.n, "EPOCH_COMPLETION", "NAVIGATION", None, "UNKNOWN")
  <2>1. EndOfEpoch(r, f) = [told EXCEPT !.closure = None, !.navConflict = FALSE]
    BY DEF EndOfEpoch
  <2>2. Stays(r, told)
    BY StaysEvent
  <2> HIDE DEF told
  <2>3. Stays(told, [told EXCEPT !.closure = None, !.navConflict = FALSE])
    BY <2>2, StaysListed, StaysConflict
  <2> QED
    BY <2>1, <2>2, <2>3, StaysTwice
<1>4. Stays(r, [r EXCEPT !.clock = Advance(@, f.t)])
  <2> DEFINE c == Advance(r.clock, f.t)
  <2>1. [r EXCEPT !.clock = Advance(@, f.t)] = [r EXCEPT !.clock = c]
    BY DEF Listed, ReaderFields
  <2> HIDE DEF c
  <2> QED
    BY <2>1, StaysClock
<1> QED
  BY <1>1, <1>2, <1>3, <1>4 DEF Navigate

LEMMA AssembleStays == ASSUME NEW r, Listed(r), NEW f PROVE Stays(r, Assemble(r, f))
<1>1. \E ta : Assemble(r, f) = [r EXCEPT !.tele = ta]
  BY DEF Assemble
<1> QED
  BY <1>1, StaysTele

LEMMA EstimatesStays == ASSUME NEW r, Listed(r), NEW f PROVE Stays(r, Estimates(r, f))
<1>1. \E ta : Estimates(r, f) = [r EXCEPT !.tele = ta]
  BY DEF Estimates
<1> QED
  BY <1>1, StaysTele

LEMMA LimitStays == ASSUME NEW r, Listed(r) PROVE Stays(r, Limit(r))
<1> DEFINE ta == Bound(r.tele, r.pos)
<1>1. Limit(r) = [r EXCEPT !.tele = ta]
  BY DEF Limit, Listed, ReaderFields
<1> HIDE DEF ta
<1> QED
  BY <1>1, StaysTele

LEMMA ReportStays ==
  ASSUME NEW r, Listed(r), NEW c, NEW n, NEW up, NEW sample, NEW direct
  PROVE  Stays(r, Reported(r, c, n, up, sample, direct))
<1> DEFINE d == ReportUptime(c, up, sample, direct)
           reason == RestartReason(c, up, sample, direct)
           p == [r EXCEPT !.clock = d]
           s == [p EXCEPT !.closure = None]
           e == Event(s, n, "RECEIVER_RESTART", "RECEIVER", sample, reason)
<1>1. Reported(r, c, n, up, sample, direct) = IF reason = "none" THEN p ELSE e
  BY DEF Reported, Restart
<1> HIDE DEF d, reason
<1>2. Stays(r, p)
  BY StaysClock
<1> HIDE DEF p
<1>3. Stays(p, s)
  BY <1>2, StaysListed, StaysClosure
<1> HIDE DEF s
<1>4. Stays(s, e)
  BY <1>3, StaysListed, StaysEvent
<1> HIDE DEF e
<1> QED
  BY <1>1, <1>2, <1>3, <1>4, StaysTwice

LEMMA PairStays == ASSUME NEW r, Listed(r), NEW f PROVE Stays(r, Pair(r, f))
<1> DEFINE up == r.tele.current.uptime
           sample == r.clock.navigation
           reason == RestartReason(r.clock, up, sample, TRUE)
           p == Reported(r, r.clock, f.n, up, sample, TRUE)
           none == f.kind # "TIMEGPS" \/ up = None \/ r.tele.current.gpst = None
<1>1. Pair(r, f) = IF none THEN r ELSE IF reason = "none" THEN p
                   ELSE [p EXCEPT !.clock = SetNavigation(@, sample)]
  <2>1. [r EXCEPT !.clock = ReportUptime(@, up, sample, TRUE)]
          = [r EXCEPT !.clock = ReportUptime(r.clock, up, sample, TRUE)]
    BY DEF Listed, ReaderFields
  <2> QED
    BY <2>1 DEF Pair, Reported
<1>2. Stays(r, p)
  BY ReportStays
<1> HIDE DEF p, none, reason
<1>3. Stays(p, [p EXCEPT !.clock = SetNavigation(@, sample)])
  <2> DEFINE c == SetNavigation(p.clock, sample)
  <2>1. [p EXCEPT !.clock = SetNavigation(@, sample)] = [p EXCEPT !.clock = c]
    BY <1>2 DEF Stays, Listed, ReaderFields
  <2> HIDE DEF c
  <2>2. Stays(p, [p EXCEPT !.clock = c])
    BY <1>2, StaysListed, StaysClock
  <2> QED
    BY <2>1, <2>2
<1>4. Stays(r, r) /\ Stays(r, [p EXCEPT !.clock = SetNavigation(@, sample)])
  BY <1>2, <1>3, StaysSelf, StaysTwice
<1> QED
  BY <1>1, <1>2, <1>4

LEMMA ReceiverStatusStays == ASSUME NEW r, Listed(r), NEW f PROVE Stays(r, ReceiverStatus(r, f))
<1> DEFINE sample == IF f.kind = "STATUS" THEN f.t ELSE None
           direct == f.kind = "STATUS"
           clock == IF sample = None THEN r.clock ELSE Advance(r.clock, sample)
           p == Reported(r, clock, f.n, f.v, sample, direct)
           ta == StatusReport(p.tele, sample, f.v, f.n, r.pos)
<1>1. ReceiverStatus(r, f) = IF f.kind \notin Uptime THEN r
                             ELSE [p EXCEPT !.tele = StatusReport(@, sample, f.v, f.n, r.pos)]
  BY DEF ReceiverStatus, Reported
<1>2. Stays(r, p)
  BY ReportStays
<1> HIDE DEF p, sample
<1>3. [p EXCEPT !.tele = StatusReport(@, sample, f.v, f.n, r.pos)] = [p EXCEPT !.tele = ta]
  BY <1>2 DEF Stays, Listed, ReaderFields
<1> HIDE DEF ta
<1>4. Stays(p, [p EXCEPT !.tele = ta])
  BY <1>2, StaysListed, StaysTele
<1>5. Stays(r, r) /\ Stays(r, [p EXCEPT !.tele = ta])
  BY <1>2, <1>4, StaysSelf, StaysTwice
<1> QED
  BY <1>1, <1>3, <1>5

LEMMA MergedStays ==
  ASSUME NEW r, Listed(r), NEW f
  PROVE  Listed(Locate(r, f)) /\ Stays(Locate(r, f), Merged(r, f))
<1> DEFINE r0 == Locate(r, f)        r1 == Navigate(r0, f)       r2 == Assemble(r1, f)
           r3 == Pair(r2, f)         r4 == ReceiverStatus(r3, f) r5 == Estimates(r4, f)
<1>1. Merged(r, f) = Limit(r5)
  BY DEF Merged
<1>2. Listed(r0)
  BY DEF Locate, Listed, ReaderFields
<1> HIDE DEF r0, r1, r2, r3, r4, r5
<1>3. Stays(r0, r1)
  BY <1>2, NavigateStays DEF r1
<1>4. Stays(r1, r2)
  BY <1>3, AssembleStays DEF r2, Stays
<1>5. Stays(r2, r3)
  BY <1>4, PairStays DEF r3, Stays
<1>6. Stays(r3, r4)
  BY <1>5, ReceiverStatusStays DEF r4, Stays
<1>7. Stays(r4, r5)
  BY <1>6, EstimatesStays DEF r5, Stays
<1>8. Stays(r5, Limit(r5))
  BY <1>7, LimitStays DEF Stays
<1>9. Stays(r0, Limit(r5))
  <2>1. Stays(r0, r2)
    BY <1>3, <1>4, StaysTwice
  <2>2. Stays(r0, r3)
    BY <1>5, <2>1, StaysTwice
  <2>3. Stays(r0, r4)
    BY <1>6, <2>2, StaysTwice
  <2>4. Stays(r0, r5)
    BY <1>7, <2>3, StaysTwice
  <2> QED
    BY <1>8, <2>4, StaysTwice
<1> QED
  BY <1>1, <1>2, <1>9 DEF r0

\* What reading a frame leaves before the group: the group, and a position.
LEMMA MergedGroup ==
  ASSUME NEW r, Listed(r), PosForm(r.pos), NEW f
  PROVE  LET m == Merged(r, f) IN
           /\ Listed(m) /\ SameWork(r, m) /\ m.reportedTail = r.reportedTail
           /\ m.last.observation = r.last.observation
           /\ r.next \in Nat => m.next \in Nat /\ m.pos.index = m.next - 1
<1> DEFINE l == Locate(r, f)  m == Merged(r, f)
<1>1. Stays(l, m)
  BY MergedStays
<1>2. /\ \A x \in ReaderFields \ {"pos", "next"} : l[x] = r[x]
      /\ \/ l.next = 1 /\ l.pos.index = 0
         \/ l.next = r.next + 1 /\ l.pos.index = r.next
  BY DEF Locate, Listed, ReaderFields, PosForm, PosFields
<1> HIDE DEF l, m
<1>3. /\ Listed(m) /\ SameWork(r, m) /\ m.reportedTail = r.reportedTail
      /\ m.last.observation = r.last.observation
      /\ m.next = l.next /\ m.pos = l.pos
  BY <1>1, <1>2 DEF Stays, StayFields, ReaderFields, SameWork
<1>4. r.next \in Nat => l.next \in Nat /\ l.pos.index = l.next - 1
  BY <1>2
<1> QED
  BY <1>3, <1>4 DEF m

(***************************************************************************)
(* What the group leaves to a reader.                                      *)
(***************************************************************************)

Outside == {"clock", "tele", "pos", "next", "closure", "navConflict", "reportedTail"}
Leaves(r, q) == DOMAIN q = ReaderFields /\ DOMAIN q.last = LastFields /\ \A x \in Outside : q[x] = r[x]

LEMMA EventIs ==
  ASSUME NEW r, DOMAIN r = ReaderFields, NEW n, NEW kind, NEW scope, NEW t, NEW detail
  PROVE  LET q == Event(r, n, kind, scope, t, detail) IN
           DOMAIN q = ReaderFields /\ \A x \in ReaderFields \ {"out"} : q[x] = r[x]
<1> DEFINE e == [n |-> n, kind |-> kind, scope |-> scope, t |-> t, detail |-> detail, at |-> r.pos,
                 day |-> IF t = None THEN r.clock.archiveDay ELSE t \div DayLength]
           out == [r.out EXCEPT !.events = Append(r.out.events, e)]
<1>1. Event(r, n, kind, scope, t, detail) = [r EXCEPT !.out = out]
  BY DEF Event, ReaderFields
<1> HIDE DEF out
<1> QED
  BY <1>1 DEF ReaderFields

LEMMA EmitIs ==
  ASSUME NEW r, DOMAIN r = ReaderFields, NEW n, NEW t, NEW rows, NEW extras
  PROVE  LET q == Emit(r, n, t, rows, extras) IN
           DOMAIN q = ReaderFields /\ \A x \in ReaderFields \ {"out", "cadence"} : q[x] = r[x]
<1> DEFINE a == Classify(r, n, t)
           c == [a EXCEPT !.cadence.last = t]
           p == Event(c, n, "EPOCH_COMPLETION", "OBSERVATION", t, "COMPLETE")
           e == [n |-> n, t |-> t, rows |-> rows, extras |-> extras]
           Rest(q) == DOMAIN q = ReaderFields /\ \A x \in ReaderFields \ {"out", "cadence"} : q[x] = r[x]
<1>1. Rest(a)
  <2> DEFINE interval == t - r.cadence.last
             kind == CadenceKind(interval, Expected(r.cadence.window))
             told == IF kind = "regular" THEN r
                     ELSE Event(r, n, kind, "OBSERVATION", t, None)
             window == Append(r.cadence.window, interval)
             kept == IF Len(window) > Capacity THEN Tail(window) ELSE window
  <2>1. a = IF r.cadence.last = None THEN r
            ELSE IF interval > 0 THEN [told EXCEPT !.cadence.window = kept] ELSE told
    BY DEF Classify
  <2> HIDE DEF kind, kept, interval
  <2>2. Rest(told)
    BY EventIs
  <2> HIDE DEF told
  <2>3. Rest([told EXCEPT !.cadence.window = kept])
    BY <2>2 DEF ReaderFields
  <2> HIDE DEF a
  <2> QED
    BY <2>1, <2>2, <2>3
<1> HIDE DEF a
<1>2. Rest(c)
  BY <1>1 DEF ReaderFields
<1> HIDE DEF c
<1>3. Rest(p)
  BY <1>2, EventIs
<1> HIDE DEF p, e
<1>4. Rest([p EXCEPT !.out.epochs = Append(@, e)])
  <2> DEFINE out == [p.out EXCEPT !.epochs = Append(@, e)]
  <2>1. [p EXCEPT !.out.epochs = Append(@, e)] = [p EXCEPT !.out = out]
    BY <1>3 DEF ReaderFields
  <2> HIDE DEF out
  <2> QED
    BY <1>3, <2>1 DEF ReaderFields
<1>5. Emit(r, n, t, rows, extras) = IF t = None THEN r ELSE [p EXCEPT !.out.epochs = Append(@, e)]
  BY DEF Emit, p, c, a, e
<1> QED
  BY <1>4, <1>5

LEMMA IncompleteIs ==
  ASSUME NEW r, DOMAIN r = ReaderFields, NEW n, NEW basis
  PROVE  LET q == Incomplete(r, n, basis) IN
           DOMAIN q = ReaderFields /\ \A x \in ReaderFields \ {"out"} : q[x] = r[x]
BY EventIs DEF Incomplete

LEMMA AdoptIs ==
  ASSUME NEW r, DOMAIN r = ReaderFields, NEW f
  PROVE  LET q == Adopt(r, f) IN
           /\ DOMAIN q = ReaderFields
           /\ Belongs(r, f) => q = r
           /\ \A x \in ReaderFields \ {"pending", "pendingStart", "extras", "hasMeasurements", "out"} :
                q[x] = r[x]
           /\ ~Belongs(r, f) =>
                /\ q.pending = [t |-> f.t, rows |-> {}, counter |-> None]
                /\ q.extras = {} /\ q.pendingStart = f.n
<1> DEFINE told == IF r.hasMeasurements THEN Incomplete(r, f.n, "SUPERSEDED") ELSE r
           fresh == [t |-> f.t, rows |-> {}, counter |-> None]
           q == Adopt(r, f)
<1>1. q = IF Belongs(r, f) THEN r
          ELSE [told EXCEPT !.pending = fresh, !.pendingStart = f.n, !.extras = {},
                            !.hasMeasurements = FALSE]
  BY DEF Adopt, Belongs
<1>2. DOMAIN told = ReaderFields /\ \A x \in ReaderFields \ {"out"} : told[x] = r[x]
  BY IncompleteIs
<1> HIDE DEF told, fresh, q
<1>3. CASE Belongs(r, f)
  BY <1>1, <1>3 DEF q
<1>4. CASE ~Belongs(r, f)
  <2>1. /\ DOMAIN q = ReaderFields /\ q.pending = fresh /\ q.extras = {} /\ q.pendingStart = f.n
        /\ \A x \in ReaderFields \ {"pending", "pendingStart", "extras", "hasMeasurements", "out"} :
             q[x] = told[x]
    BY <1>1, <1>2, <1>4 DEF ReaderFields
  <2> QED
    BY <1>2, <1>4, <2>1 DEF q, fresh
<1> QED
  BY <1>3, <1>4

\* A block that the group accepts, and when it does.
Old(r, f) == IF Belongs(r, f) THEN r.pending.counter ELSE None
LEMMA BlockIs ==
  ASSUME NEW r, Listed(r), Withholds(r), NEW f \in Frame, f.kind \in Blocks
  PROVE  LET q == Group(r, f) IN
           /\ Leaves(r, q) /\ q.cadence = r.cadence
           /\ q.last = IF f.kind = "MEAS" /\ f.t # None THEN [r.last EXCEPT !.observation = f.t]
                       ELSE r.last
           /\ ~r.failed /\ ~q.failed =>
                /\ q.extras = (IF Belongs(r, f) THEN r.extras ELSE {})
                                \cup (IF f.kind = "EXTRA" THEN {f.n} ELSE {})
                /\ q.pending.counter = IF f.kind = "MEAS" THEN f.v ELSE Old(r, f)
                /\ f.kind = "MEAS" => ~Conflicts(Old(r, f), f.v)
           /\ ~r.failed /\ (f.kind = "MEAS" => ~Conflicts(Old(r, f), f.v)) => ~q.failed
<1> DEFINE d == IF f.t # None THEN [r EXCEPT !.last.observation = f.t] ELSE r
           fresh == [t |-> f.t, rows |-> {}, counter |-> None]
           q == Group(r, f)
<1>0. f.kind \in {"MEAS", "EXTRA"} /\ (f.kind \in Measurement <=> f.kind = "MEAS")
  BY DEF Blocks, Measurement
<1>1. /\ DOMAIN d = ReaderFields /\ \A x \in ReaderFields \ {"last"} : d[x] = r[x]
      /\ d.last = IF f.t # None THEN [r.last EXCEPT !.observation = f.t] ELSE r.last
      /\ DOMAIN d.last = LastFields
  BY DEF Listed, ReaderFields
<1>2. CASE f.kind = "EXTRA"
  <2> DEFINE a == Adopt(r, f)
  <2>1. q = [a EXCEPT !.extras = @ \cup {f.n}]
    BY <1>2 DEF Group
  <2>2. /\ DOMAIN a = ReaderFields
        /\ (Belongs(r, f) => a = r)
        /\ \A x \in Outside \cup {"cadence", "last", "failed"} : a[x] = r[x]
        /\ ~Belongs(r, f) => a.pending = fresh /\ a.extras = {}
    BY AdoptIs DEF Listed, ReaderFields, Outside
  <2>3. fresh.counter = None
    OBVIOUS
  <2> HIDE DEF a, fresh, q
  <2>4. /\ DOMAIN q = ReaderFields /\ \A x \in ReaderFields \ {"extras"} : q[x] = a[x]
        /\ q.extras = a.extras \cup {f.n}
    BY <2>1, <2>2 DEF ReaderFields
  <2>5. Leaves(r, q) /\ q.cadence = r.cadence /\ q.last = r.last /\ q.failed = r.failed
    BY <2>2, <2>4 DEF Leaves, Outside, ReaderFields, Listed
  <2>6. q.extras = (IF Belongs(r, f) THEN r.extras ELSE {}) \cup {f.n}
    BY <2>2, <2>4
  <2>7. q.pending = a.pending
    BY <2>4 DEF ReaderFields
  <2>8. q.pending.counter = Old(r, f)
    BY <2>2, <2>3, <2>7 DEF Old
  <2> QED
    BY <1>2, <2>5, <2>6, <2>8 DEF q
<1>3. CASE f.kind = "MEAS"
  <2> DEFINE a == Adopt(d, f)
  <2>1. q = AddMeasurements(a, f)
    BY <1>0, <1>3 DEF Group
  <2>2. Belongs(d, f) <=> Belongs(r, f)
    BY <1>1 DEF Belongs, ReaderFields
  <2> HIDE DEF d
  <2>3. /\ DOMAIN a = ReaderFields
        /\ (Belongs(r, f) => a = d)
        /\ \A x \in Outside \cup {"cadence", "last", "failed"} : a[x] = d[x]
        /\ ~Belongs(r, f) => a.pending = fresh /\ a.extras = {}
    BY <1>1, <2>2, AdoptIs DEF ReaderFields, Outside
  <2>4. a.pending \in PendingGroup
    <3>1. fresh \in PendingGroup
      BY DEF PendingGroup, Frame, Time
    <3>2. Belongs(r, f) => a.pending = r.pending
      BY <1>1, <2>3 DEF ReaderFields
    <3> QED
      BY <2>3, <3>1, <3>2 DEF Belongs, Withholds
  <2>5. a.pending.counter = Old(r, f) /\ DOMAIN a.pending = {"t", "rows", "counter"}
    <3>1. fresh.counter = None
      OBVIOUS
    <3>2. Belongs(r, f) => a.pending = r.pending
      BY <1>1, <2>3 DEF ReaderFields
    <3> HIDE DEF fresh
    <3> QED
      BY <2>3, <2>4, <3>1, <3>2, PendingRecord DEF Old
  <2>6. a.extras = IF Belongs(r, f) THEN r.extras ELSE {}
    BY <1>1, <2>3 DEF ReaderFields
  <2> DEFINE bad == [a EXCEPT !.failed = TRUE]
             good == [a EXCEPT !.pending.rows = @ \cup {f.n}, !.pending.counter = f.v,
                               !.hasMeasurements = TRUE]
             w == [a.pending EXCEPT !.rows = @ \cup {f.n}, !.counter = f.v]
  <2>7. q = IF Conflicts(Old(r, f), f.v) THEN bad ELSE good
    BY <2>1, <2>5 DEF AddMeasurements
  <2> HIDE DEF a, q, fresh
  <2>8. good = [a EXCEPT !.pending = w, !.hasMeasurements = TRUE]
    BY <2>3 DEF ReaderFields
  <2>9. w.counter = f.v
    BY <2>5
  <2> HIDE DEF w, good
  <2>10. /\ DOMAIN good = ReaderFields /\ good.pending = w
         /\ \A x \in ReaderFields \ {"pending", "hasMeasurements"} : good[x] = a[x]
         /\ DOMAIN bad = ReaderFields /\ bad.failed = TRUE
         /\ \A x \in ReaderFields \ {"failed"} : bad[x] = a[x]
    BY <2>3, <2>8 DEF ReaderFields
  <2> HIDE DEF bad
  <2>11. Leaves(r, q) /\ q.cadence = r.cadence /\ q.last = d.last
    <3>1. \A x \in Outside \cup {"cadence", "last"} : q[x] = a[x]
      BY <2>7, <2>10 DEF Outside, ReaderFields
    <3>2. \A x \in Outside \cup {"cadence"} : d[x] = r[x]
      BY <1>1 DEF Outside, ReaderFields
    <3>3. DOMAIN q = ReaderFields /\ q.last = a.last /\ a.last = d.last
      BY <2>3, <2>7, <2>10, <3>1
    <3> QED
      BY <1>1, <2>3, <3>1, <3>2, <3>3 DEF Leaves, Outside
  <2>12. CASE Conflicts(Old(r, f), f.v)
    <3>1. q.failed = TRUE
      BY <2>7, <2>10, <2>12
    <3> QED
      BY <1>1, <1>3, <2>11, <2>12, <3>1 DEF q
  <2>13. CASE ~Conflicts(Old(r, f), f.v)
    <3>1. q.failed = r.failed /\ q.extras = a.extras /\ q.pending.counter = f.v
      BY <1>1, <2>3, <2>7, <2>9, <2>10, <2>13 DEF ReaderFields
    <3> QED
      BY <1>1, <1>3, <2>6, <2>11, <2>13, <3>1 DEF q
  <2> QED
    BY <2>12, <2>13
<1> QED
  BY <1>0, <1>2, <1>3

LEMMA GroupLeaves ==
  ASSUME NEW r, Listed(r), Withholds(r), NEW f \in Frame PROVE Leaves(r, Group(r, f))
<1>1. CASE f.kind \in Blocks
  BY <1>1, BlockIs
<1>2. CASE f.kind = "RAWX"
  <2> DEFINE d == IF f.kind \in Measurement /\ f.t # None
                    THEN [r EXCEPT !.last.observation = f.t] ELSE r
             q == Emit(d, f.n, f.t, {f.n}, {})
  <2>1. Group(r, f) = q
    BY <1>2 DEF Group
  <2>2. /\ DOMAIN d = ReaderFields /\ \A x \in ReaderFields \ {"last"} : d[x] = r[x]
        /\ DOMAIN d.last = LastFields
    BY DEF Listed, ReaderFields
  <2> HIDE DEF d
  <2>3. DOMAIN q = ReaderFields /\ \A x \in ReaderFields \ {"out", "cadence"} : q[x] = d[x]
    BY <2>2, EmitIs
  <2> HIDE DEF q
  <2> QED
    BY <2>1, <2>2, <2>3 DEF Leaves, Outside, ReaderFields
<1>3. CASE f.kind = "END"
  <2> DEFINE e == IF r.hasMeasurements THEN Emit(r, f.n, f.t, r.pending.rows, r.extras) ELSE r
             q == [e EXCEPT !.pending = None, !.extras = {}, !.hasMeasurements = FALSE]
  <2>1. Group(r, f) = IF Belongs(r, f) THEN q ELSE r
    BY <1>3 DEF Group, CloseGroup, Belongs
  <2>2. DOMAIN e = ReaderFields /\ \A x \in ReaderFields \ {"out", "cadence"} : e[x] = r[x]
    BY EmitIs DEF Listed
  <2> HIDE DEF e
  <2>3. Leaves(r, q)
    BY <2>2 DEF Leaves, Outside, ReaderFields, Listed
  <2>4. Leaves(r, r)
    BY DEF Leaves, Outside, ReaderFields, Listed
  <2> QED
    BY <2>1, <2>3, <2>4
<1>4. CASE f.kind \notin GroupKinds
  BY <1>4, GroupOther DEF Leaves, Listed
<1> QED
  BY <1>1, <1>2, <1>3, <1>4 DEF GroupKinds, Blocks

\* The end of the group leaves no block of it.
LEMMA CloseLeaves ==
  ASSUME NEW r, Listed(r), NEW f, f.kind = "END", Belongs(r, f) PROVE Group(r, f).extras = {}
<1> DEFINE e == IF r.hasMeasurements THEN Emit(r, f.n, f.t, r.pending.rows, r.extras) ELSE r
           q == [e EXCEPT !.pending = None, !.extras = {}, !.hasMeasurements = FALSE]
<1>1. Group(r, f) = q
  BY DEF Group, CloseGroup, Belongs
<1>2. DOMAIN e = ReaderFields
  BY EmitIs DEF Listed
<1> HIDE DEF e
<1>3. q.extras = {}
  BY <1>2 DEF ReaderFields
<1> QED
  BY <1>1, <1>3

(***************************************************************************)
(* What the withheld group holds is what its frames say.                   *)
(***************************************************************************)

ExtraIn(in, from, to) == {m \in from..to : in[m].kind = "EXTRA"}
CounterAt(in, rows, c) ==
    \/ rows = {} /\ c = None
    \/ \E m \in rows : (\A x \in rows : x =< m) /\ c = in[m].v
Content(in, r, up) ==
    /\ r.pending = None => r.extras = {}
    /\ r.pending # None => /\ r.extras = ExtraIn(in, r.pendingStart, up - 1)
                           /\ CounterAt(in, r.pending.rows, r.pending.counter)
Earlier(rows, m) == {x \in rows : x < m}
Agreeing(in, rows) ==
    \A m \in rows : \A c : CounterAt(in, Earlier(rows, m), c) => ~Conflicts(c, in[m].v)
Accepted(in, r) ==
    r.pending # None =>
      /\ Agreeing(in, r.pending.rows)
      /\ r.pending.rows # {} /\ r.pending.t # None => r.last.observation = r.pending.t

LEMMA CounterOnly ==
  ASSUME NEW in, NEW rows, rows \subseteq Int, NEW c, NEW d,
         CounterAt(in, rows, c), CounterAt(in, rows, d)
  PROVE  c = d
<1>1. CASE rows = {}
  BY <1>1 DEF CounterAt
<1>2. CASE rows # {}
  <2>1. PICK m \in rows : (\A x \in rows : x =< m) /\ c = in[m].v
    BY <1>2 DEF CounterAt
  <2>2. PICK l \in rows : (\A x \in rows : x =< l) /\ d = in[l].v
    BY <1>2 DEF CounterAt
  <2>3. m =< l /\ l =< m /\ m \in Int /\ l \in Int
    BY <2>1, <2>2
  <2>4. m = l
    BY <2>3
  <2> QED
    BY <2>1, <2>2, <2>4
<1> QED
  BY <1>1, <1>2

LEMMA CounterNew ==
  ASSUME NEW in, NEW up \in Int, NEW rows, \A x \in rows : x \in Int /\ x < up
  PROVE  CounterAt(in, rows \cup {up}, in[up].v)
<1>1. \A x \in rows \cup {up} : x =< up
  OBVIOUS
<1> QED
  BY <1>1 DEF CounterAt

LEMMA AgreeingNew ==
  ASSUME NEW in, NEW up \in Int, NEW rows, \A x \in rows : x \in Int /\ x < up,
         Agreeing(in, rows), NEW c, CounterAt(in, rows, c), ~Conflicts(c, in[up].v)
  PROVE  Agreeing(in, rows \cup {up})
<1> SUFFICES ASSUME NEW m \in rows \cup {up}, NEW d, CounterAt(in, Earlier(rows \cup {up}, m), d)
             PROVE  ~Conflicts(d, in[m].v)
  BY DEF Agreeing
<1>1. CASE m = up
  <2>1. Earlier(rows \cup {up}, m) = rows
    <3>1. ~(up < up) /\ \A x \in rows : x < up
      OBVIOUS
    <3>2. {x \in rows \cup {up} : x < up} = rows
      BY <3>1
    <3> QED
      BY <1>1, <3>2 DEF Earlier
  <2>2. rows \subseteq Int
    OBVIOUS
  <2>3. c = d
    BY <2>1, <2>2, CounterOnly
  <2> QED
    BY <1>1, <2>3
<1>2. CASE m # up
  <2>1. m \in rows /\ m < up
    BY <1>2
  <2>2. Earlier(rows \cup {up}, m) = Earlier(rows, m)
    BY <2>1 DEF Earlier
  <2> QED
    BY <2>1, <2>2 DEF Agreeing
<1> QED
  BY <1>1, <1>2

LEMMA BlockContent ==
  ASSUME NEW in, NEW r, Shape(r), Listed(r), Withholds(r), NEW up \in Nat \ {0},
         r.pending # None => Pending(in, r, up), Content(in, r, up),
         NEW f \in Frame, in[up] = f, f.n = up, f.kind \in Blocks,
         ~r.failed, ~Group(r, f).failed
  PROVE  /\ Content(in, Group(r, f), up + 1)
         /\ Accepted(in, r) => Accepted(in, Group(r, f))
<1> DEFINE g == Group(r, f)
           s == IF Belongs(r, f) THEN r.pendingStart ELSE up
           old == IF Belongs(r, f) THEN r.pending.rows ELSE {}
           oldx == IF Belongs(r, f) THEN r.extras ELSE {}
           obs == g.last.observation
<1>1. /\ Pending(in, g, up + 1) /\ g.pending # None /\ g.pendingStart = s
  BY BlockPends
<1>2. g.pending.t = f.t /\ g.pending.rows = old \cup (IF f.kind = "MEAS" THEN {up} ELSE {})
  BY GroupBlock DEF Blocks
<1>3. /\ g.extras = oldx \cup (IF f.kind = "EXTRA" THEN {up} ELSE {})
      /\ g.pending.counter = IF f.kind = "MEAS" THEN f.v ELSE Old(r, f)
      /\ f.kind = "MEAS" => ~Conflicts(Old(r, f), f.v)
      /\ g.last = IF f.kind = "MEAS" /\ f.t # None THEN [r.last EXCEPT !.observation = f.t]
                  ELSE r.last
  BY BlockIs
<1>4. obs = IF f.kind = "MEAS" /\ f.t # None THEN f.t ELSE r.last.observation
  BY <1>3 DEF Listed, LastFields
<1>5. /\ s \in 1..up /\ oldx = ExtraIn(in, s, up - 1) /\ CounterAt(in, old, Old(r, f))
      /\ \A x \in old : x \in Int /\ x < up
  <2>1. CASE Belongs(r, f)
    <3>1. Pending(in, r, up) /\ r.pending # None
      BY <2>1 DEF Belongs
    <3>2. /\ s \in 1..(up - 1) /\ old = MeasIn(in, s, up - 1) /\ oldx = r.extras
      BY <2>1, <3>1 DEF Pending
    <3>3. oldx = ExtraIn(in, s, up - 1) /\ CounterAt(in, old, Old(r, f))
      BY <2>1, <3>1 DEF Content, Old
    <3>4. \A x \in old : x \in Int /\ x < up
      <4>1. \A x \in MeasIn(in, s, up - 1) : x \in s..(up - 1)
        BY DEF MeasIn
      <4> HIDE DEF s, old
      <4> QED
        BY <3>2, <4>1
    <3> HIDE DEF s, old, oldx
    <3> QED
      BY <3>2, <3>3, <3>4
  <2>2. CASE ~Belongs(r, f)
    <3>1. s = up /\ old = {} /\ oldx = {} /\ Old(r, f) = None
      BY <2>2 DEF Old
    <3>2. ExtraIn(in, up, up - 1) = {}
      BY DEF ExtraIn
    <3>3. CounterAt(in, {}, None)
      BY DEF CounterAt
    <3> HIDE DEF s, old, oldx
    <3> QED
      BY <3>1, <3>2, <3>3
  <2> QED
    BY <2>1, <2>2
<1>6. Accepted(in, r) => Agreeing(in, old)
  BY DEF Accepted, Agreeing, Belongs
<1>7. Accepted(in, r) /\ old # {} /\ f.t # None => r.last.observation = f.t
  BY DEF Accepted, Belongs
<1> HIDE DEF g, s, old, oldx, obs
<1>8. g.extras = ExtraIn(in, s, (up + 1) - 1)
  <2>1. s..up = (s..(up - 1)) \cup {up} /\ (up + 1) - 1 = up
    BY <1>5
  <2>2. ExtraIn(in, s, up) = ExtraIn(in, s, up - 1)
                                \cup (IF in[up].kind = "EXTRA" THEN {up} ELSE {})
    BY <2>1 DEF ExtraIn
  <2> QED
    BY <1>3, <1>5, <2>1, <2>2
<1>9. CounterAt(in, g.pending.rows, g.pending.counter)
  <2>1. CASE f.kind = "MEAS"
    <3>1. CounterAt(in, old \cup {up}, in[up].v)
      <4>1. up \in Int /\ \A x \in old : x \in Int /\ x < up
        BY <1>5
      <4> QED
        BY ONLY <4>1, CounterNew
    <3> QED
      BY <1>2, <1>3, <2>1, <3>1
  <2>2. CASE f.kind # "MEAS"
    BY <1>2, <1>3, <1>5, <2>2
  <2> QED
    BY <2>1, <2>2
<1>10. Content(in, g, up + 1)
  BY <1>1, <1>8, <1>9 DEF Content
<1>11. ASSUME Accepted(in, r) PROVE Accepted(in, g)
  <2>1. Agreeing(in, g.pending.rows)
    <3>1. CASE f.kind = "MEAS"
      <4>1. Agreeing(in, old \cup {up})
        BY <1>3, <1>5, <1>6, <1>11, <3>1, AgreeingNew
      <4> QED
        BY <1>2, <3>1, <4>1
    <3>2. CASE f.kind # "MEAS"
      BY <1>2, <1>6, <1>11, <3>2
    <3> QED
      BY <3>1, <3>2
  <2>2. g.pending.rows # {} /\ g.pending.t # None => obs = g.pending.t
    BY <1>2, <1>4, <1>7, <1>11
  <2> QED
    BY <2>1, <2>2 DEF Accepted, obs
<1> QED
  BY <1>10, <1>11 DEF g

\* A frame that does nothing to the group.
LEMMA ContentStays ==
  ASSUME NEW in, NEW r, NEW up \in Nat \ {0}, r.pending # None => Pending(in, r, up),
         Content(in, r, up), NEW g, SameWork(r, g),
         in[up].kind # "EXTRA" \/ r.pending = None
  PROVE  /\ Content(in, g, up + 1)
         /\ Accepted(in, r) /\ (r.pending = None \/ g.last.observation = r.last.observation)
              => Accepted(in, g)
<1>1. g.pending = r.pending /\ g.pendingStart = r.pendingStart /\ g.extras = r.extras
  BY DEF SameWork
<1>2. ASSUME r.pending # None
      PROVE  ExtraIn(in, r.pendingStart, (up + 1) - 1) = ExtraIn(in, r.pendingStart, up - 1)
  <2> DEFINE s == r.pendingStart
  <2>1. s \in 1..(up - 1) /\ in[up].kind # "EXTRA"
    BY <1>2 DEF Pending
  <2> HIDE DEF s
  <2>2. s..((up + 1) - 1) = (s..(up - 1)) \cup {up}
    BY <2>1
  <2>3. ExtraIn(in, s, (up + 1) - 1) = ExtraIn(in, s, up - 1)
    BY <2>1, <2>2 DEF ExtraIn
  <2> QED
    BY <2>3 DEF s
<1>3. Content(in, g, up + 1)
  BY <1>1, <1>2 DEF Content
<1>4. Accepted(in, r) /\ (r.pending = None \/ g.last.observation = r.last.observation)
        => Accepted(in, g)
  BY <1>1 DEF Accepted
<1> QED
  BY <1>3, <1>4

\* The frames read so far say the same when there is one more.
LEMMA ContentGrown ==
  ASSUME NEW old, NEW in, NEW f, Grown(old, in, f), NEW r, Content(old, r, Len(old) + 1),
         r.pending # None => Pending(old, r, Len(old) + 1)
  PROVE  /\ r.pending # None => Pending(in, r, Len(old) + 1)
         /\ Content(in, r, Len(old) + 1)
         /\ Accepted(old, r) => Accepted(in, r)
<1> DEFINE k == Len(old)  rows == r.pending.rows
<1>0. k \in Nat /\ (k + 1) - 1 = k /\ \A j \in 1..k : in[j] = old[j]
  BY DEF Grown
<1>1. CASE r.pending = None
  BY <1>1 DEF Content, Accepted
<1>2. CASE r.pending # None
  <2> DEFINE s == r.pendingStart
  <2>1. s \in 1..k /\ \A j \in s..k : in[j] = old[j]
    <3>1. s \in 1..k
      BY <1>0, <1>2 DEF Pending
    <3> QED
      BY <1>0, <3>1
  <2>2. Pending(old, r, k + 1)
    BY <1>2
  <2>3. MeasIn(in, s, k) = MeasIn(old, s, k) /\ ExtraIn(in, s, k) = ExtraIn(old, s, k)
    BY <2>1 DEF MeasIn, ExtraIn
  <2>4. Pending(in, r, k + 1)
    BY <1>0, <2>1, <2>2, <2>3 DEF Pending
  <2>5. \A x \in rows : in[x] = old[x]
    BY <1>0, <2>1, <2>2 DEF Pending, MeasIn
  <2> HIDE DEF rows
  <2>6. \A part, c : part \subseteq rows => (CounterAt(in, part, c) <=> CounterAt(old, part, c))
    BY <2>5 DEF CounterAt
  <2>7. Content(in, r, k + 1)
    BY <1>0, <1>2, <2>3, <2>6 DEF Content, rows
  <2>8. ASSUME Agreeing(old, rows) PROVE Agreeing(in, rows)
    <3> SUFFICES ASSUME NEW m \in rows, NEW c, CounterAt(in, Earlier(rows, m), c)
                 PROVE  ~Conflicts(c, in[m].v)
      BY DEF Agreeing
    <3>1. Earlier(rows, m) \subseteq rows
      BY DEF Earlier
    <3>2. CounterAt(old, Earlier(rows, m), c)
      BY <2>6, <3>1
    <3> QED
      BY <2>5, <2>8, <3>2 DEF Agreeing
  <2> QED
    BY <2>4, <2>7, <2>8 DEF Accepted, rows
<1> QED
  BY <1>1, <1>2

(***************************************************************************)
(* The steps of one reader.                                                *)
(***************************************************************************)

\* Nothing waits to be delivered, no conflict, and the size was looked at.
Tidy(r) ==
    /\ r.tele.ready = <<>> /\ ~Raised(r.tele)
    /\ BoundEvery = 1 => r.tele.updates = 0

LEMMA DeliverLeaves ==
  ASSUME NEW r, DOMAIN r = ReaderFields
  PROVE  LET q == Deliver(r) IN
           /\ DOMAIN q = ReaderFields
           /\ \A x \in ReaderFields \ {"tele", "out"} : q[x] = r[x]
           /\ q.tele = [r.tele EXCEPT !.ready = <<>>]
           /\ q.out = [r.out EXCEPT !.rows = r.out.rows \o r.tele.ready]
<1> DEFINE rows == r.out.rows \o r.tele.ready  t == [r.tele EXCEPT !.ready = <<>>]
           out == [r.out EXCEPT !.rows = rows]
<1>1. Deliver(r) = [r EXCEPT !.out = out, !.tele = t]
  BY DEF Deliver, ReaderFields
<1> HIDE DEF out, t
<1>2. /\ DOMAIN Deliver(r) = ReaderFields
      /\ \A x \in ReaderFields \ {"tele", "out"} : Deliver(r)[x] = r[x]
      /\ Deliver(r).tele = t /\ Deliver(r).out = out
  BY <1>1 DEF ReaderFields
<1> QED
  BY <1>2 DEF out, t

LEMMA BoundSelf ==
  ASSUME NEW t, Like(t, t), NEW pos PROVE Like(Bound(t, pos), Bound(t, pos))
<1> DEFINE tl == [t EXCEPT !.updates = 0]
<1>1. Like(tl, tl)
  BY LikeLooked
<1> HIDE DEF tl
<1>2. Like(FinishAll(tl, pos), FinishAll(tl, pos))
  BY <1>1, FinishLike
<1>3. Bound(t, pos) \in {t, tl, FinishAll(tl, pos)}
  BY DEF Bound, tl
<1> QED
  BY <1>1, <1>2, <1>3

LEMMA TidyReady ==
  ASSUME NEW t, TeleForm(t), ~Raised(t)
  PROVE  LET u == [t EXCEPT !.ready = <<>>] IN
           u.ready = <<>> /\ ~Raised(u) /\ u.updates = t.updates
<1> DEFINE u == [t EXCEPT !.ready = <<>>]
<1>1. /\ u.ready = <<>> /\ u.updates = t.updates
      /\ u.current = t.current /\ u.before = t.before /\ u.future = t.future
  BY DEF TeleForm, TeleFields
<1>2. DOMAIN <<>> = {}
  OBVIOUS
<1> HIDE DEF u
<1>3. ~Raised(u)
  BY <1>1, <1>2 DEF Raised, Keys
<1> QED
  BY <1>1, <1>3 DEF u

\* What reading a frame does outside the group.
LEMMA ConsumeLeaves ==
  ASSUME NEW r, Alike(r, r), Withholds(r), NEW f \in Frame
  PROVE  LET q == Consume(r, f) IN
           /\ DOMAIN q = ReaderFields /\ q.reportedTail = r.reportedTail
           /\ r.next \in Nat => q.next \in Nat /\ (q.failed \/ q.pos.index = q.next - 1)
           /\ Tidy(r) => Tidy(q)
<1> DEFINE m == Merged(r, f)  g == Group(m, f)  q == Consume(r, f)
           bad == [r EXCEPT !.failed = TRUE]
<1>0. q = IF g.failed \/ Raised(g.tele) THEN bad ELSE Deliver(g)
  BY ConsumeIs DEF Settled
<1>1. /\ Listed(m) /\ SameWork(r, m) /\ m.reportedTail = r.reportedTail
      /\ r.next \in Nat => m.next \in Nat /\ m.pos.index = m.next - 1
  <2>1. Listed(r) /\ PosForm(r.pos)
    BY DEF Alike, Listed
  <2> QED
    BY <2>1, MergedGroup
<1>2. Like(m.tele, m.tele) /\ (BoundEvery = 1 => m.tele.updates = 0)
  <2> DEFINE w == Worked(r, f)
  <2>1. m = Limit(w) /\ Twin(w, w)
    BY MergedIs, WorkedTwin
  <2> HIDE DEF w, m
  <2>2. CASE BoundEvery = 1
    <3>1. Twin(m, m) /\ m.tele.updates = 0
      BY <2>1, <2>2, LimitTwin
    <3> QED
      BY <3>1, TwinFields DEF Twin
  <2>3. CASE BoundEvery # 1
    <3> DEFINE t == Bound(w.tele, w.pos)
    <3>1. m.tele = t
      BY <2>1 DEF Limit, Twin, Alike, ReaderFields
    <3>2. Like(w.tele, w.tele)
      BY <2>1, TwinFields DEF Twin
    <3>3. Like(t, t)
      BY <3>2, BoundSelf
    <3> QED
      BY <2>3, <3>1, <3>3
  <2> QED
    BY <2>2, <2>3
<1> HIDE DEF m
<1>3. Withholds(m)
  BY <1>1 DEF Withholds, SameWork
<1>4. Leaves(m, g)
  BY <1>1, <1>3, GroupLeaves
<1> HIDE DEF g, q
<1>5. g.reportedTail = m.reportedTail /\ g.next = m.next /\ g.pos = m.pos /\ g.tele = m.tele
      /\ DOMAIN g = ReaderFields
  BY <1>4 DEF Leaves, Outside
<1>6. CASE g.failed \/ Raised(g.tele)
  <2>1. /\ q = bad /\ DOMAIN bad = ReaderFields /\ bad.failed = TRUE
        /\ bad.reportedTail = r.reportedTail /\ bad.next = r.next /\ bad.tele = r.tele
    BY <1>0, <1>6 DEF Alike, ReaderFields
  <2> HIDE DEF bad
  <2> QED
    BY <2>1 DEF Tidy, q
<1>7. CASE ~(g.failed \/ Raised(g.tele))
  <2>1. q = Deliver(g)
    BY <1>0, <1>7
  <2> DEFINE d == Deliver(g)
  <2>5. /\ DOMAIN d = ReaderFields
        /\ \A x \in ReaderFields \ {"tele", "out"} : d[x] = g[x]
        /\ d.tele = [g.tele EXCEPT !.ready = <<>>]
    BY <1>5, DeliverLeaves
  <2> HIDE DEF d
  <2>2. /\ DOMAIN q = ReaderFields
        /\ q.reportedTail = g.reportedTail /\ q.next = g.next /\ q.pos = g.pos
        /\ q.tele = [g.tele EXCEPT !.ready = <<>>]
    BY <2>1, <2>5 DEF ReaderFields, d
  <2>3. TeleForm(g.tele)
    BY <1>2, <1>5 DEF Like
  <2>4. q.tele.ready = <<>> /\ ~Raised(q.tele) /\ q.tele.updates = g.tele.updates
    BY <1>7, <2>2, <2>3, TidyReady
  <2> QED
    BY <1>1, <1>2, <1>5, <2>2, <2>4 DEF Tidy, q
<1> QED
  BY <1>6, <1>7

\* What reading a frame does to the group.
LEMMA ConsumeContent ==
  ASSUME NEW old, NEW in, NEW f \in Frame, Grown(old, in, f), f.n = Len(old) + 1,
         OneProtocol(in),
         NEW r, Alike(r, r), Shape(r), Shape(Merged(r, f)), Grouped(old, r, Len(old) + 1),
         Content(old, r, Len(old) + 1),
         Accepted(old, r), ~r.failed, ~Consume(r, f).failed
  PROVE  Content(in, Consume(r, f), Len(old) + 2) /\ Accepted(in, Consume(r, f))
<1> DEFINE k == Len(old)  m == Merged(r, f)  g == Group(m, f)  q == Consume(r, f)
           bad == [r EXCEPT !.failed = TRUE]
<1>0. /\ k \in Nat /\ in[k + 1] = f /\ Len(in) = k + 1 /\ k + 1 \in Nat \ {0}
      /\ (k + 1) + 1 = k + 2
  BY DEF Grown
<1>1. /\ Listed(m) /\ SameWork(r, m) /\ m.last.observation = r.last.observation
  <2>1. Listed(r) /\ PosForm(r.pos)
    BY DEF Alike, Listed
  <2> QED
    BY <2>1, MergedGroup
<1>2. Shape(m)
  OBVIOUS
<1>3. q = IF g.failed \/ Raised(g.tele) THEN bad ELSE Deliver(g)
  BY ConsumeIs DEF Settled
<1>4. ~g.failed /\ q = Deliver(g)
  <2>1. bad.failed = TRUE
    BY DEF Alike, ReaderFields
  <2> HIDE DEF g, q, bad
  <2>2. ~q.failed
    BY DEF q
  <2> QED
    BY <1>3, <2>1, <2>2
<1>5. Withholds(r) /\ (r.pending # None => Pending(old, r, k + 1))
  BY DEF Grouped
<1>6. /\ r.pending # None => Pending(in, r, k + 1)
      /\ Content(in, r, k + 1) /\ Accepted(in, r)
  BY <1>5, ContentGrown
<1> HIDE DEF m
<1>7. /\ Withholds(m) /\ m.failed = r.failed /\ (m.pending # None => Pending(in, m, k + 1))
      /\ Content(in, m, k + 1) /\ Accepted(in, m)
  BY <1>1, <1>5, <1>6 DEF SameWork, Withholds, Pending, Content, Accepted
<1>8. Content(in, g, k + 2) /\ Accepted(in, g)
  <2>1. CASE f.kind \in Blocks
    <3>1. Content(in, g, (k + 1) + 1) /\ Accepted(in, g)
      BY <1>0, <1>1, <1>2, <1>4, <1>7, <2>1, BlockContent
    <3> QED
      BY <1>0, <3>1
  <2>2. CASE f.kind = "RAWX"
    <3>1. m.pending = None
      <4> SUFFICES ASSUME m.pending # None PROVE FALSE
        OBVIOUS
      <4>1. Pending(in, m, k + 1)
        BY <1>7
      <4>2. m.pendingStart \in 1..Len(in) /\ in[m.pendingStart].kind \in {"MEAS", "EXTRA"}
        BY <1>0, <4>1 DEF Pending, Blocks
      <4>3. k + 1 \in 1..Len(in) /\ in[k + 1].kind = "RAWX"
        BY <1>0, <2>2
      <4> QED
        BY <4>2, <4>3 DEF OneProtocol
    <3>2. SameWork(m, g)
      BY <1>2, <2>2, GroupRawx
    <3> HIDE DEF g
    <3>3. Content(in, g, (k + 1) + 1) /\ Accepted(in, g)
      BY <1>0, <1>7, <3>1, <3>2, ContentStays
    <3> QED
      BY <1>0, <3>3
  <2>3. CASE f.kind = "END" /\ Belongs(m, f)
    <3>1. g.pending = None /\ g.extras = {}
      BY <1>1, <1>2, <1>7, <2>3, GroupEnd, CloseLeaves
    <3> QED
      BY <3>1 DEF Content, Accepted
  <2>4. CASE ~(f.kind \in Blocks \/ f.kind = "RAWX" \/ (f.kind = "END" /\ Belongs(m, f)))
    <3>1. g = m
      <4>1. CASE f.kind = "END"
        BY <1>2, <1>7, <2>4, <4>1, GroupEnd
      <4>2. CASE f.kind # "END"
        BY <2>4, <4>2, GroupOther DEF GroupKinds, Blocks
      <4> QED
        BY <4>1, <4>2
    <3>2. SameWork(m, m) /\ in[k + 1].kind # "EXTRA"
      BY <1>0, <2>4 DEF SameWork, Blocks
    <3>3. Content(in, m, (k + 1) + 1) /\ Accepted(in, m)
      BY <1>0, <1>7, <3>2, ContentStays
    <3> QED
      BY <1>0, <3>1, <3>3
  <2> QED
    BY <2>1, <2>2, <2>3, <2>4
<1>9. Leaves(m, g)
  BY <1>1, <1>7, GroupLeaves
<1> HIDE DEF g, q
<1>10. q.pending = g.pending /\ q.extras = g.extras /\ q.pendingStart = g.pendingStart
       /\ q.last = g.last
  <2> DEFINE d == Deliver(g)
  <2>1. \A x \in ReaderFields \ {"tele", "out"} : d[x] = g[x]
    BY <1>9, DeliverLeaves DEF Leaves
  <2> HIDE DEF d
  <2> QED
    BY <1>4, <2>1 DEF ReaderFields, d
<1> QED
  BY <1>8, <1>10 DEF Content, Accepted, q

\* What a declared end leaves to a reader.
LEMMA EndLeaves ==
  ASSUME NEW r, Alike(r, r)
  PROVE  LET q == DeclaredEnd(r) IN
           /\ SameWork(r, q) /\ q.last = r.last /\ q.next = r.next /\ q.pos = r.pos
           /\ q.reportedTail = IF /\ r.pending # None /\ r.hasMeasurements
                                  /\ r.reportedTail # r.pendingStart
                                 THEN r.pendingStart ELSE r.reportedTail
           /\ Tidy(r) => Tidy(q)
<1> DEFINE untold == r.pending # None /\ r.hasMeasurements /\ r.reportedTail # r.pendingStart
           p == Incomplete(r, Len(input), "INCOMPLETE_TAIL")
           told == IF untold THEN [p EXCEPT !.reportedTail = r.pendingStart] ELSE r
           t == FinishAll(told.tele, r.pos)
           ended == [told EXCEPT !.tele = t]
           q == DeclaredEnd(r)
<1>1. DOMAIN r = ReaderFields /\ Like(r.tele, r.tele)
  BY DEF Alike
<1>2. DOMAIN p = ReaderFields /\ \A x \in ReaderFields \ {"out"} : p[x] = r[x]
  BY <1>1, IncompleteIs
<1>3. q = Deliver([told EXCEPT !.tele = FinishAll(@, r.pos)])
  BY DEF DeclaredEnd
<1> HIDE DEF p, q
<1>4. /\ DOMAIN told = ReaderFields
      /\ \A x \in ReaderFields \ {"out", "reportedTail"} : told[x] = r[x]
      /\ told.reportedTail = IF untold THEN r.pendingStart ELSE r.reportedTail
  <2> HIDE DEF untold
  <2> QED
    BY <1>1, <1>2 DEF ReaderFields
<1> HIDE DEF told
<1>5. [told EXCEPT !.tele = FinishAll(@, r.pos)] = ended
  BY <1>4 DEF ReaderFields
<1>6. told.tele = r.tele
  BY <1>4 DEF ReaderFields
<1>7. /\ Like(t, t) /\ t.updates = r.tele.updates
      /\ t.current = EmptyRow /\ t.before = EmptyRow /\ t.future = <<>>
  BY <1>1, <1>6, FinishLike
<1> HIDE DEF t
<1>8. /\ DOMAIN ended = ReaderFields /\ ended.tele = t
      /\ \A x \in ReaderFields \ {"tele"} : ended[x] = told[x]
  BY <1>4 DEF ReaderFields
<1> HIDE DEF ended
<1>9. /\ \A x \in ReaderFields \ {"tele", "out"} : q[x] = ended[x]
      /\ q.tele = [t EXCEPT !.ready = <<>>]
  <2> DEFINE d == Deliver(ended)
  <2>1. /\ \A x \in ReaderFields \ {"tele", "out"} : d[x] = ended[x]
        /\ d.tele = [ended.tele EXCEPT !.ready = <<>>]
    BY <1>8, DeliverLeaves
  <2> HIDE DEF d
  <2> QED
    BY <1>3, <1>5, <1>8, <2>1 DEF d
<1>10. /\ \A x \in ReaderFields \ {"tele", "out", "reportedTail"} : q[x] = r[x]
       /\ q.reportedTail = IF untold THEN r.pendingStart ELSE r.reportedTail
  BY <1>4, <1>8, <1>9 DEF ReaderFields
<1>11. q.tele.ready = <<>> /\ ~Raised(q.tele) /\ q.tele.updates = r.tele.updates
  <2>1. /\ q.tele.ready = <<>> /\ q.tele.updates = t.updates
        /\ q.tele.current = EmptyRow /\ q.tele.before = EmptyRow /\ q.tele.future = <<>>
    BY <1>7, <1>9 DEF Like, TeleForm, TeleFields
  <2>2. DOMAIN <<>> = {} /\ EmptyRow.clash = FALSE
    BY DEF EmptyRow
  <2> QED
    BY <1>7, <2>1, <2>2 DEF Raised, Keys
<1>12. Tidy(r) => Tidy(q)
  BY <1>11 DEF Tidy
<1> QED
  BY <1>10, <1>12 DEF q, SameWork, ReaderFields

(***************************************************************************)
(* Stopping, and reading the withheld group again.                         *)
(***************************************************************************)

\* The reader r has still to rebuild the group that w withholds, and holds all
\* else that w holds.
OwnGroup == {"pending", "extras", "hasMeasurements"}
Behind(w, r, up) ==
    /\ ~w.failed /\ w.pending # None /\ Begin(r, up) = w.pendingStart
    /\ Alike(w, w) /\ DOMAIN r = ReaderFields
    /\ \A x \in Shared \ OwnGroup : w[x] = r[x]
    /\ Like(w.tele, r.tele) /\ PosForm(r.pos) /\ w.pos.anchor = r.pos.anchor
    /\ r.tele.updates = 0

LEMMA BehindFields ==
  ASSUME NEW w, NEW r, NEW up, Behind(w, r, up)
  PROVE  /\ r.clock = w.clock /\ r.next = w.next /\ r.closure = w.closure
         /\ r.navConflict = w.navConflict /\ r.last = w.last /\ r.cadence = w.cadence
         /\ r.failed = w.failed /\ r.out = w.out
BY DEF Behind, Shared, OwnGroup, ReaderFields

\* A reader that differs from r in nothing but its group.
LEMMA BehindKept ==
  ASSUME NEW w, NEW r, NEW up, Behind(w, r, up), NEW q, NEW next, DOMAIN q = ReaderFields,
         \A x \in {"clock", "tele", "pos", "next", "closure", "navConflict", "last", "cadence",
                   "failed", "out"} : q[x] = r[x],
         Begin(q, next) = w.pendingStart
  PROVE  Behind(w, q, next)
<1>1. \A x \in Shared \ OwnGroup : w[x] = q[x]
  BY BehindFields DEF Shared, OwnGroup, ReaderFields
<1>2. q.tele = r.tele /\ q.pos = r.pos
  OBVIOUS
<1> QED
  BY <1>1, <1>2 DEF Behind

\* The group that w withholds, seen from a frame of it.
LEMMA BehindGroup ==
  ASSUME NEW in, Numbered(in), OneProtocol(in), NEW up \in 1..Len(in), NEW w, NEW r,
         ReaderInv(in, w, Len(in) + 1), ReaderInv(in, r, up), Behind(w, r, up)
  PROVE  LET f == in[up]  s == w.pendingStart IN
           /\ Len(in) \in Nat /\ up \in Nat \ {0} /\ f \in Frame /\ f.n = up
           /\ s \in 1..up /\ in[s].t = w.pending.t /\ in[s].kind \in Blocks
           /\ w.pending.rows = MeasIn(in, s, Len(in))
           /\ r.pending # None => Pending(in, r, up) /\ r.pendingStart = s
           /\ r.pending = None => up = s
           /\ f.kind \in Blocks => f.t = w.pending.t
           /\ f.kind = "END" => f.t # w.pending.t
           /\ f.kind # "RAWX"
           /\ r.pending # None => r.pending.t = w.pending.t
<1> DEFINE f == in[up]  s == w.pendingStart  n == Len(in)
<1>0. /\ f \in Frame /\ f.n = up /\ n \in Nat /\ up \in Nat \ {0} /\ (n + 1) - 1 = n
  <2>1. in \in Seq(Frame)
    BY DEF Numbered
  <2>2. n \in Nat /\ \A j \in 1..n : in[j] \in Frame
    BY <2>1, ElementOfSeq, LenProperties
  <2> QED
    BY <2>2 DEF Numbered
<1>1. ~w.failed /\ ~r.failed /\ w.pending # None /\ Begin(r, up) = s
  BY BehindFields DEF Behind
<1>2. Pending(in, w, n + 1) /\ OneGroup(in, s)
  BY <1>1 DEF ReaderInv, Grouped, Begin
<1>3. r.pending # None => Pending(in, r, up)
  BY <1>1 DEF ReaderInv, Grouped
<1>4. s \in 1..up
  BY <1>0, <1>1, <1>3 DEF Begin, Pending
<1>5. /\ in[s].t = w.pending.t /\ in[s].kind \in Blocks /\ w.pending.rows = MeasIn(in, s, n)
  BY <1>0, <1>2 DEF Pending
<1>6. up \in s..n
  BY <1>0, <1>4
<1>7. /\ f.kind \in Blocks => f.t = in[s].t
      /\ f.kind = "END" => f.t # in[s].t
  BY <1>2, <1>6 DEF OneGroup
<1>8. f.kind # "RAWX"
  <2>1. s \in 1..n /\ in[s].kind \in {"MEAS", "EXTRA"}
    BY <1>0, <1>4, <1>5 DEF Blocks
  <2> QED
    BY <2>1 DEF OneProtocol
<1>9. /\ r.pending # None => r.pendingStart = s /\ r.pending.t = in[s].t
      /\ r.pending = None => up = s
  BY <1>1, <1>3 DEF Begin, Pending
<1> HIDE DEF f, s
<1> QED
  BY <1>0, <1>3, <1>4, <1>5, <1>7, <1>8, <1>9 DEF f, s

\* The group of a reader behind accepts the frames of its group again.
LEMMA GroupBehind ==
  ASSUME NEW in, Numbered(in), OneProtocol(in), NEW up \in 1..Len(in), NEW w, NEW r,
         ReaderInv(in, w, Len(in) + 1), ReaderInv(in, r, up), Behind(w, r, up),
         Content(in, r, up), Accepted(in, w)
  PROVE  LET g == Group(r, in[up]) IN Behind(w, g, up + 1) /\ Content(in, g, up + 1)
                                      /\ g.reportedTail = r.reportedTail
<1> DEFINE f == in[up]  s == w.pendingStart  n == Len(in)  g == Group(r, f)
<1>1. /\ n \in Nat /\ up \in Nat \ {0} /\ f \in Frame /\ f.n = up
      /\ s \in 1..up /\ in[s].t = w.pending.t /\ in[s].kind \in Blocks
      /\ w.pending.rows = MeasIn(in, s, n)
      /\ r.pending # None => Pending(in, r, up) /\ r.pendingStart = s
      /\ r.pending = None => up = s
      /\ f.kind \in Blocks => f.t = w.pending.t
      /\ f.kind = "END" => f.t # w.pending.t
      /\ f.kind # "RAWX"
      /\ r.pending # None => r.pending.t = w.pending.t
  BY BehindGroup
<1>2. /\ ~r.failed /\ r.last = w.last /\ Shape(r) /\ Withholds(r) /\ Grouped(in, r, up)
      /\ w.pending # None /\ Alike(w, w)
  BY BehindFields DEF Behind, ReaderInv
<1>3. Listed(r) /\ IsFcn(w.last) /\ DOMAIN w.last = LastFields
  BY <1>2 DEF Listed, Behind, Alike
<1>4. g.out = r.out
  BY <1>2, ReadAgainGroup
<1>5. CASE f.kind \in Blocks
  <2>1. f.kind = "MEAS" => up \in w.pending.rows
    BY <1>1 DEF MeasIn
  <2>2. f.kind = "MEAS" => ~Conflicts(Old(r, f), f.v)
    <3> SUFFICES ASSUME f.kind = "MEAS" PROVE ~Conflicts(Old(r, f), f.v)
      OBVIOUS
    <3>1. Agreeing(in, w.pending.rows)
      BY <1>2 DEF Accepted
    <3>2. Earlier(w.pending.rows, up) = MeasIn(in, s, up - 1)
      <4>1. \A x \in Int : x \in s..n /\ x < up <=> x \in s..(up - 1)
        BY <1>1
      <4>2. s \in Int /\ n \in Int /\ up - 1 \in Int
        BY <1>1
      <4>3. \A x : x \in s..n /\ x < up <=> x \in s..(up - 1)
        BY <4>1, <4>2
      <4> HIDE DEF s, n
      <4> QED
        BY <1>1, <4>3 DEF Earlier, MeasIn
    <3>3. CounterAt(in, MeasIn(in, s, up - 1), Old(r, f))
      <4>1. CASE r.pending = None
        <5>1. up = s /\ Old(r, f) = None
          BY <1>1, <4>1 DEF Old, Belongs
        <5>2. MeasIn(in, up, up - 1) = {}
          BY <1>1 DEF MeasIn
        <5> HIDE DEF s
        <5> QED
          BY <5>1, <5>2 DEF CounterAt
      <4>2. CASE r.pending # None
        <5>1. Old(r, f) = r.pending.counter
          BY <1>1, <1>5, <4>2 DEF Old, Belongs
        <5>2. r.pending.rows = MeasIn(in, s, up - 1)
          BY <1>1, <4>2 DEF Pending
        <5>3. CounterAt(in, r.pending.rows, r.pending.counter)
          BY <4>2 DEF Content
        <5> HIDE DEF s
        <5> QED
          BY <5>1, <5>2, <5>3
      <4> QED
        BY <4>1, <4>2
    <3> HIDE DEF s
    <3> QED
      BY <2>1, <3>1, <3>2, <3>3 DEF Agreeing
  <2>3. ~g.failed /\ Leaves(r, g) /\ g.cadence = r.cadence
    BY <1>1, <1>2, <1>3, <1>5, <2>2, BlockIs
  <2>4. g.last = r.last
    <3>1. g.last = IF f.kind = "MEAS" /\ f.t # None THEN [r.last EXCEPT !.observation = f.t]
                   ELSE r.last
      BY <1>1, <1>2, <1>3, <1>5, BlockIs
    <3>2. CASE f.kind = "MEAS" /\ f.t # None
      <4>1. w.last.observation = f.t
        BY <1>1, <1>2, <1>5, <2>1, <3>2 DEF Accepted
      <4>2. [w.last EXCEPT !.observation = f.t] = w.last
        BY <1>3, <4>1 DEF IsFcn, LastFields
      <4> QED
        BY <1>2, <3>1, <3>2, <4>2
    <3>3. CASE ~(f.kind = "MEAS" /\ f.t # None)
      BY <3>1, <3>3
    <3> QED
      BY <3>2, <3>3
  <2>5. g.pending # None /\ g.pendingStart = s
    <3>1. g.pending # None /\ g.pendingStart = IF Belongs(r, f) THEN r.pendingStart ELSE up
      BY <1>1, <1>2, <1>5, <2>3, BlockPends
    <3> QED
      BY <1>1, <1>5, <3>1 DEF Belongs
  <2>6. Content(in, g, up + 1)
    BY <1>1, <1>2, <1>3, <1>5, <2>3, BlockContent
  <2> HIDE DEF g, s
  <2>7. Behind(w, g, up + 1)
    <3>1. Begin(g, up + 1) = w.pendingStart
      BY <2>5 DEF Begin, s
    <3>2. /\ DOMAIN g = ReaderFields /\ g.failed = r.failed
          /\ \A x \in Outside : g[x] = r[x]
      <4>1. r.failed \in BOOLEAN /\ g.failed \in BOOLEAN
        <5>1. Quiet(r, Group(r, f))
          BY <1>2, ReadAgainGroup
        <5> QED
          BY <1>2, <5>1 DEF Quiet, Kept, Shape, g
      <4> QED
        BY <1>2, <2>3, <4>1 DEF Leaves
    <3>3. \A x \in {"clock", "tele", "pos", "next", "closure", "navConflict", "last", "cadence",
                    "failed", "out"} : g[x] = r[x]
      BY <1>4, <2>3, <2>4, <3>2 DEF Outside
    <3> QED
      BY <3>1, <3>2, <3>3, BehindKept
  <2>8. g.reportedTail = r.reportedTail
    BY <2>3 DEF Leaves, Outside
  <2> QED
    BY <2>6, <2>7, <2>8 DEF g
<1>6. CASE f.kind \notin Blocks
  <2>1. r.pending # None /\ Pending(in, r, up) /\ r.pendingStart = s
    BY <1>1, <1>6
  <2>2. g = r
    <3>1. CASE f.kind = "END"
      <4>1. ~Belongs(r, f)
        BY <1>1, <2>1, <3>1 DEF Belongs
      <4> QED
        BY <1>2, <3>1, <4>1, GroupEnd
    <3>2. CASE f.kind # "END"
      BY <1>1, <1>6, <3>2, GroupOther DEF GroupKinds, Blocks
    <3> QED
      BY <3>1, <3>2
  <2>3. Content(in, r, up + 1)
    <3>1. SameWork(r, r) /\ in[up].kind # "EXTRA"
      BY <1>6 DEF SameWork, Blocks
    <3> QED
      BY <1>1, <2>1, <3>1, ContentStays
  <2>4. Behind(w, r, up + 1)
    <3>1. Begin(r, up + 1) = w.pendingStart /\ DOMAIN r = ReaderFields
      BY <2>1 DEF Begin, Behind
    <3> QED
      BY <3>1, BehindKept
  <2> HIDE DEF g
  <2> QED
    BY <2>2, <2>3, <2>4 DEF g
<1> QED
  BY <1>5, <1>6

\* Neither the limit nor the delivery does anything to a reader behind.
LEMMA RereadBehind ==
  ASSUME NEW in, Numbered(in), OneProtocol(in), NEW up \in 1..Len(in), NEW w, NEW r,
         ReaderInv(in, w, Len(in) + 1), ReaderInv(in, r, up), Behind(w, r, up),
         Content(in, r, up), Accepted(in, w), Tidy(w)
  PROVE  LET q == Reread(r, in[up]) IN Behind(w, q, up + 1) /\ Content(in, q, up + 1)
                                       /\ q.reportedTail = r.reportedTail
<1> DEFINE f == in[up]  m == Limit(r)  g == Group(m, f)  d == Deliver(g)  q == Reread(r, f)
<1>1. /\ Shape(r) /\ DOMAIN r = ReaderFields /\ r.tele.updates = 0
      /\ Like(w.tele, r.tele) /\ Begin(r, up) = w.pendingStart
  BY DEF ReaderInv, Behind
<1>2. Bound(r.tele, r.pos) = r.tele
  BY <1>1, BoundAssumption DEF Bound
<1>3. DOMAIN m = ReaderFields /\ \A x \in ReaderFields : m[x] = r[x]
  <2>1. m = [r EXCEPT !.tele = Bound(r.tele, r.pos)]
    BY <1>1 DEF Limit, ReaderFields
  <2>2. m = [r EXCEPT !.tele = r.tele]
    BY <1>2, <2>1
  <2> HIDE DEF m
  <2> QED
    BY <1>1, <2>2 DEF ReaderFields
<1> HIDE DEF m
<1>4. /\ SameWork(r, m) /\ m.clock = r.clock /\ m.out = r.out /\ m.tele = r.tele
      /\ m.reportedTail = r.reportedTail
  BY <1>3 DEF SameWork, ReaderFields
<1>5. ReaderInv(in, m, up)
  <2>1. Shape(m)
    BY <1>1, <1>3, <1>4 DEF Shape, SameWork
  <2> QED
    BY <1>4, <2>1, InvSame
<1>6. Behind(w, m, up)
  <2>1. Begin(m, up) = w.pendingStart
    BY <1>1, <1>4 DEF Begin, SameWork
  <2>2. \A x \in {"clock", "tele", "pos", "next", "closure", "navConflict", "last", "cadence",
                  "failed", "out"} : m[x] = r[x]
    BY <1>3 DEF ReaderFields
  <2> QED
    BY <1>3, <2>1, <2>2, BehindKept
<1>7. Content(in, m, up)
  BY <1>4 DEF Content, SameWork
<1>8. Behind(w, g, up + 1) /\ Content(in, g, up + 1) /\ g.reportedTail = r.reportedTail
  BY <1>4, <1>5, <1>6, <1>7, GroupBehind
<1>9. q = IF g.failed \/ Raised(g.tele) THEN [r EXCEPT !.failed = TRUE] ELSE d
  BY DEF Reread, Settled, m
<1> HIDE DEF g, q
<1>10. /\ ~g.failed /\ ~Raised(g.tele) /\ g.tele.ready = <<>> /\ DOMAIN g = ReaderFields
       /\ IsFcn(g.tele) /\ DOMAIN g.tele = TeleFields /\ g.out = w.out
       /\ Begin(g, up + 1) = w.pendingStart
  <2>1. Like(w.tele, g.tele)
    BY <1>8 DEF Behind
  <2>2. w.tele.ready = g.tele.ready /\ (Raised(w.tele) <=> Raised(g.tele))
    BY <2>1, LikeFields, RaisedLike
  <2>3. IsFcn(g.tele) /\ DOMAIN g.tele = TeleFields
    BY <2>1 DEF Like, TeleForm
  <2>4. ~g.failed /\ g.out = w.out
    BY <1>8, BehindFields DEF Behind
  <2> QED
    BY <1>8, <2>2, <2>3, <2>4 DEF Tidy, Behind
<1>11. q = d
  BY <1>9, <1>10
<1>12. /\ DOMAIN d = ReaderFields /\ \A x \in ReaderFields \ {"tele", "out"} : d[x] = g[x]
       /\ d.tele = [g.tele EXCEPT !.ready = <<>>]
       /\ d.out = [g.out EXCEPT !.rows = g.out.rows \o g.tele.ready]
  BY <1>10, DeliverLeaves
<1> HIDE DEF d
<1>13. d.tele = g.tele
  BY <1>10, <1>12 DEF IsFcn, TeleFields
<1>14. d.out = g.out
  <2>1. IsFcn(w.out) /\ DOMAIN w.out = OutFields /\ IsSeq(w.out.rows)
    BY DEF Behind, Alike
  <2>2. w.out.rows \o <<>> = w.out.rows
    <3>1. PICK S : w.out.rows \in Seq(S)
      BY <2>1 DEF IsSeq
    <3> QED
      BY <3>1, ConcatEmptySeq
  <2>3. d.out = [w.out EXCEPT !.rows = w.out.rows]
    BY <1>10, <1>12, <2>2
  <2> QED
    BY <1>10, <2>1, <2>3 DEF IsFcn, OutFields
<1>15. \A x \in ReaderFields : d[x] = g[x]
  BY <1>12, <1>13, <1>14 DEF ReaderFields
<1>16. Behind(w, d, up + 1)
  <2>1. \A x \in {"clock", "tele", "pos", "next", "closure", "navConflict", "last", "cadence",
                  "failed", "out"} : d[x] = g[x]
    BY <1>15 DEF ReaderFields
  <2>2. Begin(d, up + 1) = w.pendingStart
    BY <1>10, <1>15 DEF Begin, ReaderFields
  <2> QED
    BY <1>8, <1>12, <2>1, <2>2, BehindKept
<1>17. Content(in, d, up + 1) /\ d.reportedTail = r.reportedTail
  BY <1>8, <1>15 DEF Content, ReaderFields
<1> QED
  BY <1>11, <1>16, <1>17 DEF q

\* At the last frame the group is the one that was withheld.
LEMMA CatchUp ==
  ASSUME NEW in, Len(in) \in Nat, NEW w, NEW r,
         ReaderInv(in, w, Len(in) + 1), ReaderInv(in, r, Len(in) + 1),
         Behind(w, r, Len(in) + 1), Content(in, w, Len(in) + 1), Content(in, r, Len(in) + 1)
  PROVE  Alike(w, r)
<1> DEFINE n == Len(in)  s == w.pendingStart  rows == MeasIn(in, s, n)
<1>0. (n + 1) - 1 = n
  OBVIOUS
<1>1. /\ ~w.failed /\ ~r.failed /\ w.pending # None /\ Begin(r, n + 1) = s
  BY BehindFields DEF Behind
<1>2. Pending(in, w, n + 1) /\ w.pending \in PendingGroup /\ (r.pending # None => Pending(in, r, n + 1))
  BY <1>1 DEF ReaderInv, Grouped, Withholds
<1>3. s \in 1..n
  BY <1>0, <1>2 DEF Pending
<1>4. r.pending # None /\ r.pendingStart = s
  BY <1>1, <1>3 DEF Begin
<1>5. Pending(in, r, n + 1) /\ r.pending \in PendingGroup
  BY <1>2, <1>4 DEF ReaderInv, Withholds
<1>6. /\ w.pending.rows = rows /\ r.pending.rows = rows
      /\ w.pending.t = r.pending.t
      /\ w.hasMeasurements <=> r.hasMeasurements
  BY <1>0, <1>2, <1>4, <1>5 DEF Pending
<1>7. w.extras = r.extras
  BY <1>1, <1>4 DEF Content
<1>8. w.pending.counter = r.pending.counter
  <2>1. rows \subseteq Int
    BY <1>3 DEF MeasIn
  <2>2. CounterAt(in, rows, w.pending.counter) /\ CounterAt(in, rows, r.pending.counter)
    BY <1>1, <1>4, <1>6 DEF Content
  <2> HIDE DEF rows
  <2> QED
    BY <2>1, <2>2, CounterOnly
<1>9. w.pending = r.pending
  <2> HIDE DEF rows
  <2> QED
    BY <1>2, <1>5, <1>6, <1>8 DEF PendingGroup
<1>10. w.hasMeasurements = r.hasMeasurements
  BY <1>6 DEF ReaderInv, Shape
<1>11. \A x \in Shared : w[x] = r[x]
  BY <1>7, <1>9, <1>10 DEF Behind, Shared, OwnGroup, ReaderFields
<1> QED
  BY <1>4, <1>11 DEF Behind, Alike

\* What a checkpoint keeps is all that a later frame can observe, but the group.
LEMMA RestoreSame ==
  ASSUME NEW w, NEW r, Alike(w, r), Alike(w, w), Tidy(w), Withholds(r), Shape(w), Shape(r), ~r.failed,
         NEW in, NEW n, Content(in, r, n)
  PROVE  LET q == [Restore(Checkpoint(r)) EXCEPT !.out = r.out] IN
           /\ q.reportedTail = None /\ q.pos.index = 0
           /\ \A up : Content(in, q, up)
           /\ r.pending = None => Alike(w, q)
           /\ r.pending # None => Behind(w, q, r.pendingStart)
<1> DEFINE saved == Checkpoint(r)  p == Restore(saved)  q == [p EXCEPT !.out = r.out]
           t == [r.tele EXCEPT !.updates = 0]
           at == [anchor |-> r.pos.anchor, index |-> 0]
<1>1. /\ saved.clock = r.clock /\ saved.tele = t /\ saved.closure = r.closure
      /\ saved.navConflict = r.navConflict /\ saved.last = r.last /\ saved.cadence = r.cadence
      /\ saved.orderAnchor = r.pos.anchor /\ saved.next = r.next
  BY DEF Checkpoint
<1> HIDE DEF saved, t
<1>2. /\ DOMAIN p = ReaderFields /\ p.clock = saved.clock /\ p.tele = saved.tele
      /\ p.closure = saved.closure /\ p.navConflict = saved.navConflict /\ p.last = saved.last
      /\ p.cadence = saved.cadence /\ p.next = saved.next
      /\ p.pos = [anchor |-> saved.orderAnchor, index |-> 0]
      /\ p.pending = None /\ p.extras = {} /\ p.hasMeasurements = FALSE
      /\ p.reportedTail = None /\ p.failed = FALSE
  <2> DEFINE fresh == FreshReader  home == [fresh.pos EXCEPT !.anchor = saved.orderAnchor]
  <2>1. /\ DOMAIN fresh = ReaderFields /\ fresh.pos = [anchor |-> None, index |-> 0]
        /\ fresh.pending = None /\ fresh.extras = {} /\ fresh.hasMeasurements = FALSE
        /\ fresh.reportedTail = None /\ fresh.failed = FALSE
    BY DEF FreshReader, ReaderFields
  <2>2. home = [anchor |-> saved.orderAnchor, index |-> 0]
    BY <2>1
  <2> HIDE DEF fresh, home
  <2>3. p = [fresh EXCEPT !.clock = saved.clock, !.tele = saved.tele,
                          !.closure = saved.closure, !.navConflict = saved.navConflict,
                          !.last = saved.last, !.cadence = saved.cadence,
                          !.pos = home, !.next = saved.next]
    BY <2>1 DEF Restore, fresh, home, ReaderFields
  <2> HIDE DEF p
  <2> QED
    BY <2>1, <2>2, <2>3 DEF ReaderFields
<1> HIDE DEF p
<1>3. /\ DOMAIN q = ReaderFields /\ q.out = r.out
      /\ \A x \in ReaderFields \ {"out"} : q[x] = p[x]
  BY <1>2 DEF ReaderFields
<1> HIDE DEF q
<1>4. /\ q.clock = r.clock /\ q.tele = t /\ q.closure = r.closure /\ q.out = r.out
      /\ q.navConflict = r.navConflict /\ q.last = r.last /\ q.cadence = r.cadence
      /\ q.next = r.next /\ q.pos = at
      /\ q.pending = None /\ q.extras = {} /\ q.hasMeasurements = FALSE
      /\ q.reportedTail = None /\ q.failed = FALSE
  BY <1>1, <1>2, <1>3 DEF ReaderFields
<1>5. PosForm(at) /\ at.anchor = r.pos.anchor /\ at.index = 0
  BY DEF PosForm, PosFields, IsFcn
<1>6. Like(w.tele, t) /\ t.updates = 0
  <2>1. Like(w.tele, r.tele)
    BY DEF Alike
  <2>2. /\ TeleForm(t) /\ t.updates = 0
        /\ \A x \in TeleFields \ {"updates"} : t[x] = r.tele[x]
    BY <2>1 DEF Like, TeleForm, TeleFields, IsFcn, t
  <2>3. BoundEvery = 1 => w.tele = t
    <3> SUFFICES ASSUME BoundEvery = 1 PROVE w.tele = t
      OBVIOUS
    <3>1. w.tele = r.tele /\ w.tele.updates = 0
      BY <2>1 DEF Like, Tidy
    <3>2. \A x \in TeleFields : w.tele[x] = t[x]
      BY <2>2, <3>1 DEF TeleFields
    <3> QED
      BY <2>1, <2>2, <3>2 DEF Like, TeleForm, IsFcn
  <2> QED
    BY <2>1, <2>2, <2>3 DEF Like
<1> HIDE DEF at
<1>7. /\ w.clock = r.clock /\ w.next = r.next /\ w.closure = r.closure
      /\ w.navConflict = r.navConflict /\ w.last = r.last /\ w.cadence = r.cadence
      /\ w.pending = r.pending /\ w.extras = r.extras /\ w.failed = r.failed
      /\ w.hasMeasurements = r.hasMeasurements /\ w.out = r.out
      /\ w.pos.anchor = r.pos.anchor /\ w.failed = FALSE
  BY TwinFields DEF Alike, Shape
<1>8. \A x \in Shared \ OwnGroup : w[x] = q[x]
  BY <1>4, <1>7, ZenonT(60) DEF Shared, OwnGroup, ReaderFields
<1>9. \A up : Content(in, q, up)
  BY <1>4 DEF Content
<1>10. ASSUME r.pending = None PROVE Alike(w, q)
  <2>1. r.extras = {} /\ r.hasMeasurements = FALSE
    BY <1>10 DEF Content, Withholds, Shape
  <2>2. \A x \in Shared : w[x] = q[x]
    <3>1. \A x \in OwnGroup : w[x] = q[x]
      BY <1>4, <1>7, <1>10, <2>1 DEF OwnGroup
    <3> QED
      BY <1>8, <3>1
  <2> QED
    BY <1>3, <1>4, <1>5, <1>6, <1>7, <1>10, <2>2 DEF Alike
<1>11. ASSUME r.pending # None PROVE Behind(w, q, r.pendingStart)
  <2>1. Begin(q, r.pendingStart) = w.pendingStart
    BY <1>4, <1>7, <1>11 DEF Begin, Alike
  <2> QED
    BY <1>3, <1>4, <1>5, <1>6, <1>7, <1>8, <1>11, <2>1 DEF Behind
<1> QED
  BY <1>4, <1>5, <1>9, <1>10, <1>11 DEF q, p, saved

(***************************************************************************)
(* The two readers.                                                        *)
(***************************************************************************)

LEMMA LikeSelf == ASSUME NEW t, NEW u, Like(t, u) PROVE Like(t, t) /\ Like(u, u)
BY DEF Like

\* Readers that are alike have the form the lemmas ask for.
LEMMA AlikeSelf == ASSUME NEW r, NEW q, Alike(r, q) PROVE Alike(r, r) /\ Alike(q, q)
<1>1. Like(r.tele, r.tele) /\ Like(q.tele, q.tele)
  BY LikeSelf DEF Alike
<1>2. r.out = q.out /\ r.last = q.last
  BY TwinFields
<1> QED
  BY <1>1, <1>2 DEF Alike

\* The reader that never stopped, and the one that did and is at frame up.
Joint(in, w, r, up) ==
    /\ ReaderInv(in, w, Len(in) + 1) /\ ReaderInv(in, r, up)
    /\ Alike(w, w) /\ Tidy(w) /\ w.next \in Nat
    /\ IF in = <<>> THEN w.pos.index = 0 /\ w.next = 0 /\ r.pos.index = 0
       ELSE w.failed \/ w.pos.index = w.next - 1
    /\ r.reportedTail \in {None, w.reportedTail}
    /\ ~w.failed => Content(in, w, Len(in) + 1) /\ Accepted(in, w)
    /\ ~r.failed => Content(in, r, up)
    /\ IF up = Len(in) + 1 THEN Alike(w, r) ELSE Behind(w, r, up)

\* Of readers that are alike, one holds what the frames of the group say.
LEMMA ContentTwin ==
  ASSUME NEW w, NEW r, Alike(w, r), NEW in, NEW up, Content(in, w, up)
  PROVE  Content(in, r, up)
<1>1. w.pending = r.pending /\ w.extras = r.extras
  BY TwinFields
<1>2. w.pending # None => w.pendingStart = r.pendingStart
  BY DEF Alike
<1> QED
  BY <1>1, <1>2 DEF Content

LEMMA JointStart == Joint(<<>>, FreshReader, FreshReader, 1)
<1> DEFINE r == FreshReader  t == FreshAssembler  home == [anchor |-> None, index |-> 0]
           dates == [navigation |-> None, observation |-> None]  in == <<>>
<1>1. /\ DOMAIN r = ReaderFields /\ r.tele = t /\ r.pos = home /\ r.next = 0
      /\ r.pending = None /\ r.extras = {} /\ r.failed = FALSE
      /\ r.reportedTail = None /\ r.out = Nothing /\ r.last = dates
  BY DEF FreshReader, ReaderFields
<1>2. PosForm(home) /\ home.index = 0
  BY DEF PosForm, PosFields, IsFcn
<1>3. IsFcn(dates) /\ DOMAIN dates = LastFields
  BY DEF LastFields, IsFcn
<1>4. IsFcn(Nothing) /\ DOMAIN Nothing = OutFields /\ IsSeq(Nothing.rows)
  <2>1. Nothing.rows = <<>>
    BY DEF Nothing
  <2>2. IsSeq(Nothing.rows)
    BY <2>1, EmptyIsSeq
  <2> QED
    BY <2>2 DEF Nothing, OutFields, IsFcn
<1>5. /\ t.current = EmptyRow /\ t.before = EmptyRow /\ t.future = <<>> /\ t.ready = <<>>
      /\ t.updates = 0 /\ DOMAIN t = TeleFields /\ IsFcn(t)
  BY DEF FreshAssembler, TeleFields, IsFcn
<1>6. DOMAIN <<>> = {} /\ IsFiniteSet({}) /\ EmptyRow.clash = FALSE /\ Len(<<>>) = 0
  BY FS_EmptySet DEF EmptyRow
<1> HIDE DEF r, t, home, dates
<1>7. Like(t, t)
  BY <1>5, <1>6, EmptyIsSeq DEF Like, TeleForm
<1>8. Alike(r, r)
  BY <1>1, <1>2, <1>3, <1>4, <1>7 DEF Alike
<1>9. Tidy(r)
  BY <1>1, <1>5, <1>6 DEF Tidy, Raised, Keys
<1>10. Content(in, r, 1) /\ Accepted(in, r)
  BY <1>1 DEF Content, Accepted
<1>11. ReaderInv(in, r, 1) /\ Len(in) + 1 = 1
  BY <1>6, StartInv DEF r
<1> HIDE DEF in
<1>12. in = <<>>
  BY DEF in
<1>13. Joint(in, r, r, 1)
  BY <1>1, <1>2, <1>8, <1>9, <1>10, <1>11, <1>12 DEF Joint
<1> QED
  BY <1>13 DEF in, r

\* A new frame, which both read.
LEMMA JointFeed ==
  ASSUME NEW old, NEW in, NEW f \in Frame, Grown(old, in, f), Numbered(old), Numbered(in),
         f.n = Len(old) + 1, OneProtocol(in),
         NEW w, NEW r, Joint(old, w, r, Len(old) + 1), ~w.failed,
         BoundEvery = 1 \/ ~(Load(Worked(w, f).tele) > MaxItems)
  PROVE  Joint(in, Consume(w, f), Consume(r, f), Len(old) + 2)
<1> DEFINE k == Len(old)  p == Consume(w, f)  q == Consume(r, f)
<1>0. k \in Nat /\ Len(in) = k + 1 /\ Len(in) + 1 = k + 2 /\ in # <<>>
  BY DEF Grown
<1>1. /\ ReaderInv(old, w, k + 1) /\ ReaderInv(old, r, k + 1) /\ Alike(w, r)
      /\ Tidy(w) /\ w.next \in Nat /\ r.reportedTail \in {None, w.reportedTail}
      /\ Content(old, w, k + 1) /\ Accepted(old, w)
  BY DEF Joint
<1>2. Alike(w, w) /\ Alike(r, r) /\ ~r.failed
  BY <1>1, AlikeSelf, TwinFields
<1>3. /\ Shape(w) /\ Withholds(w) /\ Withholds(r) /\ Grouped(old, w, k + 1)
      /\ Anchored(old, w, k) /\ BitsFresh(old, w.out.events, w.out.bits)
  BY <1>1 DEF ReaderInv
<1>4. ReaderInv(in, p, k + 2) /\ ReaderInv(in, q, k + 2)
  BY <1>1, <1>2, ConsumeStep
<1>5. Alike(p, q)
  BY <1>1, ConsumeTwin
<1>6. /\ p.reportedTail = w.reportedTail /\ q.reportedTail = r.reportedTail /\ Tidy(p)
      /\ p.next \in Nat /\ (p.failed \/ p.pos.index = p.next - 1)
  BY <1>1, <1>2, <1>3, ConsumeLeaves
<1>7. Shape(Merged(w, f))
  BY <1>3, MergedBits DEF Calm
<1>8. ~p.failed => Content(in, p, k + 2) /\ Accepted(in, p)
  BY <1>1, <1>2, <1>3, <1>7, ConsumeContent
<1> HIDE DEF p, q
<1>9. ~q.failed => Content(in, q, k + 2)
  BY <1>5, <1>8, TwinFields, ContentTwin
<1>10. Alike(p, p)
  BY <1>5, AlikeSelf
<1>11. Joint(in, p, q, k + 2)
  BY <1>0, <1>1, <1>4, <1>5, <1>6, <1>8, <1>9, <1>10 DEF Joint
<1> QED
  BY <1>11 DEF p, q

\* A frame read again.
LEMMA JointReread ==
  ASSUME NEW in, Numbered(in), OneProtocol(in), NEW up \in 1..Len(in), Len(in) \in Nat,
         NEW w, NEW r, Joint(in, w, r, up)
  PROVE  Joint(in, w, Reread(r, in[up]), up + 1)
<1> DEFINE q == Reread(r, in[up])
<1>0. up # Len(in) + 1 /\ in # <<>>
  <2>1. in = <<>> => Len(in) = 0
    OBVIOUS
  <2> QED
    BY <2>1
<1>1. /\ ReaderInv(in, w, Len(in) + 1) /\ ReaderInv(in, r, up)
      /\ Alike(w, w) /\ Tidy(w) /\ w.next \in Nat
      /\ w.failed \/ w.pos.index = w.next - 1
      /\ r.reportedTail \in {None, w.reportedTail} /\ Behind(w, r, up)
      /\ ~w.failed => Content(in, w, Len(in) + 1) /\ Accepted(in, w)
      /\ ~r.failed => Content(in, r, up)
  BY <1>0 DEF Joint
<1>2. /\ ~w.failed /\ ~r.failed
  BY <1>1, BehindFields DEF Behind
<1>3. Behind(w, q, up + 1) /\ Content(in, q, up + 1) /\ q.reportedTail = r.reportedTail
  BY <1>1, <1>2, RereadBehind
<1>4. ReaderInv(in, q, up + 1)
  BY <1>1, RereadStep
<1> HIDE DEF q
<1>5. up + 1 = Len(in) + 1 => Alike(w, q)
  BY <1>1, <1>2, <1>3, <1>4, CatchUp
<1>6. Joint(in, w, q, up + 1)
  BY <1>0, <1>1, <1>3, <1>4, <1>5 DEF Joint
<1> QED
  BY <1>6 DEF q

\* A new invocation.
LEMMA JointContinue ==
  ASSUME NEW in, Len(in) \in Nat, NEW w, NEW r, Joint(in, w, r, Len(in) + 1), ~r.failed
  PROVE  Joint(in, w, [Restore(Checkpoint(r)) EXCEPT !.out = r.out], Begin(r, Len(in) + 1))
<1> DEFINE q == [Restore(Checkpoint(r)) EXCEPT !.out = r.out]  from == Begin(r, Len(in) + 1)
<1>1. /\ ReaderInv(in, w, Len(in) + 1) /\ ReaderInv(in, r, Len(in) + 1)
      /\ Alike(w, w) /\ Tidy(w) /\ w.next \in Nat
      /\ IF in = <<>> THEN w.pos.index = 0 /\ w.next = 0
         ELSE w.failed \/ w.pos.index = w.next - 1
      /\ ~w.failed => Content(in, w, Len(in) + 1) /\ Accepted(in, w)
      /\ Content(in, r, Len(in) + 1) /\ Alike(w, r)
  BY DEF Joint
<1>2. Withholds(r) /\ Shape(w) /\ Shape(r) /\ Grouped(in, r, Len(in) + 1)
  BY <1>1 DEF ReaderInv
<1>3. /\ q.reportedTail = None /\ q.pos.index = 0
      /\ \A up : Content(in, q, up)
      /\ r.pending = None => Alike(w, q)
      /\ r.pending # None => Behind(w, q, r.pendingStart)
  BY <1>1, <1>2, RestoreSame
<1>4. ReaderInv(in, q, from)
  BY <1>1, RestoreStep
<1> HIDE DEF q
<1>5. r.pending # None => from = r.pendingStart /\ from # Len(in) + 1
  <2>1. (Len(in) + 1) - 1 = Len(in)
    OBVIOUS
  <2> QED
    BY <1>2, <2>1 DEF Begin, Grouped, Pending
<1>6. r.pending = None => from = Len(in) + 1
  BY DEF Begin
<1> HIDE DEF from
<1>7. IF from = Len(in) + 1 THEN Alike(w, q) ELSE Behind(w, q, from)
  BY <1>3, <1>5, <1>6
<1>8. Joint(in, w, q, from)
  BY <1>1, <1>3, <1>4, <1>7 DEF Joint
<1> QED
  BY <1>8 DEF q, from

\* A declared end of the whole input and of an invocation that read a frame.
LEMMA JointEnd ==
  ASSUME NEW in, Len(in) \in Nat, NEW w, NEW r, Joint(in, w, r, Len(in) + 1), ~r.failed,
         FrameRead(r), w.pending = None \/ w.reportedTail # w.pendingStart
  PROVE  Joint(in, DeclaredEnd(w), DeclaredEnd(r), Len(in) + 1)
<1> DEFINE p == DeclaredEnd(w)  q == DeclaredEnd(r)  n == Len(in)
<1>1. /\ ReaderInv(in, w, n + 1) /\ ReaderInv(in, r, n + 1) /\ Alike(w, r)
      /\ Tidy(w) /\ w.next \in Nat /\ r.reportedTail \in {None, w.reportedTail}
      /\ IF in = <<>> THEN w.next = 0 /\ r.pos.index = 0
         ELSE w.failed \/ w.pos.index = w.next - 1
  BY DEF Joint
<1>2. Alike(w, w) /\ Alike(r, r) /\ ~w.failed /\ r.next = w.next
  BY <1>1, AlikeSelf, TwinFields
<1>3. Content(in, w, n + 1) /\ Accepted(in, w)
  BY <1>2 DEF Joint
<1>4. in # <<>> /\ w.pos.index = w.next - 1
  BY <1>1, <1>2 DEF FrameRead
<1>5. Twin(w, r)
  <2>1. r.pos.index = w.pos.index
    BY <1>2, <1>4 DEF FrameRead
  <2>2. PosForm(w.pos) /\ PosForm(r.pos) /\ w.pos.anchor = r.pos.anchor
    BY <1>1 DEF Alike
  <2>3. w.pos = r.pos
    BY <2>1, <2>2 DEF PosForm, PosFields, IsFcn
  <2> QED
    BY <1>1, <2>3 DEF Twin
<1>6. w.pending = r.pending /\ w.hasMeasurements = r.hasMeasurements
  BY <1>1, TwinFields
<1>7. w.pending # None =>
        /\ w.pendingStart = r.pendingStart /\ w.reportedTail # w.pendingStart
        /\ r.reportedTail # r.pendingStart
  <2> SUFFICES ASSUME w.pending # None
               PROVE  /\ w.pendingStart = r.pendingStart /\ w.reportedTail # w.pendingStart
                      /\ r.reportedTail # r.pendingStart
    OBVIOUS
  <2>1. w.pendingStart = r.pendingStart
    BY <1>1 DEF Alike
  <2>2. Pending(in, w, n + 1) /\ (n + 1) - 1 = n
    BY <1>1, <1>2 DEF ReaderInv, Grouped
  <2>3. w.pendingStart \in Int
    BY <2>2 DEF Pending
  <2> QED
    BY <1>1, <2>1, <2>3, TimeAssumption
<1>8. Alike(p, q)
  BY <1>5, <1>7, EndTwin
<1>9. ReaderInv(in, p, n + 1) /\ ReaderInv(in, q, n + 1)
  BY <1>1, EndStep
<1>10. /\ SameWork(w, p) /\ p.last = w.last /\ p.next = w.next /\ p.pos = w.pos /\ Tidy(p)
       /\ p.reportedTail = IF w.pending # None /\ w.hasMeasurements /\ w.reportedTail # w.pendingStart
                           THEN w.pendingStart ELSE w.reportedTail
  BY <1>1, <1>2, EndLeaves
<1>11. /\ SameWork(r, q)
       /\ q.reportedTail = IF r.pending # None /\ r.hasMeasurements /\ r.reportedTail # r.pendingStart
                           THEN r.pendingStart ELSE r.reportedTail
  BY <1>2, EndLeaves
<1> HIDE DEF p, q
<1>12. q.reportedTail \in {None, p.reportedTail}
  BY <1>1, <1>6, <1>7, <1>10, <1>11
<1>13. Content(in, p, n + 1) /\ Accepted(in, p)
  BY <1>3, <1>10 DEF SameWork, Content, Accepted
<1>14. Content(in, q, n + 1)
  BY <1>8, <1>13, ContentTwin
<1>15. Alike(p, p)
  BY <1>8, AlikeSelf
<1>16. Joint(in, p, q, n + 1)
  BY <1>1, <1>4, <1>8, <1>9, <1>10, <1>12, <1>13, <1>14, <1>15 DEF Joint
<1> QED
  BY <1>16 DEF p, q

(***************************************************************************)
(* What a later frame can observe, and the theorem.                        *)
(***************************************************************************)

\* Readers that are alike are the same in all that a later frame can observe.
LEMMA AlikeContext == ASSUME NEW r, NEW q, Alike(r, q) PROVE Context(q) = Context(r)
<1> DEFINE Home(x) == [x.pos EXCEPT !.index = 0]
           Looked(x) == [x.tele EXCEPT !.updates = 0]
           Start(x) == IF x.pending = None THEN None ELSE x.pendingStart
           Seen(x) == [x EXCEPT !.pos = Home(x), !.reportedTail = None, !.tele = Looked(x),
                                !.pendingStart = Start(x)]
<1>1. DOMAIN r = ReaderFields /\ DOMAIN q = ReaderFields
  BY DEF Alike
<1>2. Context(r) = Seen(r) /\ Context(q) = Seen(q)
  BY <1>1 DEF Context, ReaderFields
<1>3. Home(q) = Home(r)
  BY DEF Alike, PosForm, PosFields, IsFcn
<1>4. Looked(q) = Looked(r)
  <2>1. \A x \in TeleFields \ {"updates"} : q.tele[x] = r.tele[x]
    BY DEF Alike, Like
  <2>2. /\ DOMAIN Looked(q) = TeleFields /\ DOMAIN Looked(r) = TeleFields
        /\ IsFcn(Looked(q)) /\ IsFcn(Looked(r))
        /\ \A x \in TeleFields : Looked(q)[x] = Looked(r)[x]
    BY <2>1 DEF Alike, Like, TeleForm, TeleFields, IsFcn
  <2> HIDE DEF Looked
  <2> QED
    BY <2>2 DEF IsFcn
<1>5. Start(q) = Start(r)
  BY TwinFields DEF Alike
<1> DEFINE home == Home(r)  t == Looked(r)  start == Start(r)
<1>6. Seen(q) = [q EXCEPT !.pos = home, !.reportedTail = None, !.tele = t, !.pendingStart = start]
  BY <1>3, <1>4, <1>5
<1>7. Seen(r) = [r EXCEPT !.pos = home, !.reportedTail = None, !.tele = t, !.pendingStart = start]
  OBVIOUS
<1> HIDE DEF Seen, home, t, start
<1>8. \A x \in Shared : r[x] = q[x]
  BY DEF Alike
<1>9. /\ IsFcn(Seen(q)) /\ IsFcn(Seen(r))
      /\ DOMAIN Seen(q) = ReaderFields /\ DOMAIN Seen(r) = ReaderFields
  BY <1>1, <1>6, <1>7 DEF IsFcn
<1>10. \A x \in ReaderFields : Seen(q)[x] = Seen(r)[x]
  BY <1>1, <1>6, <1>7, <1>8 DEF Shared, ReaderFields
<1>11. Seen(q) = Seen(r)
  BY <1>9, <1>10 DEF IsFcn
<1> QED
  BY <1>2, <1>11

\* What holds of both readers after any step.
SameIInv ==
    ReadInv /\ Joint(input, whole, resumed, upcoming) /\ ends \in Nat

\* The steps for which the checkpoint holds all that matters: the pending size
\* is within its limit, and a declared end tells of no group again.
Ordinary ==
    /\ input' # input =>
         BoundEvery = 1 \/ ~(Load(Worked(whole, input'[Len(input')]).tele) > MaxItems)
    /\ ends' # ends => whole.pending = None \/ whole.reportedTail # whole.pendingStart

LEMMA InitSame == Init => SameIInv
<1> SUFFICES ASSUME Init PROVE SameIInv
  OBVIOUS
<1>1. ReadInv
  BY InitIInv DEF ReaderIInv
<1>2. Joint(input, whole, resumed, upcoming) /\ ends = 0
  BY JointStart DEF Init
<1> QED
  BY <1>1, <1>2 DEF SameIInv

LEMMA SameReads == ASSUME SameIInv PROVE ReaderIInv
BY DEF SameIInv, Joint, ReaderIInv

LEMMA FeedSame == ASSUME SameIInv, Feed, [Ordinary]_vars PROVE SameIInv'
<1> DEFINE k == Len(input)
<1>1. /\ ReadInv /\ Numbered(input) /\ Joint(input, whole, resumed, k + 1) /\ ~whole.failed
      /\ upcoming = k + 1
  BY DEF SameIInv, Feed, CaughtUp, ReadInv
<1>2. k \in Nat
  BY <1>1, ReadFacts
<1>3. PICK g \in family.frames :
        LET f == [n |-> k + 1, kind |-> g.kind, t |-> g.t, v |-> g.v]
        IN  /\ input' = Append(input, f)
            /\ whole' = Consume(whole, f) /\ resumed' = Consume(resumed, f)
  BY DEF Feed
<1> DEFINE f == [n |-> k + 1, kind |-> g.kind, t |-> g.t, v |-> g.v]
<1>4. f \in Frame /\ f.n = k + 1
  <2>1. g \in [kind : STRING, t : Time, v : Time]
    BY <1>1, FamilyAssumption DEF ReadInv
  <2> QED
    BY <1>2, <2>1 DEF Frame
<1>5. /\ input' = Append(input, f)
      /\ whole' = Consume(whole, f) /\ resumed' = Consume(resumed, f)
  BY <1>3
<1> HIDE DEF f
<1>6. Grown(input, input', f) /\ Numbered(input')
  BY <1>1, <1>4, <1>5, GrownFacts
<1>7. ReadInv'
  <2>1. ReaderIInv'
    BY FeedIInv, SameReads
  <2> QED
    BY <2>1 DEF ReaderIInv
<1>8. OneProtocol(input')
  <2>1. (ReadInv => OneProtocol(input))'
    BY ReadFacts, PTL
  <2> QED
    BY <1>7, <2>1
<1>9. BoundEvery = 1 \/ ~(Load(Worked(whole, f).tele) > MaxItems)
  <2>1. Len(input') = k + 1 /\ input'[Len(input')] = f
    BY <1>6 DEF Grown
  <2>2. input' # input
    BY <1>2, <2>1
  <2> QED
    BY <2>1, <2>2 DEF Ordinary, vars
<1>10. Joint(input', whole', resumed', k + 2)
  BY <1>1, <1>4, <1>5, <1>6, <1>8, <1>9, JointFeed
<1>11. upcoming' = k + 2 /\ ends' = ends
  BY <1>1, <1>2 DEF Feed
<1> QED
  BY <1>7, <1>10, <1>11 DEF SameIInv

LEMMA ReadAgainSame == ASSUME SameIInv, ReadAgain PROVE SameIInv'
<1>1. /\ ReadInv /\ Numbered(input) /\ Len(input) \in Nat /\ OneProtocol(input)
      /\ Joint(input, whole, resumed, upcoming)
  BY ReadFacts DEF SameIInv, ReadInv
<1>2. upcoming \in 1..Len(input)
  BY <1>1 DEF ReadAgain, CaughtUp, ReadInv
<1>3. /\ resumed' = Reread(resumed, input[upcoming]) /\ upcoming' = upcoming + 1
      /\ input' = input /\ whole' = whole /\ ends' = ends
  BY DEF ReadAgain
<1>4. Joint(input, whole, Reread(resumed, input[upcoming]), upcoming + 1)
  BY <1>1, <1>2, JointReread
<1>5. ReadInv'
  BY ReadAgainIInv, SameReads DEF ReaderIInv
<1> QED
  BY <1>3, <1>4, <1>5 DEF SameIInv

LEMMA ContinueSame == ASSUME SameIInv, Continue PROVE SameIInv'
<1>1. /\ Joint(input, whole, resumed, Len(input) + 1) /\ ~resumed.failed
      /\ upcoming = Len(input) + 1 /\ Len(input) \in Nat
  BY ReadFacts DEF SameIInv, Continue, CaughtUp
<1>2. /\ resumed' = [Restore(Checkpoint(resumed)) EXCEPT !.out = resumed.out]
      /\ upcoming' = Begin(resumed, Len(input) + 1) /\ input' = input /\ whole' = whole
      /\ ends' = ends
  BY <1>1 DEF Continue, ResumeOffset, Begin
<1>3. Joint(input', whole', resumed', upcoming')
  BY <1>1, <1>2, JointContinue
<1>4. ReadInv'
  BY ContinueIInv, SameReads DEF ReaderIInv
<1> QED
  BY <1>2, <1>3, <1>4 DEF SameIInv

LEMMA EndSame == ASSUME SameIInv, DeclareEnd, [Ordinary]_vars PROVE SameIInv'
<1>1. /\ Joint(input, whole, resumed, Len(input) + 1) /\ ~resumed.failed
      /\ upcoming = Len(input) + 1 /\ Len(input) \in Nat /\ FrameRead(resumed)
  BY ReadFacts DEF SameIInv, DeclareEnd, CaughtUp
<1>2. /\ whole' = DeclaredEnd(whole) /\ resumed' = DeclaredEnd(resumed)
      /\ input' = input /\ upcoming' = upcoming /\ ends \in Nat /\ ends' = ends + 1
  BY DEF DeclareEnd, SameIInv
<1>3. whole.pending = None \/ whole.reportedTail # whole.pendingStart
  <2>1. ends' # ends
    BY <1>2
  <2> QED
    BY <2>1 DEF Ordinary, vars
<1>4. Joint(input, DeclaredEnd(whole), DeclaredEnd(resumed), Len(input) + 1)
  BY <1>1, <1>3, JointEnd
<1>5. ReadInv'
  BY EndIInv, SameReads DEF ReaderIInv
<1> QED
  BY <1>1, <1>2, <1>4, <1>5 DEF SameIInv

LEMMA NextSame == SameIInv /\ [Next]_vars /\ [Ordinary]_vars => SameIInv'
<1> SUFFICES ASSUME SameIInv, [Next]_vars, [Ordinary]_vars PROVE SameIInv'
  OBVIOUS
<1>1. CASE Feed
  BY <1>1, FeedSame
<1>2. CASE Continue
  BY <1>2, ContinueSame
<1>3. CASE ReadAgain
  BY <1>3, ReadAgainSame
<1>4. CASE DeclareEnd
  BY <1>4, EndSame
<1>5. CASE UNCHANGED vars
  BY <1>5 DEF vars, SameIInv, ReadInv
<1> QED
  BY <1>1, <1>2, <1>3, <1>4, <1>5 DEF Next

LEMMA SameIs == ASSUME SameIInv PROVE ResumedSame
<1> SUFFICES ASSUME CaughtUp PROVE Context(resumed) = Context(whole)
  BY DEF ResumedSame
<1>1. Alike(whole, resumed)
  BY DEF SameIInv, Joint, CaughtUp
<1> QED
  BY <1>1, AlikeContext

\* An import continued from its checkpoints any number of times publishes what
\* one that never stopped publishes and goes on in the same state, over any
\* stream: provided that the pending telemetry stays within its limit (or its
\* size is looked at after every update), and that no declared end meets a group
\* an earlier one told of.  The count of updates and reported_tail are the two
\* things that a checkpoint leaves out, and without these two provisos a
\* continued import does publish something else.
THEOREM ContinuedSame == Spec /\ [][Ordinary]_vars => []ResumedSame
<1>1. Spec /\ [][Ordinary]_vars => []SameIInv
  BY InitSame, NextSame, PTL DEF Spec
<1>2. SameIInv => ResumedSame
  BY SameIs
<1> QED
  BY <1>1, <1>2, PTL
=============================================================================
