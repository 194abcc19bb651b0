------------------------- MODULE BroadcastFeedProofs -------------------------
(***************************************************************************)
(* Proofs about the broadcast decoder.  First its time arithmetic, for     *)
(* every time of reception (the run of Broadcast tries a few around the    *)
(* rollovers).  Then Galileo HAS: every correction that comes out refers   *)
(* to the mask and to the orbit message that its source announced, for     *)
(* every sequence of frames, losses and breaks.  The invariant (Standing)  *)
(* relates what the decoder keeps of a source to the log of what it gave   *)
(* out; it follows a message through its parser, row by row (Stage).       *)
(***************************************************************************)
EXTENDS BroadcastFeed, SequenceTheorems, WellFoundedInduction, TLAPS

(***************************************************************************)
(* Weeks and seconds of the week.                                          *)
(***************************************************************************)

LEMMA Cycle ==
  ASSUME NEW now \in Int, NEW modulo \in Nat \ {0}
  PROVE  /\ now % modulo \in 0..(modulo - 1)
         /\ \E k \in Int : now - (now % modulo) = k * modulo
<1>1. now = modulo * (now \div modulo) + (now % modulo) /\ now \div modulo \in Int
  OBVIOUS
<1>2. now % modulo \in 0..(modulo - 1)
  OBVIOUS
<1>3. now - (now % modulo) = (now \div modulo) * modulo
  BY <1>1, <1>2
<1> QED
  BY <1>1, <1>2, <1>3

\* reference() (broadcast_decoder.cpp): the week it returns is one that the
\* truncated week can stand for, and lies within half a cycle of the week of
\* reception, for every modulus, also an odd one.
THEOREM WeekIsNearest ==
  ASSUME NEW now \in Int, NEW modulo \in Nat \ {0}, NEW week \in 0..(modulo - 1)
  PROVE  /\ \E k \in Int : ReferenceWeek(now, week, modulo) = week + k * modulo
         /\ ReferenceWeek(now, week, modulo) - now \in (-modulo)..modulo
         /\ modulo % 2 = 0 => ReferenceWeek(now, week, modulo) - now \in (-(modulo \div 2))..(modulo \div 2)
<1> DEFINE r == ReferenceWeek(now, week, modulo)
           rest == now % modulo
           half == modulo \div 2
<1>1. PICK k \in Int : now - rest = k * modulo
  BY Cycle
<1>2. rest \in 0..(modulo - 1)
  BY Cycle
<1>3. half \in Nat /\ 2 * half =< modulo /\ modulo =< 2 * half + 1 /\ (modulo % 2 = 0 => modulo = 2 * half)
  OBVIOUS
<1>4. r \in {now + week - rest, now + week - rest - modulo, now + week - rest + modulo}
  BY DEF ReferenceWeek
<1>5. r - now \in (-modulo)..modulo /\ (modulo = 2 * half => r - now \in (-half)..half)
  <2> HIDE DEF rest, half
  <2>1. r = IF week - rest > half THEN now + week - rest - modulo
            ELSE IF rest - week > half THEN now + week - rest + modulo
            ELSE now + week - rest
    BY <1>2 DEF ReferenceWeek, rest, half
  <2> QED
    BY <2>1, <1>2, <1>3
<1>6. \E j \in Int : r = week + j * modulo
  <2> HIDE DEF rest, r
  <2>1. k - 1 \in Int /\ k + 1 \in Int /\ k * modulo \in Int /\ (k - 1) * modulo = k * modulo - modulo /\ (k + 1) * modulo = k * modulo + modulo
    OBVIOUS
  <2>2. CASE r = now + week - rest
    BY <2>2, <1>1, <1>2
  <2>3. CASE r = now + week - rest - modulo
    BY <2>3, <1>1, <1>2, <2>1
  <2>4. CASE r = now + week - rest + modulo
    BY <2>4, <1>1, <1>2, <2>1
  <2> QED
    BY <1>4, <2>2, <2>3, <2>4
<1> QED
  BY <1>3, <1>5, <1>6

LEMMA SecondOfWeek ==
  ASSUME NEW w \in Nat \ {0}, NEW j \in Int, NEW tow \in 0..(w - 1)
  PROVE  (j * w + tow) % w = tow
<1> DEFINE t == j * w + tow
<1>1. t \in Int /\ t = w * (t \div w) + (t % w) /\ t % w \in 0..(w - 1) /\ t \div w \in Int
  OBVIOUS
<1>2. t \div w = j
  <2>1. w * (t \div w) - w * j \in (-(w - 1))..(w - 1)
    BY <1>1
  <2>2. (t \div w) - j >= 1 => w * (t \div w) - w * j >= w
    BY <1>1
  <2>3. (t \div w) - j =< -1 => w * (t \div w) - w * j =< -w
    BY <1>1
  <2> QED
    BY <1>1, <2>1, <2>2, <2>3
<1> QED
  BY <1>1, <1>2

\* WeekSeconds is even: the provers are told once, with the number in sight.
LEMMA WeekPositive == WeekSeconds \in Nat \ {0}
  BY SMTT(10) DEF WeekSeconds

LEMMA HalfPositive == WeekSeconds \div 2 \in Nat
  BY SMTT(10) DEF WeekSeconds

LEMMA TwoHalves == WeekSeconds = 2 * (WeekSeconds \div 2)
  BY SMTT(10) DEF WeekSeconds

LEMMA WeekHalves == \E half \in Nat : half = WeekSeconds \div 2 /\ WeekSeconds = 2 * half
  BY HalfPositive, TwoHalves

\* near_time(): the time has the broadcast second of the week and lies within
\* half a week of the reception, on either side of a change of the week.
THEOREM TimeIsNearest ==
  ASSUME NEW now \in Int, NEW tow \in 0..(WeekSeconds - 1)
  PROVE  /\ Nearest(now, tow) % WeekSeconds = tow
         /\ Nearest(now, tow) - now \in (-(WeekSeconds \div 2))..(WeekSeconds \div 2)
<1>1. PICK half \in Nat : half = WeekSeconds \div 2 /\ WeekSeconds = 2 * half
  BY WeekHalves
<1>2. PICK w \in Nat \ {0} : w = WeekSeconds
  BY WeekPositive
<1>3. now \div w \in Int /\ (now \div w) * w \in Int /\ now - (now \div w) * w \in 0..(w - 1)
  <2>1. now = w * (now \div w) + (now % w) /\ now \div w \in Int /\ now % w \in 0..(w - 1)
    OBVIOUS
  <2> QED
    BY <2>1
<1> DEFINE base == (now \div w) * w
           u == IF base + tow - now > half THEN base + tow - w ELSE base + tow
           r == IF now - u > half THEN u + w ELSE u
<1>4. Nearest(now, tow) = r
  BY <1>1, <1>2 DEF Nearest, Week
<1>5. u = (IF base + tow - now > half THEN base + tow - w ELSE base + tow) /\ r = (IF now - u > half THEN u + w ELSE u)
  OBVIOUS
<1>6. w = 2 * half /\ tow \in 0..(w - 1) /\ base \in Int /\ now - base \in 0..(w - 1)
  BY <1>1, <1>2, <1>3
<1>7. PICK k \in Int : base = k * w
  BY <1>3
<1> HIDE DEF base, u, r
<1>8. r = IF base + tow - now > half THEN base + tow - w
          ELSE IF now - (base + tow) > half THEN base + tow + w
          ELSE base + tow
  BY <1>5, <1>6
<1>9. r - now \in (-half)..half
  BY <1>6, <1>8
<1>10. k - 1 \in Int /\ k + 1 \in Int /\ (k - 1) * w = base - w /\ (k + 1) * w = base + w
  BY <1>7
<1>11. PICK j \in Int : r = j * w + tow
  <2>1. CASE r = base + tow - w
    <3>1. r = (k - 1) * w + tow
      BY <2>1, <1>6, <1>10
    <3> QED
      BY <3>1, <1>10
  <2>2. CASE r = base + tow + w
    <3>1. r = (k + 1) * w + tow
      BY <2>2, <1>6, <1>10
    <3> QED
      BY <3>1, <1>10
  <2>3. CASE r = base + tow
    BY <2>3, <1>7
  <2> QED
    BY <1>8, <2>1, <2>2, <2>3
<1>12. r % w = tow
  BY <1>6, <1>11, SecondOfWeek
<1> QED
  BY <1>1, <1>2, <1>4, <1>9, <1>12

(***************************************************************************)
(* Sequences, and the greatest member of a set.                            *)
(***************************************************************************)

IsSeq(s) == \E S : s \in Seq(S)

LEMMA SeqFacts ==
  ASSUME NEW s, IsSeq(s)
  PROVE  Len(s) \in Nat /\ DOMAIN s = 1..Len(s) /\ \A i \in DOMAIN s : s[i] = s[i]
BY LenProperties DEF IsSeq

\* What a concatenation holds.
LEMMA CatFacts ==
  ASSUME NEW s, IsSeq(s), NEW u, IsSeq(u)
  PROVE  /\ IsSeq(s \o u) /\ Len(s) \in Nat /\ Len(u) \in Nat
         /\ DOMAIN s = 1..Len(s) /\ DOMAIN u = 1..Len(u)
         /\ Len(s \o u) = Len(s) + Len(u) /\ DOMAIN (s \o u) = 1..(Len(s) + Len(u))
         /\ \A i \in 1..Len(s) : (s \o u)[i] = s[i]
         /\ \A i \in (Len(s) + 1)..(Len(s) + Len(u)) : (s \o u)[i] = u[i - Len(s)]
<1>1. PICK A : s \in Seq(A)
  BY DEF IsSeq
<1>2. PICK B : u \in Seq(B)
  BY DEF IsSeq
<1> DEFINE C == A \cup B
<1>3. s \in Seq(C) /\ u \in Seq(C)
  BY <1>1, <1>2, SeqMonotonic
<1> HIDE DEF C
<1>4. s \o u \in Seq(C)
  BY <1>3, ConcatProperties
<1>5. IsSeq(s \o u)
  BY <1>4 DEF IsSeq
<1>6. /\ Len(s) \in Nat /\ Len(u) \in Nat /\ DOMAIN s = 1..Len(s) /\ DOMAIN u = 1..Len(u)
      /\ Len(s \o u) = Len(s) + Len(u)
      /\ \A i \in 1..(Len(s) + Len(u)) : (s \o u)[i] = IF i <= Len(s) THEN s[i] ELSE u[i - Len(s)]
  BY <1>3, ConcatProperties, LenProperties
<1>7. DOMAIN (s \o u) = 1..(Len(s) + Len(u))
  BY <1>4, <1>6, LenProperties
<1>8. \A i \in 1..Len(s) : (s \o u)[i] = s[i]
  BY <1>6
<1>9. \A i \in (Len(s) + 1)..(Len(s) + Len(u)) : (s \o u)[i] = u[i - Len(s)]
  BY <1>6
<1> QED
  BY <1>5, <1>6, <1>7, <1>8, <1>9

\* A function on 1..n is a sequence.
LEMMA FunctionSeq ==
  ASSUME NEW n \in Nat, NEW f, f = [i \in 1..n |-> f[i]]
  PROVE  IsSeq(f) /\ Len(f) = n /\ DOMAIN f = 1..n
<1> DEFINE S == {f[i] : i \in 1..n}
<1>1. f \in [1..n -> S]
  OBVIOUS
<1> HIDE DEF S
<1>2. f \in Seq(S)
  BY <1>1, SeqDef
<1>3. DOMAIN f = 1..n /\ Len(f) \in Nat /\ DOMAIN f = 1..Len(f)
  BY <1>1, <1>2, LenProperties
<1>4. Len(f) = n
  BY <1>3
<1> QED
  BY <1>2, <1>3, <1>4 DEF IsSeq

LEMMA OneSeq == ASSUME NEW x PROVE IsSeq(<<x>>) /\ Len(<<x>>) = 1 /\ DOMAIN <<x>> = {1} /\ <<x>>[1] = x
<1>1. <<x>> \in Seq({x}) /\ Len(<<x>>) = 1 /\ <<x>>[1] = x
  OBVIOUS
<1>2. DOMAIN <<x>> = 1..1
  BY <1>1, LenProperties
<1>3. IsSeq(<<x>>)
  BY <1>1 DEF IsSeq
<1> QED
  BY <1>1, <1>2, <1>3

LEMMA NoneSeq == IsSeq(<<>>) /\ Len(<<>>) = 0 /\ DOMAIN <<>> = {}
<1>1. <<>> \in Seq({}) /\ Len(<<>>) = 0
  BY EmptySeq
<1>2. DOMAIN <<>> = 1..0
  BY <1>1, LenProperties
<1>3. IsSeq(<<>>)
  BY <1>1 DEF IsSeq
<1> QED
  BY <1>1, <1>2, <1>3

LEMMA CatNone == ASSUME NEW s, IsSeq(s) PROVE s \o <<>> = s /\ <<>> \o s = s
<1>1. PICK S : s \in Seq(S)
  BY DEF IsSeq
<1> QED
  BY <1>1, ConcatEmptySeq

LEMMA CatThree ==
  ASSUME NEW s, IsSeq(s), NEW u, IsSeq(u), NEW w, IsSeq(w)
  PROVE  (s \o u) \o w = s \o (u \o w)
<1>1. PICK A : s \in Seq(A)
  BY DEF IsSeq
<1>2. PICK B : u \in Seq(B)
  BY DEF IsSeq
<1>3. PICK C : w \in Seq(C)
  BY DEF IsSeq
<1> DEFINE D == A \cup B \cup C
<1>4. s \in Seq(D) /\ u \in Seq(D) /\ w \in Seq(D)
  BY <1>1, <1>2, <1>3, SeqMonotonic
<1> HIDE DEF D
<1> QED
  BY <1>4, ConcatAssociative

\* The greatest member of a set of naturals below a bound is in it.
LEMMA MaxBounded ==
  ASSUME NEW n \in Nat, NEW S \in SUBSET (0..n), S # {}
  PROVE  Max(S) \in S /\ \A y \in S : Max(S) >= y
<1> DEFINE T == {n - x : x \in S}
<1>0. \A x \in S : n - x \in Nat
  OBVIOUS
<1>1. T \subseteq Nat /\ T # {}
  BY <1>0
<1>2. \E x \in T : \A y \in T : ~(<<y, x>> \in OpToRel(<, Nat))
  BY <1>1, NatLessThanWellFounded, WFMin
<1>3. PICK d \in T : \A y \in T : ~(y < d)
  BY <1>1, <1>2 DEF OpToRel
<1>4. PICK m \in S : d = n - m
  OBVIOUS
<1>5. \A y \in S : m >= y
  <2> TAKE y \in S
  <2>1. n - y \in T /\ ~(n - y < n - m)
    BY <1>3, <1>4
  <2> QED
    BY <2>1
<1> QED
  BY <1>5 DEF Max

\* The greatest member, when it is known.
LEMMA MaxIs ==
  ASSUME NEW S \in SUBSET Nat, NEW m \in S, \A x \in S : x <= m PROVE Max(S) = m
<1>1. \E x \in S : \A y \in S : x >= y
  OBVIOUS
<1>2. Max(S) \in S /\ \A y \in S : Max(S) >= y
  BY <1>1 DEF Max
<1>3. Max(S) \in Nat /\ m \in Nat /\ Max(S) >= m /\ Max(S) <= m
  BY <1>2
<1> QED
  BY <1>3

(***************************************************************************)
(* HAS messages.  What the decoder keeps of a source is what the log says  *)
(* of it (Standing).                                                       *)
(***************************************************************************)

MaskAt(L, src, id, j) == L[j].src = src /\ L[j].out.kind = "gal_has_mask" /\ L[j].out.disc[1] = id
OrbitAt(L, src, key, j) == L[j].src = src /\ L[j].out.kind = "gal_has_orbit" /\ L[j].out.disc = key

\* Entry p is the last mask of that name, and x says what it said.
MaskStands(L, src, id, x, p) ==
    /\ p \in 1..Len(L) /\ MaskAt(L, src, id, p)
    /\ \A j \in p..Len(L) : ~L[j].has
    /\ \A j \in (p + 1)..Len(L) : ~MaskAt(L, src, id, j)
    /\ x.value = L[p].out.row.issue /\ x.received = L[p].t /\ L[p].t \in Int

\* Entry o is the last orbit message of that name, q the mask it was given
\* under, and x says what o said.  The masks since are of one value, and that
\* is q's unless q had lapsed before.
IssueStands(L, src, key, x, o, q) ==
    /\ o \in 1..Len(L) /\ q \in 1..(o - 1)
    /\ \A j \in q..Len(L) : ~L[j].has
    /\ OrbitAt(L, src, key, o) /\ \A j \in (o + 1)..Len(L) : ~OrbitAt(L, src, key, j)
    /\ MaskAt(L, src, key[1], q) /\ \A j \in (q + 1)..(o - 1) : ~MaskAt(L, src, key[1], j)
    /\ x.ref = L[o].out.row.issue.ref /\ x.received = L[o].t /\ L[o].t \in Int
    /\ L[o].out.row.issue.mask = L[q].out.row.issue
    /\ L[q].t \in Int /\ L[q].t =< L[o].t
    /\ \A j \in (o + 1)..Len(L) : MaskAt(L, src, key[1], j) =>
          /\ L[j].t \in Int /\ L[o].t =< L[j].t
          /\ L[j].out.row.issue = L[q].out.row.issue \/ L[j].t - L[q].t >= HasLifetime
    /\ \A j, k \in (o + 1)..Len(L) : MaskAt(L, src, key[1], j) /\ MaskAt(L, src, key[1], k) =>
          L[j].out.row.issue = L[k].out.row.issue

\* The masks since entry q are not newer than the one that is kept; when none
\* is kept they have all lapsed.
MasksSince(L, src, id, masks, q, now) ==
    \A j \in q..Len(L) : MaskAt(L, src, id, j) =>
        /\ L[j].t \in Int /\ now \in Int
        /\ IF id \in DOMAIN masks THEN L[j].t =< masks[id].received ELSE now - L[j].t >= HasLifetime

Standing(L, s, src, now) ==
    /\ s = [pages |-> s.pages, masks |-> s.masks, issues |-> s.issues]
    /\ \A id \in DOMAIN s.masks :
          /\ now \in Int /\ s.masks[id].received =< now
          /\ \E p : MaskStands(L, src, id, s.masks[id], p)
    /\ \A key \in DOMAIN s.issues :
          /\ now \in Int /\ s.issues[key].received =< now
          /\ \E o, q : /\ IssueStands(L, src, key, s.issues[key], o, q)
                       /\ MasksSince(L, src, key[1], s.masks, q, now)

\* The log M goes on from L.
Onward(L, M) ==
    /\ Len(L) \in Nat /\ Len(M) \in Nat /\ Len(L) =< Len(M)
    /\ \A j \in 1..Len(L) : M[j] = L[j]

\* Entries that change nothing of what a source has announced.
Aside(M, src, n) ==
    \A j \in (n + 1)..Len(M) :
        ~M[j].has /\ ~(M[j].src = src /\ M[j].out.kind \in {"gal_has_mask", "gal_has_orbit"})

LEMMA LifetimeTyped == HasLifetime \in Nat /\ HasLifetime > 0
BY DEF HasLifetime

LEMMA NothingStands == ASSUME NEW L, NEW src, NEW now PROVE Standing(L, NoHas, src, now)
<1>1. NoHas = [pages |-> <<>>, masks |-> <<>>, issues |-> <<>>]
  BY DEF NoHas
<1>2. DOMAIN NoHas.masks = {} /\ DOMAIN NoHas.issues = {}
  BY <1>1
<1> QED
  BY <1>1, <1>2 DEF Standing

LEMMA MaskAside ==
  ASSUME NEW L, NEW M, Onward(L, M), NEW src, Aside(M, src, Len(L)), NEW id, NEW x, NEW p,
         MaskStands(L, src, id, x, p)
  PROVE  MaskStands(M, src, id, x, p)
BY SMTT(30) DEF Onward, Aside, MaskStands, MaskAt

LEMMA IssueAside ==
  ASSUME NEW L, NEW M, Onward(L, M), NEW src, Aside(M, src, Len(L)), NEW key, NEW x, NEW o, NEW q,
         IssueStands(L, src, key, x, o, q)
  PROVE  IssueStands(M, src, key, x, o, q)
<1>1. \A j \in 1..Len(M) : ~(j \in 1..Len(L)) => ~M[j].has /\ ~MaskAt(M, src, key[1], j) /\ ~OrbitAt(M, src, key, j)
  BY DEF Onward, Aside, MaskAt, OrbitAt
<1>2. \A j \in 1..Len(L) : /\ M[j] = L[j] /\ (MaskAt(M, src, key[1], j) <=> MaskAt(L, src, key[1], j))
                           /\ (OrbitAt(M, src, key, j) <=> OrbitAt(L, src, key, j))
  BY DEF Onward, MaskAt, OrbitAt
<1>3. o \in 1..Len(L) /\ q \in 1..(o - 1) /\ Len(L) \in Nat /\ Len(M) \in Nat /\ Len(L) =< Len(M)
  BY DEF Onward, IssueStands
<1>4. q \in 1..Len(L) /\ o \in 1..Len(M)
  BY <1>3
<1>5. \A j \in q..Len(M) : ~M[j].has
  BY <1>1, <1>2, <1>3 DEF IssueStands
<1>6. OrbitAt(M, src, key, o) /\ \A j \in (o + 1)..Len(M) : ~OrbitAt(M, src, key, j)
  BY <1>1, <1>2, <1>3 DEF IssueStands
<1>7. MaskAt(M, src, key[1], q) /\ \A j \in (q + 1)..(o - 1) : ~MaskAt(M, src, key[1], j)
  BY <1>2, <1>3, <1>4 DEF IssueStands
<1>8. M[o] = L[o] /\ M[q] = L[q]
  BY <1>2, <1>3, <1>4
<1>9. \A j \in (o + 1)..Len(M) : MaskAt(M, src, key[1], j) => j \in (o + 1)..Len(L) /\ MaskAt(L, src, key[1], j) /\ M[j] = L[j]
  BY <1>1, <1>2, <1>3
<1> HIDE DEF MaskAt, OrbitAt
<1>10. \A j \in (o + 1)..Len(M) : MaskAt(M, src, key[1], j) =>
          /\ M[j].t \in Int /\ M[o].t =< M[j].t
          /\ M[j].out.row.issue = M[q].out.row.issue \/ M[j].t - M[q].t >= HasLifetime
  BY <1>8, <1>9 DEF IssueStands
<1>11. \A j, k \in (o + 1)..Len(M) : MaskAt(M, src, key[1], j) /\ MaskAt(M, src, key[1], k) =>
          M[j].out.row.issue = M[k].out.row.issue
  BY <1>9 DEF IssueStands
<1>12. /\ x.ref = M[o].out.row.issue.ref /\ x.received = M[o].t /\ M[o].t \in Int
       /\ M[o].out.row.issue.mask = M[q].out.row.issue
       /\ M[q].t \in Int /\ M[q].t =< M[o].t
  BY <1>8 DEF IssueStands
<1> QED
  BY <1>3, <1>4, <1>5, <1>6, <1>7, <1>10, <1>11, <1>12 DEF IssueStands

LEMMA ReceivedTyped ==
  ASSUME NEW L, NEW s, NEW src, NEW now, Standing(L, s, src, now)
  PROVE  /\ \A id \in DOMAIN s.masks : s.masks[id].received \in Int /\ now \in Int
         /\ \A key \in DOMAIN s.issues : s.issues[key].received \in Int /\ now \in Int
BY DEF Standing, MaskStands, IssueStands

LEMMA StandsAside ==
  ASSUME NEW L, NEW M, Onward(L, M), NEW src, Aside(M, src, Len(L)), NEW s, NEW now, NEW later,
         Standing(L, s, src, now), now \in Int => later \in Int /\ now =< later
  PROVE  Standing(M, s, src, later)
<1>0. /\ \A id \in DOMAIN s.masks : s.masks[id].received \in Int
      /\ \A key \in DOMAIN s.issues : s.issues[key].received \in Int
  BY ReceivedTyped
<1>1. ASSUME NEW id \in DOMAIN s.masks
      PROVE  /\ later \in Int /\ s.masks[id].received =< later
             /\ \E p : MaskStands(M, src, id, s.masks[id], p)
  BY <1>0, <1>1, MaskAside DEF Standing
<1>2. ASSUME NEW key \in DOMAIN s.issues
      PROVE  /\ later \in Int /\ s.issues[key].received =< later
             /\ \E o, q : /\ IssueStands(M, src, key, s.issues[key], o, q)
                          /\ MasksSince(M, src, key[1], s.masks, q, later)
  <2>1. PICK o, q : /\ IssueStands(L, src, key, s.issues[key], o, q)
                    /\ MasksSince(L, src, key[1], s.masks, q, now)
    BY DEF Standing
  <2>2. now \in Int /\ later \in Int /\ now =< later /\ s.issues[key].received =< now
    BY DEF Standing
  <2>3. IssueStands(M, src, key, s.issues[key], o, q)
    BY <2>1, IssueAside
  <2>4. ASSUME NEW j \in q..Len(M), MaskAt(M, src, key[1], j)
        PROVE  j \in q..Len(L) /\ MaskAt(L, src, key[1], j) /\ M[j] = L[j]
    BY <2>1, <2>4 DEF Aside, Onward, MaskAt, IssueStands
  <2> DEFINE kept == s.masks[key[1]].received
  <2>5. key[1] \in DOMAIN s.masks => kept \in Int
    BY <1>0
  <2> HIDE DEF kept
  <2>6. MasksSince(M, src, key[1], s.masks, q, later)
    <3> SUFFICES ASSUME NEW j \in q..Len(M), MaskAt(M, src, key[1], j)
                 PROVE  /\ M[j].t \in Int /\ later \in Int
                        /\ IF key[1] \in DOMAIN s.masks THEN M[j].t =< kept ELSE later - M[j].t >= HasLifetime
      BY DEF MasksSince, kept
    <3>1. /\ L[j].t \in Int
          /\ IF key[1] \in DOMAIN s.masks THEN L[j].t =< kept ELSE now - L[j].t >= HasLifetime
      BY <2>1, <2>4 DEF MasksSince, kept
    <3>2. M[j] = L[j]
      BY <2>4
    <3> QED
      BY <3>1, <3>2, <2>2, <2>5, LifetimeTyped
  <2>7. s.issues[key].received =< later
    BY <2>2, <1>0
  <2> QED
    BY <2>2, <2>3, <2>6, <2>7
<1> QED
  BY <1>1, <1>2 DEF Standing

\* What is left of a source after the old masks and issues were dropped.
LEMMA FreshStands ==
  ASSUME NEW L, NEW s, NEW src, NEW now, NEW t \in Int, Standing(L, s, src, now), now \in Int => now =< t
  PROVE  LET f == [s EXCEPT !.masks = Fresh(@, t), !.issues = Fresh(@, t)] IN
           /\ Standing(L, f, src, t)
           /\ \A id \in DOMAIN f.masks : t - f.masks[id].received < HasLifetime
           /\ \A key \in DOMAIN f.issues : t - f.issues[key].received < HasLifetime
<1> DEFINE masks == Fresh(s.masks, t)  issues == Fresh(s.issues, t)
           f == [s EXCEPT !.masks = Fresh(@, t), !.issues = Fresh(@, t)]
<1>1. /\ f = [pages |-> f.pages, masks |-> f.masks, issues |-> f.issues]
      /\ f.masks = masks /\ f.issues = issues
  <2>1. s = [pages |-> s.pages, masks |-> s.masks, issues |-> s.issues]
    BY DEF Standing
  <2>2. f = [s EXCEPT !.masks = masks, !.issues = issues]
    BY <2>1
  <2> HIDE DEF f, masks, issues
  <2>3. f = [pages |-> s.pages, masks |-> masks, issues |-> issues]
    BY <2>1, <2>2
  <2> QED
    BY <2>3
<1>2. \A id : id \in DOMAIN masks <=> id \in DOMAIN s.masks /\ t - s.masks[id].received < HasLifetime
  BY DEF Fresh, Only
<1>3. \A id \in DOMAIN masks : masks[id] = s.masks[id]
  BY DEF Fresh, Only
<1>4. \A key : key \in DOMAIN issues <=> key \in DOMAIN s.issues /\ t - s.issues[key].received < HasLifetime
  BY DEF Fresh, Only
<1>5. \A key \in DOMAIN issues : issues[key] = s.issues[key]
  BY DEF Fresh, Only
<1> HIDE DEF f, masks, issues
<1>6. /\ \A id \in DOMAIN s.masks : s.masks[id].received \in Int /\ now \in Int
      /\ \A key \in DOMAIN s.issues : s.issues[key].received \in Int /\ now \in Int
  BY ReceivedTyped
<1>7. ASSUME NEW id \in DOMAIN masks
      PROVE  masks[id].received =< t /\ \E p : MaskStands(L, src, id, masks[id], p)
  <2>1. id \in DOMAIN s.masks /\ masks[id] = s.masks[id]
    BY <1>2, <1>3
  <2>2. s.masks[id].received =< now /\ now \in Int /\ now =< t /\ s.masks[id].received \in Int
    BY <2>1, <1>6 DEF Standing
  <2>3. \E p : MaskStands(L, src, id, s.masks[id], p)
    BY <2>1 DEF Standing
  <2> QED
    BY <2>1, <2>2, <2>3
<1>8. ASSUME NEW key \in DOMAIN issues
      PROVE  /\ issues[key].received =< t
             /\ \E o, q : /\ IssueStands(L, src, key, issues[key], o, q)
                          /\ MasksSince(L, src, key[1], masks, q, t)
  <2>1. key \in DOMAIN s.issues /\ issues[key] = s.issues[key]
    BY <1>4, <1>5
  <2>2. s.issues[key].received =< now /\ now \in Int /\ now =< t /\ s.issues[key].received \in Int
    BY <2>1, <1>6 DEF Standing
  <2>3. PICK o, q : /\ IssueStands(L, src, key, s.issues[key], o, q)
                    /\ MasksSince(L, src, key[1], s.masks, q, now)
    BY <2>1 DEF Standing
  <2>4. MasksSince(L, src, key[1], masks, q, t)
    <3> SUFFICES ASSUME NEW j \in q..Len(L), MaskAt(L, src, key[1], j)
                 PROVE  /\ L[j].t \in Int
                        /\ IF key[1] \in DOMAIN masks THEN L[j].t =< masks[key[1]].received
                           ELSE t - L[j].t >= HasLifetime
      BY DEF MasksSince
    <3>1. /\ L[j].t \in Int
          /\ IF key[1] \in DOMAIN s.masks THEN L[j].t =< s.masks[key[1]].received
             ELSE now - L[j].t >= HasLifetime
      BY <2>3 DEF MasksSince
    <3>2. CASE key[1] \in DOMAIN masks
      BY <3>1, <3>2, <1>2, <1>3
    <3>3. CASE key[1] \in DOMAIN s.masks /\ key[1] \notin DOMAIN masks
      <4> DEFINE r == s.masks[key[1]].received
      <4>1. r \in Int /\ ~(t - r < HasLifetime) /\ L[j].t =< r
        BY <3>1, <3>3, <1>2, <1>6
      <4> HIDE DEF r
      <4> QED
        BY <4>1, <3>1, <3>3, LifetimeTyped
    <3>4. CASE key[1] \notin DOMAIN s.masks
      BY <3>1, <3>4, <2>2, <1>2, LifetimeTyped
    <3> QED
      BY <3>2, <3>3, <3>4
  <2> QED
    BY <2>1, <2>2, <2>3, <2>4
<1>9. Standing(L, f, src, t)
  BY <1>1, <1>7, <1>8 DEF Standing
<1>10. /\ \A id \in DOMAIN f.masks : t - f.masks[id].received < HasLifetime
       /\ \A key \in DOMAIN f.issues : t - f.issues[key].received < HasLifetime
  BY <1>1, <1>2, <1>3, <1>4, <1>5
<1> QED
  BY <1>9, <1>10 DEF f

\* A mask message, logged and installed.
LEMMA MaskInstalled ==
  ASSUME NEW L, NEW M, Onward(L, M), Len(M) = Len(L) + 1, NEW s, NEW src, NEW t \in Int,
         Standing(L, s, src, t),
         \A key \in DOMAIN s.issues : t - s.issues[key].received < HasLifetime,
         NEW h, MaskAt(M, src, h.maskid, Len(M)), ~M[Len(M)].has,
         M[Len(M)].t = t, M[Len(M)].out.row.issue = h.mask
  PROVE  LET f == InstallMask(s, h, t) IN
           /\ Standing(M, f, src, t)
           /\ h.maskid \in DOMAIN f.masks
           /\ (\A id \in DOMAIN s.masks : t - s.masks[id].received < HasLifetime) =>
                 \A id \in DOMAIN f.masks : t - f.masks[id].received < HasLifetime
<1> DEFINE n == Len(M)  me == h.maskid
           new == [value |-> h.mask, received |-> t]
           masks == With(s.masks, me, new)
           changed == me \in DOMAIN s.masks /\ s.masks[me].value # h.mask
           issues == Only(s.issues, {k \in DOMAIN s.issues : ~(changed /\ k[1] = me)})
           f == InstallMask(s, h, t)
<1>1. /\ f = [pages |-> f.pages, masks |-> f.masks, issues |-> f.issues]
      /\ f.masks = masks /\ f.issues = issues
  <2>1. s = [pages |-> s.pages, masks |-> s.masks, issues |-> s.issues]
    BY DEF Standing
  <2>2. f = [s EXCEPT !.masks = masks, !.issues = issues]
    BY <2>1 DEF InstallMask
  <2> HIDE DEF f, masks, issues
  <2>3. f = [pages |-> s.pages, masks |-> masks, issues |-> issues]
    BY <2>1, <2>2
  <2> QED
    BY <2>3
<1>2. /\ DOMAIN masks = DOMAIN s.masks \cup {me} /\ masks[me] = new
      /\ \A id \in DOMAIN s.masks : id # me => masks[id] = s.masks[id]
  <2> DEFINE old == s.masks
  <2>1. masks = With(old, me, new)
    OBVIOUS
  <2> HIDE DEF new, masks, me, old
  <2>2. /\ DOMAIN masks = DOMAIN old \cup {me} /\ masks[me] = new
        /\ \A id \in DOMAIN old : id # me => masks[id] = old[id]
    BY <2>1 DEF With
  <2> QED
    BY <2>2 DEF old
<1>3. /\ \A k : k \in DOMAIN issues <=> k \in DOMAIN s.issues /\ ~(changed /\ k[1] = me)
      /\ \A k \in DOMAIN issues : issues[k] = s.issues[k]
  BY DEF Only
<1>4. new.value = h.mask /\ new.received = t
  OBVIOUS
<1> HIDE DEF f, masks, issues, new
<1>5. /\ \A id \in DOMAIN s.masks : s.masks[id].received \in Int
      /\ \A key \in DOMAIN s.issues : s.issues[key].received \in Int
  BY ReceivedTyped
<1>6. /\ n \in Nat /\ n >= 1 /\ Len(L) = n - 1 /\ Len(L) \in Nat
      /\ \A j \in 1..(n - 1) : M[j] = L[j]
  BY DEF Onward
<1>7. \A id, j : j \in 1..(n - 1) => (MaskAt(M, src, id, j) <=> MaskAt(L, src, id, j))
  BY <1>6 DEF MaskAt
<1>8. \A id : MaskAt(M, src, id, n) => id = me
  BY DEF MaskAt
<1>9. \A key : ~OrbitAt(M, src, key, n)
  BY DEF MaskAt, OrbitAt
<1>10. ASSUME NEW id \in DOMAIN masks
       PROVE  masks[id].received =< t /\ \E p : MaskStands(M, src, id, masks[id], p)
  <2>1. CASE id = me
    <3>1. MaskStands(M, src, id, masks[id], n)
      BY <2>1, <1>2, <1>4, <1>6 DEF MaskStands
    <3> QED
      BY <3>1, <2>1, <1>2, <1>4
  <2>2. CASE id # me
    <3>1. id \in DOMAIN s.masks /\ masks[id] = s.masks[id]
      BY <2>2, <1>2
    <3>2. PICK p : MaskStands(L, src, id, s.masks[id], p)
      BY <3>1 DEF Standing
    <3>3. p \in 1..n /\ M[p] = L[p] /\ MaskAt(M, src, id, p)
      BY <3>2, <1>6, <1>7 DEF MaskStands
    <3>4. \A j \in p..n : ~M[j].has
      BY <3>2, <1>6 DEF MaskStands
    <3>5. \A j \in (p + 1)..n : ~MaskAt(M, src, id, j)
      BY <3>2, <2>2, <1>6, <1>7, <1>8 DEF MaskStands
    <3>6. MaskStands(M, src, id, masks[id], p)
      BY <3>1, <3>2, <3>3, <3>4, <3>5 DEF MaskStands
    <3> QED
      BY <3>1, <3>6 DEF Standing
  <2> QED
    BY <2>1, <2>2
<1>11. ASSUME NEW key \in DOMAIN issues
       PROVE  /\ issues[key].received =< t
              /\ \E o, q : /\ IssueStands(M, src, key, issues[key], o, q)
                           /\ MasksSince(M, src, key[1], masks, q, t)
  <2> DEFINE x == s.issues[key]
  <2>1. key \in DOMAIN s.issues /\ issues[key] = x /\ ~(changed /\ key[1] = me)
    BY <1>3
  <2>2. x.received =< t /\ x.received \in Int /\ t - x.received < HasLifetime
    BY <2>1, <1>5 DEF Standing
  <2>3. PICK o, q : IssueStands(L, src, key, x, o, q) /\ MasksSince(L, src, key[1], s.masks, q, t)
    BY <2>1 DEF Standing
  <2> HIDE DEF x
  <2>4. o \in 1..(n - 1) /\ q \in 1..(o - 1) /\ M[o] = L[o] /\ M[q] = L[q]
    BY <2>3, <1>6 DEF IssueStands
  <2>5. MasksSince(M, src, key[1], masks, q, t)
    <3> SUFFICES ASSUME NEW j \in q..n, MaskAt(M, src, key[1], j)
                 PROVE  /\ M[j].t \in Int
                        /\ IF key[1] \in DOMAIN masks THEN M[j].t =< masks[key[1]].received
                           ELSE t - M[j].t >= HasLifetime
      BY DEF MasksSince
    <3>1. CASE j = n
      BY <3>1, <1>2, <1>4, <1>8
    <3>2. CASE j # n
      <4>1. j \in 1..(n - 1) /\ j \in q..Len(L) /\ M[j] = L[j] /\ MaskAt(L, src, key[1], j)
        <5>1. j \in 1..(n - 1) /\ j \in q..Len(L)
          BY <3>2, <2>4, <1>6
        <5> QED
          BY <5>1, <1>6, <1>7
      <4>2. /\ L[j].t \in Int
            /\ IF key[1] \in DOMAIN s.masks THEN L[j].t =< s.masks[key[1]].received
               ELSE t - L[j].t >= HasLifetime
        BY <4>1, <2>3 DEF MasksSince
      <4>3. L[j].t =< t
        <5>1. CASE key[1] \in DOMAIN s.masks
          <6>1. s.masks[key[1]].received =< t /\ s.masks[key[1]].received \in Int
            BY <5>1, <1>5 DEF Standing
          <6> QED
            BY <6>1, <5>1, <4>2
        <5>2. CASE key[1] \notin DOMAIN s.masks
          BY <5>2, <4>2, LifetimeTyped
        <5> QED
          BY <5>1, <5>2
      <4>4. CASE key[1] = me
        BY <4>1, <4>2, <4>3, <4>4, <1>2, <1>4
      <4>5. CASE key[1] # me
        BY <4>1, <4>2, <4>5, <1>2
      <4> QED
        BY <4>4, <4>5
    <3> QED
      BY <3>1, <3>2
  <2>6. ASSUME MaskAt(M, src, key[1], n)
        PROVE  /\ M[o].t =< t
               /\ h.mask = M[q].out.row.issue \/ t - M[q].t >= HasLifetime
               /\ \A j \in (o + 1)..(n - 1) : MaskAt(M, src, key[1], j) => M[j].out.row.issue = h.mask
    <3>1. key[1] = me
      BY <2>6, <1>8
    <3>2. M[o].t \in Int /\ M[o].t =< t /\ M[o].t = x.received
      BY <2>2, <2>3, <2>4 DEF IssueStands
    <3>3. MaskAt(L, src, me, q) /\ q \in q..Len(L) /\ L[q].t \in Int
      BY <2>3, <2>4, <3>1, <1>6 DEF IssueStands
    <3>4. CASE me \in DOMAIN s.masks
      <4>1. s.masks[me].value = h.mask
        BY <2>1, <3>1, <3>4
      <4>2. PICK p : MaskStands(L, src, me, s.masks[me], p)
        BY <3>4 DEF Standing
      <4>3. /\ p \in 1..(n - 1) /\ MaskAt(L, src, me, p) /\ L[p].out.row.issue = h.mask
            /\ L[p].t \in Int /\ L[p].t =< t
            /\ \A j \in (p + 1)..(n - 1) : ~MaskAt(L, src, me, j)
        BY <4>1, <4>2, <3>4, <1>6 DEF MaskStands, Standing
      <4>4. p = q \/ p \in (o + 1)..(n - 1)
        <5>1. p >= q
          BY <4>3, <3>3, <2>4
        <5>2. p # o
          BY <4>3, <2>3 DEF IssueStands, MaskAt, OrbitAt
        <5>3. \A j \in (q + 1)..(o - 1) : ~MaskAt(L, src, me, j)
          BY <2>3, <3>1 DEF IssueStands
        <5> QED
          BY <5>1, <5>2, <5>3, <4>3, <2>4
      <4>5. \A j \in (o + 1)..(n - 1) : MaskAt(M, src, key[1], j) => M[j].out.row.issue = h.mask
        <5> SUFFICES ASSUME NEW j \in (o + 1)..(n - 1), MaskAt(M, src, key[1], j)
                     PROVE  M[j].out.row.issue = h.mask
          OBVIOUS
        <5>1. MaskAt(L, src, key[1], j) /\ M[j] = L[j] /\ j \in (o + 1)..Len(L)
          BY <1>6, <1>7, <2>4
        <5>2. p >= j
          BY <5>1, <4>3, <3>1, <2>4
        <5>3. p \in (o + 1)..Len(L) /\ MaskAt(L, src, key[1], p)
          BY <5>2, <4>3, <4>4, <3>1, <2>4, <1>6
        <5>4. L[j].out.row.issue = L[p].out.row.issue
          BY <5>1, <5>3, <2>3 DEF IssueStands
        <5> QED
          BY <5>1, <5>4, <4>3
      <4>6. h.mask = L[q].out.row.issue \/ t - L[q].t >= HasLifetime
        <5>1. CASE p = q
          BY <5>1, <4>3
        <5>2. CASE p \in (o + 1)..(n - 1)
          <6>1. p \in (o + 1)..Len(L) /\ MaskAt(L, src, key[1], p)
            BY <5>2, <4>3, <3>1, <1>6
          <6>2. L[p].out.row.issue = L[q].out.row.issue \/ L[p].t - L[q].t >= HasLifetime
            BY <6>1, <2>3 DEF IssueStands
          <6> QED
            BY <6>2, <4>3, <3>3, LifetimeTyped
        <5> QED
          BY <4>4, <5>1, <5>2
      <4> QED
        BY <4>5, <4>6, <3>2, <2>4
    <3>5. CASE me \notin DOMAIN s.masks
      <4>1. t - L[q].t >= HasLifetime
        BY <3>1, <3>3, <3>5, <2>3 DEF MasksSince
      <4>2. \A j \in (o + 1)..(n - 1) : ~MaskAt(M, src, key[1], j)
        <5> SUFFICES ASSUME NEW j \in (o + 1)..(n - 1), MaskAt(M, src, key[1], j) PROVE FALSE
          OBVIOUS
        <5>1. MaskAt(L, src, key[1], j) /\ j \in (o + 1)..Len(L) /\ j \in q..Len(L)
          BY <1>6, <1>7, <2>4
        <5>2. L[j].t \in Int /\ t - L[j].t >= HasLifetime
          BY <5>1, <3>1, <3>5, <2>3 DEF MasksSince
        <5>3. L[o].t =< L[j].t /\ L[o].t \in Int
          BY <5>1, <2>3 DEF IssueStands
        <5> QED
          BY <5>2, <5>3, <3>2, <2>2, <2>4, LifetimeTyped
      <4> QED
        BY <4>1, <4>2, <3>2, <2>4
    <3> QED
      BY <3>4, <3>5
  <2>7. IssueStands(M, src, key, x, o, q)
    <3>0. /\ \A j \in q..Len(L) : ~L[j].has
          /\ OrbitAt(L, src, key, o) /\ \A j \in (o + 1)..Len(L) : ~OrbitAt(L, src, key, j)
          /\ MaskAt(L, src, key[1], q) /\ \A j \in (q + 1)..(o - 1) : ~MaskAt(L, src, key[1], j)
      BY <2>3 DEF IssueStands
    <3>1. \A j \in q..n : ~M[j].has
      <4> SUFFICES ASSUME NEW j \in q..n PROVE ~M[j].has
        OBVIOUS
      <4>1. j = n \/ (j \in q..Len(L) /\ M[j] = L[j])
        BY <2>4, <1>6
      <4> QED
        BY <4>1, <3>0
    <3>2. OrbitAt(M, src, key, o) /\ \A j \in (o + 1)..n : ~OrbitAt(M, src, key, j)
      <4>1. OrbitAt(M, src, key, o)
        BY <3>0, <2>4 DEF OrbitAt
      <4>2. ASSUME NEW j \in (o + 1)..n PROVE ~OrbitAt(M, src, key, j)
        <5>1. j = n \/ (j \in (o + 1)..Len(L) /\ M[j] = L[j])
          BY <2>4, <1>6
        <5> QED
          BY <5>1, <3>0, <1>9 DEF OrbitAt
      <4> QED
        BY <4>1, <4>2
    <3>3. MaskAt(M, src, key[1], q) /\ \A j \in (q + 1)..(o - 1) : ~MaskAt(M, src, key[1], j)
      <4>1. q \in 1..(n - 1) /\ \A j \in (q + 1)..(o - 1) : j \in 1..(n - 1)
        BY <2>4, <1>6
      <4> QED
        BY <4>1, <3>0, <1>7
    <3>4. /\ x.ref = M[o].out.row.issue.ref /\ x.received = M[o].t /\ M[o].t \in Int
          /\ M[o].out.row.issue.mask = M[q].out.row.issue
          /\ M[q].t \in Int /\ M[q].t =< M[o].t
      BY <2>3, <2>4 DEF IssueStands
    <3>5. \A j \in (o + 1)..n : MaskAt(M, src, key[1], j) =>
            /\ M[j].t \in Int /\ M[o].t =< M[j].t
            /\ M[j].out.row.issue = M[q].out.row.issue \/ M[j].t - M[q].t >= HasLifetime
      <4> SUFFICES ASSUME NEW j \in (o + 1)..n, MaskAt(M, src, key[1], j)
                   PROVE  /\ M[j].t \in Int /\ M[o].t =< M[j].t
                          /\ M[j].out.row.issue = M[q].out.row.issue \/ M[j].t - M[q].t >= HasLifetime
        OBVIOUS
      <4>1. CASE j = n
        BY <4>1, <2>6
      <4>2. CASE j # n
        <5>1. j \in (o + 1)..Len(L) /\ M[j] = L[j] /\ MaskAt(L, src, key[1], j)
          BY <4>2, <2>4, <1>6, <1>7
        <5> QED
          BY <5>1, <2>3, <2>4 DEF IssueStands
      <4> QED
        BY <4>1, <4>2
    <3>6. \A j, k \in (o + 1)..n : MaskAt(M, src, key[1], j) /\ MaskAt(M, src, key[1], k) =>
            M[j].out.row.issue = M[k].out.row.issue
      <4> SUFFICES ASSUME NEW j \in (o + 1)..n, NEW k \in (o + 1)..n,
                          MaskAt(M, src, key[1], j), MaskAt(M, src, key[1], k)
                   PROVE  M[j].out.row.issue = M[k].out.row.issue
        OBVIOUS
      <4>1. CASE j = n \/ k = n
        <5>1. \A i \in {j, k} : i # n => M[i].out.row.issue = h.mask
          BY <4>1, <2>4, <2>6
        <5> QED
          BY <4>1, <5>1
      <4>2. CASE j # n /\ k # n
        <5>1. /\ j \in (o + 1)..Len(L) /\ M[j] = L[j] /\ MaskAt(L, src, key[1], j)
              /\ k \in (o + 1)..Len(L) /\ M[k] = L[k] /\ MaskAt(L, src, key[1], k)
          BY <4>2, <2>4, <1>6, <1>7
        <5> QED
          BY <5>1, <2>3 DEF IssueStands
      <4> QED
        BY <4>1, <4>2
    <3>7. o \in 1..n /\ q \in 1..(o - 1)
      BY <2>4, <1>6
    <3> HIDE DEF MaskAt, OrbitAt
    <3> QED
      BY <3>1, <3>2, <3>3, <3>4, <3>5, <3>6, <3>7 DEF IssueStands
  <2> QED
    BY <2>1, <2>2, <2>5, <2>7
<1>12. Standing(M, f, src, t)
  BY <1>1, <1>10, <1>11 DEF Standing
<1>13. me \in DOMAIN f.masks
  BY <1>1, <1>2
<1>14. ASSUME \A id \in DOMAIN s.masks : t - s.masks[id].received < HasLifetime
       PROVE  \A id \in DOMAIN f.masks : t - f.masks[id].received < HasLifetime
  BY <1>1, <1>2, <1>4, <1>14, LifetimeTyped
<1> QED
  BY <1>12, <1>13, <1>14 DEF f

\* An orbit message, logged and installed.
LEMMA IssueInstalled ==
  ASSUME NEW L, NEW M, Onward(L, M), Len(M) = Len(L) + 1, NEW s, NEW src, NEW t \in Int,
         Standing(L, s, src, t),
         \A id \in DOMAIN s.masks : t - s.masks[id].received < HasLifetime,
         NEW h, h.maskid \in DOMAIN s.masks,
         OrbitAt(M, src, <<h.maskid, h.iod>>, Len(M)), ~M[Len(M)].has,
         M[Len(M)].t = t,
         M[Len(M)].out.row.issue = [mask |-> s.masks[h.maskid].value, ref |-> h.orbit]
  PROVE  LET f == InstallIssue(s, h, t) IN Standing(M, f, src, t) /\ f.masks = s.masks
<1> DEFINE n == Len(M)  me == <<h.maskid, h.iod>>
           new == [ref |-> h.orbit, received |-> t]
           issues == With(s.issues, me, new)
           f == InstallIssue(s, h, t)
<1>1. f = [pages |-> s.pages, masks |-> s.masks, issues |-> issues]
  <2>1. s = [pages |-> s.pages, masks |-> s.masks, issues |-> s.issues]
    BY DEF Standing
  <2>2. f = [s EXCEPT !.issues = issues]
    BY <2>1 DEF InstallIssue
  <2> HIDE DEF f, issues
  <2> QED
    BY <2>1, <2>2
<1>2. /\ DOMAIN issues = DOMAIN s.issues \cup {me} /\ issues[me] = new
      /\ \A k \in DOMAIN s.issues : k # me => issues[k] = s.issues[k]
  <2> DEFINE old == s.issues
  <2>1. issues = With(old, me, new)
    OBVIOUS
  <2> HIDE DEF new, issues, me, old
  <2>2. /\ DOMAIN issues = DOMAIN old \cup {me} /\ issues[me] = new
        /\ \A k \in DOMAIN old : k # me => issues[k] = old[k]
    BY <2>1 DEF With
  <2> QED
    BY <2>2 DEF old
<1>3. new.ref = h.orbit /\ new.received = t /\ me[1] = h.maskid
  OBVIOUS
<1>4. f = [pages |-> f.pages, masks |-> f.masks, issues |-> f.issues] /\ f.masks = s.masks /\ f.issues = issues
  BY <1>1
<1>a. OrbitAt(M, src, me, n)
  OBVIOUS
<1> HIDE DEF f, issues, new, me
<1>5. \A key \in DOMAIN s.issues : s.issues[key].received \in Int
  BY ReceivedTyped
<1>6. /\ n \in Nat /\ n >= 1 /\ Len(L) = n - 1 /\ Len(L) \in Nat
      /\ \A j \in 1..(n - 1) : M[j] = L[j]
  BY DEF Onward
<1>7. \A j \in 1..(n - 1) : /\ \A id : MaskAt(M, src, id, j) <=> MaskAt(L, src, id, j)
                            /\ \A key : OrbitAt(M, src, key, j) <=> OrbitAt(L, src, key, j)
  BY <1>6 DEF MaskAt, OrbitAt
<1>8. \A id : ~MaskAt(M, src, id, n)
  BY DEF MaskAt, OrbitAt
<1>9. \A key : OrbitAt(M, src, key, n) => key = me
  BY <1>a DEF OrbitAt
<1>10. ASSUME NEW id \in DOMAIN s.masks
       PROVE  s.masks[id].received =< t /\ \E p : MaskStands(M, src, id, s.masks[id], p)
  <2>2. PICK p : MaskStands(L, src, id, s.masks[id], p)
    BY DEF Standing
  <2>3. p \in 1..n /\ M[p] = L[p] /\ MaskAt(M, src, id, p)
    BY <2>2, <1>6, <1>7 DEF MaskStands
  <2>4. \A j \in p..n : ~M[j].has
    BY <2>2, <1>6 DEF MaskStands
  <2>5. \A j \in (p + 1)..n : ~MaskAt(M, src, id, j)
    BY <2>2, <1>6, <1>7, <1>8 DEF MaskStands
  <2>6. MaskStands(M, src, id, s.masks[id], p)
    BY <2>2, <2>3, <2>4, <2>5 DEF MaskStands
  <2> QED
    BY <2>6 DEF Standing
<1>11. ASSUME NEW key \in DOMAIN issues
       PROVE  /\ issues[key].received =< t
              /\ \E o, q : /\ IssueStands(M, src, key, issues[key], o, q)
                           /\ MasksSince(M, src, key[1], s.masks, q, t)
  <2>1. CASE key = me
    <3> DEFINE id == key[1]  mask == s.masks[id]
    <3>1. id = h.maskid /\ id \in DOMAIN s.masks /\ issues[key] = new
      BY <2>1, <1>2, <1>3
    <3>2. PICK p : MaskStands(L, src, id, mask, p)
      BY <3>1 DEF Standing
    <3>3. mask.received =< t /\ mask.received \in Int
      BY <3>1, ReceivedTyped DEF Standing
    <3>a. M[n].out.row.issue = [mask |-> mask.value, ref |-> h.orbit]
      BY <3>1
    <3> HIDE DEF mask
    <3>4. /\ p \in 1..(n - 1) /\ M[p] = L[p] /\ MaskAt(M, src, id, p)
          /\ mask.value = L[p].out.row.issue /\ mask.received = L[p].t /\ L[p].t \in Int
      BY <3>2, <1>6, <1>7 DEF MaskStands
    <3>5. \A j \in p..n : ~M[j].has
      <4> SUFFICES ASSUME NEW j \in p..n PROVE ~M[j].has
        OBVIOUS
      <4>1. CASE j = n
        BY <4>1
      <4>2. CASE j # n
        <5>1. p \in 1..(n - 1) /\ n \in Nat /\ Len(L) = n - 1
          BY <3>4, <1>6
        <5>2. j \in 1..(n - 1) /\ j \in p..Len(L)
          BY <5>1, <4>2
        <5> QED
          BY <5>2, <3>2, <1>6 DEF MaskStands
      <4> QED
        BY <4>1, <4>2
    <3>6. \A j \in (p + 1)..n : ~MaskAt(M, src, id, j)
      <4> SUFFICES ASSUME NEW j \in (p + 1)..n, MaskAt(M, src, id, j) PROVE FALSE
        OBVIOUS
      <4>1. p \in Nat /\ p >= 1 /\ n \in Nat /\ Len(L) = n - 1
        BY <3>4, <1>6
      <4>2. CASE j = n
        BY <4>2, <1>8
      <4>3. CASE j # n
        <5>1. j \in 1..(n - 1) /\ j \in (p + 1)..Len(L)
          BY <4>1, <4>3
        <5>2. MaskAt(L, src, id, j)
          BY <5>1, <1>7
        <5> QED
          BY <5>1, <5>2, <3>2 DEF MaskStands
      <4> QED
        BY <4>2, <4>3
    <3>7. M[n].out.row.issue.ref = h.orbit /\ M[n].out.row.issue.mask = mask.value
      BY <3>a
    <3>8. n \in 1..n /\ p \in 1..(n - 1) /\ \A j : j \in (n + 1)..n => FALSE
      BY <3>4, <1>6
    <3>9. new.ref = M[n].out.row.issue.ref /\ new.received = M[n].t /\ M[n].t \in Int
      BY <3>7, <1>3
    <3>10. M[n].out.row.issue.mask = M[p].out.row.issue /\ M[p].t \in Int /\ M[p].t =< M[n].t
      BY <3>3, <3>4, <3>7
    <3>11. \A j \in (p + 1)..(n - 1) : ~MaskAt(M, src, id, j)
      BY <3>6, <3>8, <1>6
    <3>12. OrbitAt(M, src, key, n)
      BY <2>1, <1>a
    <3>13. IssueStands(M, src, key, new, n, p)
      BY <3>4, <3>5, <3>8, <3>9, <3>10, <3>11, <3>12 DEF IssueStands
    <3>14. MasksSince(M, src, id, s.masks, p, t)
      <4> SUFFICES ASSUME NEW j \in p..n, MaskAt(M, src, id, j)
                   PROVE  M[j].t \in Int /\ M[j].t =< mask.received
        BY <3>1 DEF MasksSince, mask
      <4>1. j = p
        BY <3>6, <3>4, <1>6
      <4> QED
        BY <4>1, <3>4
    <3> QED
      BY <3>1, <3>13, <3>14, <1>3
  <2>2. CASE key # me
    <3> DEFINE x == s.issues[key]
    <3>1. key \in DOMAIN s.issues /\ issues[key] = x
      BY <2>2, <1>2
    <3>2. x.received =< t
      BY <3>1 DEF Standing
    <3>3. PICK o, q : IssueStands(L, src, key, x, o, q) /\ MasksSince(L, src, key[1], s.masks, q, t)
      BY <3>1 DEF Standing
    <3> HIDE DEF x
    <3>4. o \in 1..(n - 1) /\ q \in 1..(o - 1) /\ q \in 1..(n - 1) /\ M[o] = L[o] /\ M[q] = L[q]
      BY <3>3, <1>6 DEF IssueStands
    <3>5. \A j \in q..n : ~M[j].has
      <4> SUFFICES ASSUME NEW j \in q..n PROVE ~M[j].has
        OBVIOUS
      <4>1. j = n \/ (j \in q..Len(L) /\ M[j] = L[j])
        BY <3>4, <1>6
      <4> QED
        BY <4>1, <3>3 DEF IssueStands
    <3>6. OrbitAt(M, src, key, o) /\ \A j \in (o + 1)..n : ~OrbitAt(M, src, key, j)
      <4>1. OrbitAt(M, src, key, o)
        BY <3>3, <3>4, <1>7 DEF IssueStands
      <4>2. ASSUME NEW j \in (o + 1)..n, OrbitAt(M, src, key, j) PROVE FALSE
        <5>1. j # n
          BY <4>2, <2>2, <1>9
        <5>2. o \in 1..(n - 1) /\ n \in Nat /\ Len(L) = n - 1
          BY <3>4, <1>6
        <5>3. j \in 1..(n - 1) /\ j \in (o + 1)..Len(L)
          BY <5>1, <5>2
        <5>4. OrbitAt(L, src, key, j)
          BY <5>3, <4>2, <1>7
        <5> QED
          BY <5>3, <5>4, <3>3 DEF IssueStands
      <4> QED
        BY <4>1, <4>2
    <3>7. MaskAt(M, src, key[1], q) /\ \A j \in (q + 1)..(o - 1) : ~MaskAt(M, src, key[1], j)
      <4>1. \A j \in (q + 1)..(o - 1) : j \in 1..(n - 1)
        BY <3>4, <1>6
      <4>2. MaskAt(L, src, key[1], q) /\ \A j \in (q + 1)..(o - 1) : ~MaskAt(L, src, key[1], j)
        BY <3>3 DEF IssueStands
      <4> QED
        BY <4>1, <4>2, <3>4, <1>7
    <3>8. \A j \in q..n : MaskAt(M, src, key[1], j) => /\ j \in q..Len(L) /\ M[j] = L[j]
                                                       /\ MaskAt(L, src, key[1], j)
      <4> SUFFICES ASSUME NEW j \in q..n, MaskAt(M, src, key[1], j)
                   PROVE  j \in q..Len(L) /\ M[j] = L[j] /\ MaskAt(L, src, key[1], j)
        OBVIOUS
      <4>1. j # n
        BY <1>8
      <4>2. j \in 1..(n - 1) /\ j \in q..Len(L)
        BY <4>1, <3>4, <1>6
      <4> QED
        BY <4>2, <1>6, <1>7
    <3>9. \A j \in (o + 1)..n : MaskAt(M, src, key[1], j) => /\ j \in (o + 1)..Len(L) /\ M[j] = L[j]
                                                            /\ MaskAt(L, src, key[1], j)
      <4> SUFFICES ASSUME NEW j \in (o + 1)..n, MaskAt(M, src, key[1], j)
                   PROVE  j \in (o + 1)..Len(L) /\ M[j] = L[j] /\ MaskAt(L, src, key[1], j)
        OBVIOUS
      <4>1. j \in q..n
        BY <3>4, <1>6
      <4> QED
        BY <4>1, <3>4, <3>8, <1>6
    <3>10. \A j \in (o + 1)..n : MaskAt(M, src, key[1], j) =>
            /\ M[j].t \in Int /\ M[o].t =< M[j].t
            /\ M[j].out.row.issue = M[q].out.row.issue \/ M[j].t - M[q].t >= HasLifetime
      BY <3>9, <3>3, <3>4 DEF IssueStands
    <3>11. \A j, k \in (o + 1)..n : MaskAt(M, src, key[1], j) /\ MaskAt(M, src, key[1], k) =>
            M[j].out.row.issue = M[k].out.row.issue
      <4>1. \A j, k \in (o + 1)..Len(L) : MaskAt(L, src, key[1], j) /\ MaskAt(L, src, key[1], k) =>
               L[j].out.row.issue = L[k].out.row.issue
        BY <3>3 DEF IssueStands
      <4> HIDE DEF MaskAt
      <4> QED
        BY <4>1, <3>9
    <3>12. /\ x.ref = M[o].out.row.issue.ref /\ x.received = M[o].t /\ M[o].t \in Int
           /\ M[o].out.row.issue.mask = M[q].out.row.issue
           /\ M[q].t \in Int /\ M[q].t =< M[o].t
      BY <3>3, <3>4 DEF IssueStands
    <3>13. o \in 1..n
      BY <3>4, <1>6
    <3>14. IssueStands(M, src, key, x, o, q)
      <4> HIDE DEF MaskAt, OrbitAt
      <4> QED
        BY <3>4, <3>5, <3>6, <3>7, <3>10, <3>11, <3>12, <3>13 DEF IssueStands
    <3>15. MasksSince(M, src, key[1], s.masks, q, t)
      BY <3>3, <3>8 DEF MasksSince
    <3> QED
      BY <3>1, <3>2, <3>14, <3>15
  <2> QED
    BY <2>1, <2>2
<1>12. Standing(M, f, src, t)
  BY <1>4, <1>10, <1>11 DEF Standing
<1> QED
  BY <1>12, <1>4 DEF f

\* The last withdrawal up to i is before k.
LEMMA SinceBefore ==
  ASSUME NEW L, NEW i \in Nat, NEW k \in 1..i, \A j \in k..i : ~L[j].has
  PROVE  LET since == Max({0} \cup {j \in 1..i : L[j].has}) IN since \in Nat /\ since < k
<1> DEFINE S == {0} \cup {j \in 1..i : L[j].has}
<1>1. S \in SUBSET (0..i) /\ S # {}
  OBVIOUS
<1>2. \A x \in S : x < k
  OBVIOUS
<1> HIDE DEF S
<1>3. Max(S) \in S
  BY <1>1, MaxBounded
<1> QED
  BY <1>1, <1>2, <1>3 DEF S

\* Entry o is the last orbit message of that name at i, and q its mask.
ToldBy(L, i, src, key, mask, ref, o, q) ==
    /\ \A j \in q..i : ~L[j].has
    /\ OrbitAt(L, src, key, o) /\ \A j \in (o + 1)..i : ~OrbitAt(L, src, key, j)
    /\ MaskAt(L, src, key[1], q) /\ \A j \in (q + 1)..(o - 1) : ~MaskAt(L, src, key[1], j)
    /\ L[o].out.row.issue.ref = ref /\ L[i].t - L[o].t < HasLifetime
    /\ \A j \in (o + 1)..i : MaskAt(L, src, key[1], j) =>
          /\ L[j].out.row.issue = mask
          /\ L[o].out.row.issue.mask = mask \/ L[j].t - L[q].t >= HasLifetime

OrbitTold(L, i, src, key, mask, ref) ==
    \E o \in 1..i : \E q \in 1..(o - 1) : ToldBy(L, i, src, key, mask, ref, o, q)

\* Refers, with the greatest members named.
LEMMA RefersBy ==
  ASSUME NEW L, NEW i \in Nat, NEW p \in 1..i, NEW src, NEW key, NEW mask, NEW ref,
         src = L[i].src, key = L[i].out.disc, mask = L[i].out.row.issue.mask, ref = L[i].out.row.issue.ref,
         MaskAt(L, src, key[1], p), \A j \in p..i : ~L[j].has, \A j \in (p + 1)..i : ~MaskAt(L, src, key[1], j),
         L[p].out.row.issue = mask, L[i].t - L[p].t < HasLifetime,
         ref # None => OrbitTold(L, i, src, key, mask, ref)
  PROVE  Refers(L, i)
<1> DEFINE since == Max({0} \cup {j \in 1..i : L[j].has})
           masks == {j \in (since + 1)..i : MaskAt(L, src, key[1], j)}
           orbits == {j \in (since + 1)..i : OrbitAt(L, src, key, j)}
           orbit == Max(orbits)
           under == Max({j \in masks : j < orbit})
           later == {j \in masks : j > orbit}
<1>1. since \in Nat /\ since < p
  BY SinceBefore
<1> HIDE DEF since
<1>2. masks \in SUBSET Nat /\ p \in masks /\ \A x \in masks : x <= p
  <2>1. \A x \in masks : x \in Nat /\ x <= i /\ MaskAt(L, src, key[1], x)
    BY <1>1
  <2> QED
    BY <1>1, <2>1
<1>3. Max(masks) = p
  <2> HIDE DEF masks
  <2> QED
    BY <1>2, MaxIs
<1>4. ASSUME ref # None
      PROVE  /\ orbits # {} /\ {j \in masks : j < orbit} # {} /\ L[orbit].out.row.issue.ref = ref
             /\ L[i].t - L[orbit].t < HasLifetime
             /\ \A j \in later : /\ L[j].out.row.issue = mask
                                 /\ L[orbit].out.row.issue.mask = mask \/ L[j].t - L[under].t >= HasLifetime
  <2>1. PICK o \in 1..i, q \in 1..(i - 1) : q \in 1..(o - 1) /\ ToldBy(L, i, src, key, mask, ref, o, q)
    BY <1>4 DEF OrbitTold
  <2>a. (\A j \in q..i : ~L[j].has) /\ OrbitAt(L, src, key, o)
    BY <2>1 DEF ToldBy
  <2>2. /\ q \in 1..(o - 1)
        /\ OrbitAt(L, src, key, o) /\ \A j \in (o + 1)..i : ~OrbitAt(L, src, key, j)
        /\ MaskAt(L, src, key[1], q) /\ \A j \in (q + 1)..(o - 1) : ~MaskAt(L, src, key[1], j)
        /\ L[o].out.row.issue.ref = ref /\ L[i].t - L[o].t < HasLifetime
        /\ \A j \in (o + 1)..i : MaskAt(L, src, key[1], j) =>
              /\ L[j].out.row.issue = mask
              /\ L[o].out.row.issue.mask = mask \/ L[j].t - L[q].t >= HasLifetime
    BY <2>1 DEF ToldBy
  <2>3. since < q
    <3>1. q \in 1..i
      BY <2>1
    <3> QED
      BY <3>1, <2>a, SinceBefore DEF since
  <2>4. orbits \in SUBSET Nat /\ o \in orbits /\ \A x \in orbits : x <= o
    <3>1. o \in (since + 1)..i
      BY <1>1, <2>1, <2>3
    <3>2. o \in orbits
      BY <3>1, <2>a
    <3>3. \A x \in orbits : x \in Nat /\ x <= i /\ OrbitAt(L, src, key, x)
      BY <1>1
    <3>4. \A x \in orbits : x <= o
      BY <3>3, <2>2, SMTT(30)
    <3> QED
      BY <3>2, <3>3, <3>4
  <2>5. orbit = o
    <3> HIDE DEF orbits
    <3> QED
      BY <2>4, MaxIs
  <2> DEFINE before == {j \in masks : j < orbit}
  <2>6. before \in SUBSET Nat /\ q \in before /\ \A x \in before : x <= q
    <3>1. q \in (since + 1)..i
      BY <1>1, <2>3
    <3>2. q \in before
      <4> HIDE DEF orbit
      <4> QED
        BY <3>1, <2>2, <2>5, SMTT(30)
    <3>3. \A x \in before : x \in Nat /\ x < o /\ MaskAt(L, src, key[1], x)
      <4> HIDE DEF orbit
      <4> QED
        BY <1>1, <2>5
    <3>4. \A x \in before : x <= q
      <4>1. \A j \in (q + 1)..(o - 1) : ~MaskAt(L, src, key[1], j)
        BY <2>2
      <4>2. q \in Nat /\ o \in Nat
        BY <2>2, SMTT(30)
      <4>3. ASSUME NEW x \in before PROVE x <= q
        <5>1. x \in Nat /\ x < o /\ MaskAt(L, src, key[1], x)
          BY <3>3
        <5> HIDE DEF before, MaskAt
        <5>2. x \notin (q + 1)..(o - 1)
          BY <5>1, <4>1
        <5> QED
          BY <5>1, <5>2, <4>2
      <4> QED
        BY <4>3
    <3> QED
      BY <3>2, <3>3, <3>4
  <2>7. under = q
    <3> HIDE DEF before
    <3>1. Max(before) = q
      BY <2>6, MaxIs
    <3> QED
      BY <3>1 DEF before
  <2>8. \A j \in later : j \in (o + 1)..i /\ MaskAt(L, src, key[1], j)
    <3> HIDE DEF orbit
    <3> QED
      BY <1>1, <2>5
  <2>9. {j \in masks : j < orbit} # {}
    BY <2>6
  <2> HIDE DEF orbit, under, later, masks, orbits, MaskAt, OrbitAt
  <2> QED
    BY <2>2, <2>4, <2>5, <2>7, <2>8, <2>9
<1>5. /\ masks = {j \in (since + 1)..i : L[j].src = L[i].src /\ L[j].out.kind = "gal_has_mask"
                                            /\ L[j].out.disc[1] = L[i].out.disc[1]}
      /\ orbits = {j \in (since + 1)..i : L[j].src = L[i].src /\ L[j].out.kind = "gal_has_orbit"
                                             /\ L[j].out.disc = L[i].out.disc}
  BY DEF MaskAt, OrbitAt
<1>6. masks # {} /\ L[Max(masks)].out.row.issue = mask /\ L[i].t - L[Max(masks)].t < HasLifetime
  BY <1>2, <1>3
<1> DEFINE M1 == {j \in (since + 1)..i : L[j].src = L[i].src /\ L[j].out.kind = "gal_has_mask"
                                            /\ L[j].out.disc[1] = L[i].out.disc[1]}
           O1 == {j \in (since + 1)..i : L[j].src = L[i].src /\ L[j].out.kind = "gal_has_orbit"
                                             /\ L[j].out.disc = L[i].out.disc}
<1> HIDE DEF masks, orbits
<1>7. M1 = masks /\ O1 = orbits
  BY <1>5
<1> HIDE DEF M1, O1
<1>8. /\ M1 # {} /\ L[Max(M1)].out.row.issue = mask /\ L[i].t - L[Max(M1)].t < HasLifetime
      /\ ref # None =>
           /\ O1 # {} /\ {k \in M1 : k < Max(O1)} # {} /\ L[Max(O1)].out.row.issue.ref = ref
           /\ L[i].t - L[Max(O1)].t < HasLifetime
           /\ \A j \in {j \in M1 : j > Max(O1)} :
                 /\ L[j].out.row.issue = mask
                 /\ L[Max(O1)].out.row.issue.mask = mask
                    \/ L[j].t - L[Max({k \in M1 : k < Max(O1)})].t >= HasLifetime
  BY <1>4, <1>6, <1>7
<1> QED
  BY <1>8 DEF Refers, M1, O1, since

\* A correction that says what its source keeps refers to what was announced.
LEMMA RefersHere ==
  ASSUME NEW L, NEW s, NEW src, NEW t \in Int, Standing(L, s, src, t), NEW h, h.maskid \in DOMAIN s.masks,
         \A id \in DOMAIN s.masks : t - s.masks[id].received < HasLifetime,
         \A key \in DOMAIN s.issues : t - s.issues[key].received < HasLifetime,
         Len(L) \in Nat, L[Len(L)].src = src, L[Len(L)].t = t,
         L[Len(L)].out.disc = <<h.maskid, h.iod>>, L[Len(L)].out.row.issue = About(s, h)
  PROVE  Refers(L, Len(L))
<1> DEFINE n == Len(L)  key == <<h.maskid, h.iod>>  id == h.maskid
           mask == s.masks[id].value  ref == L[n].out.row.issue.ref
<1>1. /\ key[1] = id /\ id \in DOMAIN s.masks
      /\ L[n].out.row.issue = [mask |-> mask, ref |-> IF key \in DOMAIN s.issues THEN s.issues[key].ref ELSE None]
  BY DEF About
<1>2. L[n].out.row.issue.mask = mask /\ ref = IF key \in DOMAIN s.issues THEN s.issues[key].ref ELSE None
  BY <1>1
<1>3. PICK p : MaskStands(L, src, id, s.masks[id], p)
  BY DEF Standing
<1>4. /\ s.masks[id].received \in Int /\ s.masks[id].received =< t
      /\ t - s.masks[id].received < HasLifetime
  BY ReceivedTyped DEF Standing
<1>5. /\ p \in 1..n /\ MaskAt(L, src, id, p)
      /\ \A j \in p..n : ~L[j].has
      /\ \A j \in (p + 1)..n : ~MaskAt(L, src, id, j)
      /\ mask = L[p].out.row.issue /\ s.masks[id].received = L[p].t /\ L[p].t \in Int
  BY <1>3 DEF MaskStands
<1>6. L[n].t - L[p].t < HasLifetime
  BY <1>4, <1>5
<1>7. src = L[n].src /\ key = L[n].out.disc /\ L[n].t = t
  OBVIOUS
<1> HIDE DEF key, id, mask, ref
<1>8. ASSUME ref # None
      PROVE  \E o \in 1..n : \E q \in 1..(o - 1) :
               /\ \A j \in q..n : ~L[j].has
               /\ OrbitAt(L, src, key, o) /\ \A j \in (o + 1)..n : ~OrbitAt(L, src, key, j)
               /\ MaskAt(L, src, key[1], q) /\ \A j \in (q + 1)..(o - 1) : ~MaskAt(L, src, key[1], j)
               /\ L[o].out.row.issue.ref = ref /\ L[n].t - L[o].t < HasLifetime
               /\ \A j \in (o + 1)..n : MaskAt(L, src, key[1], j) =>
                     /\ L[j].out.row.issue = mask
                     /\ L[o].out.row.issue.mask = mask \/ L[j].t - L[q].t >= HasLifetime
  <2> DEFINE x == s.issues[key]
  <2>1. key \in DOMAIN s.issues /\ ref = x.ref /\ t - x.received < HasLifetime
    BY <1>2, <1>8
  <2>2. PICK o, q : IssueStands(L, src, key, x, o, q)
    BY <2>1 DEF Standing
  <2> HIDE DEF x
  <2>3. /\ o \in 1..n /\ q \in 1..(o - 1)
        /\ \A j \in q..n : ~L[j].has
        /\ OrbitAt(L, src, key, o) /\ \A j \in (o + 1)..n : ~OrbitAt(L, src, key, j)
        /\ MaskAt(L, src, key[1], q) /\ \A j \in (q + 1)..(o - 1) : ~MaskAt(L, src, key[1], j)
        /\ x.ref = L[o].out.row.issue.ref /\ x.received = L[o].t /\ L[o].out.row.issue.mask = L[q].out.row.issue
    BY <2>2 DEF IssueStands
  <2>4. /\ \A j \in (o + 1)..n : MaskAt(L, src, key[1], j) =>
               L[j].out.row.issue = L[q].out.row.issue \/ L[j].t - L[q].t >= HasLifetime
        /\ \A j, k \in (o + 1)..n : MaskAt(L, src, key[1], j) /\ MaskAt(L, src, key[1], k) =>
               L[j].out.row.issue = L[k].out.row.issue
    BY <2>2 DEF IssueStands
  <2>5. ASSUME NEW j \in (o + 1)..n, MaskAt(L, src, key[1], j)
        PROVE  /\ L[j].out.row.issue = mask
               /\ L[o].out.row.issue.mask = mask \/ L[j].t - L[q].t >= HasLifetime
    <3>1. p >= j
      BY <2>3, <2>5, <1>1, <1>5
    <3>2. p \in (o + 1)..n /\ MaskAt(L, src, key[1], p)
      BY <3>1, <2>3, <1>1, <1>5
    <3> QED
      BY <3>2, <2>3, <2>4, <2>5, <1>5
  <2> QED
    BY <2>1, <2>3, <2>5, <1>7
<1>9. n \in Nat /\ p \in 1..n /\ MaskAt(L, src, key[1], p) /\ \A j \in (p + 1)..n : ~MaskAt(L, src, key[1], j)
  BY <1>1, <1>5
<1>10. mask = L[n].out.row.issue.mask /\ ref = L[n].out.row.issue.ref
  BY <1>2 DEF ref
<1> HIDE DEF n, MaskAt, OrbitAt
<1>11. /\ src = L[n].src /\ key = L[n].out.disc /\ mask = L[n].out.row.issue.mask /\ ref = L[n].out.row.issue.ref
       /\ \A j \in p..n : ~L[j].has
       /\ L[p].out.row.issue = mask
  BY <1>5, <1>7, <1>10
<1>12. ref # None => OrbitTold(L, n, src, key, mask, ref)
  BY <1>8 DEF OrbitTold, ToldBy
<1>13. (ref # None => OrbitTold(L, n, src, key, mask, ref)) => Refers(L, n)
  BY <1>6, <1>9, <1>11, RefersBy
<1>14. Refers(L, n)
  BY <1>12, <1>13
<1> QED
  BY <1>14 DEF n

\* What an entry refers to does not change as the log goes on.
LEMMA RefersKept ==
  ASSUME NEW L, NEW M, Onward(L, M), NEW i \in 1..Len(L)
  PROVE  Refers(M, i) <=> Refers(L, i)
<1>1. \A j \in 1..i : M[j] = L[j]
  BY DEF Onward
<1>2. M[i] = L[i] /\ i \in Nat /\ i >= 1
  BY DEF Onward
<1> DEFINE hasL == {j \in 1..i : L[j].has}  hasM == {j \in 1..i : M[j].has}
           since == Max({0} \cup hasL)
           masksL == {j \in (since + 1)..i : L[j].src = L[i].src /\ L[j].out.kind = "gal_has_mask"
                                            /\ L[j].out.disc[1] = L[i].out.disc[1]}
           masksM == {j \in (since + 1)..i : M[j].src = L[i].src /\ M[j].out.kind = "gal_has_mask"
                                            /\ M[j].out.disc[1] = L[i].out.disc[1]}
           orbitsL == {j \in (since + 1)..i : L[j].src = L[i].src /\ L[j].out.kind = "gal_has_orbit"
                                             /\ L[j].out.disc = L[i].out.disc}
           orbitsM == {j \in (since + 1)..i : M[j].src = L[i].src /\ M[j].out.kind = "gal_has_orbit"
                                             /\ M[j].out.disc = L[i].out.disc}
<1>3. hasM = hasL
  BY <1>1
<1>4. since \in Nat
  <2>1. {0} \cup hasL \in SUBSET (0..i) /\ {0} \cup hasL # {}
    BY <1>2
  <2> HIDE DEF hasL
  <2>2. since \in {0} \cup hasL
    BY <1>2, <2>1, MaxBounded
  <2> HIDE DEF since
  <2> QED
    BY <1>2, <2>1, <2>2
<1> HIDE DEF since
<1>5. \A j \in (since + 1)..i : M[j] = L[j] /\ j \in 1..i
  BY <1>1, <1>4
<1>6. masksM = masksL /\ orbitsM = orbitsL
  BY <1>5
<1> DEFINE orbit == Max(orbitsL)  given == {j \in masksL : j < orbit}
           later == {j \in masksL : j > orbit}
<1>7. \A j \in masksL : M[j] = L[j]
  BY <1>5
<1>8. \A j \in orbitsL : M[j] = L[j]
  BY <1>5
<1>9. masksL \in SUBSET (0..i) /\ orbitsL \in SUBSET (0..i) /\ given \in SUBSET (0..i)
  BY <1>4
<1>10. given \subseteq masksL /\ later \subseteq masksL
  OBVIOUS
<1> HIDE DEF masksL, orbitsL, given, later, masksM, orbitsM
<1>11. masksL # {} => M[Max(masksL)] = L[Max(masksL)]
  BY <1>2, <1>7, <1>9, MaxBounded
<1>12. orbitsL # {} => M[orbit] = L[orbit]
  BY <1>2, <1>8, <1>9, MaxBounded
<1>13. given # {} => M[Max(given)] = L[Max(given)]
  BY <1>2, <1>7, <1>9, <1>10, MaxBounded
<1>14. \A j \in later : M[j] = L[j]
  BY <1>7, <1>10
<1> DEFINE Says(N) ==
      /\ masksL # {} /\ N[Max(masksL)].out.row.issue = L[i].out.row.issue.mask
      /\ L[i].t - N[Max(masksL)].t < HasLifetime
      /\ L[i].out.row.issue.ref # None =>
           /\ orbitsL # {} /\ given # {} /\ N[orbit].out.row.issue.ref = L[i].out.row.issue.ref
           /\ L[i].t - N[orbit].t < HasLifetime
           /\ \A j \in later :
                /\ N[j].out.row.issue = L[i].out.row.issue.mask
                /\ \/ N[orbit].out.row.issue.mask = L[i].out.row.issue.mask
                   \/ N[j].t - N[Max(given)].t >= HasLifetime
<1>15. Says(M) <=> Says(L)
  <2> HIDE DEF orbit
  <2> QED
    BY <1>11, <1>12, <1>13, <1>14
<1>16. Refers(L, i) <=> Says(L)
  BY DEF Refers, masksL, orbitsL, given, later, since
<1>17. Refers(M, i) <=> Says(M)
  <2> DEFINE late == Max({0} \cup hasM)
             masks == {j \in (late + 1)..i : M[j].src = M[i].src /\ M[j].out.kind = "gal_has_mask"
                                            /\ M[j].out.disc[1] = M[i].out.disc[1]}
             orbits == {j \in (late + 1)..i : M[j].src = M[i].src /\ M[j].out.kind = "gal_has_orbit"
                                             /\ M[j].out.disc = M[i].out.disc}
             Final == Max(orbits)  Under == {j \in masks : j < Final}  Later == {j \in masks : j > Final}
  <2>1. late = since
    BY <1>3 DEF since
  <2>2. masks = masksL /\ orbits = orbitsL
    <3> HIDE DEF late
    <3> QED
      BY <2>1, <1>2, <1>6 DEF masksM, orbitsM
  <2>3. Final = orbit
    <3> HIDE DEF orbits
    <3> QED
      BY <2>2
  <2>4. Under = given /\ Later = later
    <3> HIDE DEF masks, Final, orbit
    <3> QED
      BY <2>2, <2>3 DEF given, later
  <2> DEFINE Told == 
      /\ masks # {} /\ M[Max(masks)].out.row.issue = M[i].out.row.issue.mask
      /\ M[i].t - M[Max(masks)].t < HasLifetime
      /\ M[i].out.row.issue.ref # None =>
           /\ orbits # {} /\ Under # {} /\ M[Final].out.row.issue.ref = M[i].out.row.issue.ref
           /\ M[i].t - M[Final].t < HasLifetime
           /\ \A j \in Later :
                /\ M[j].out.row.issue = M[i].out.row.issue.mask
                /\ \/ M[Final].out.row.issue.mask = M[i].out.row.issue.mask
                   \/ M[j].t - M[Max(Under)].t >= HasLifetime
  <2>5. Refers(M, i) <=> Told
    BY DEF Refers
  <2> HIDE DEF masks, orbits, Final, Under, Later, orbit
  <2>6. Told <=> Says(M)
    BY <2>2, <2>3, <2>4, <1>2
  <2> QED
    BY <2>5, <2>6
<1> QED
  BY <1>15, <1>16, <1>17

(***************************************************************************)
(* The log after the rows of a call, one row at a time.                    *)
(***************************************************************************)

LEMMA SameSeq ==
  ASSUME NEW s, IsSeq(s), NEW u, IsSeq(u), Len(s) = Len(u), \A i \in 1..Len(s) : s[i] = u[i]
  PROVE  s = u
<1>1. PICK A : s \in Seq(A)
  BY DEF IsSeq
<1>2. PICK B : u \in Seq(B)
  BY DEF IsSeq
<1>3. s \in [1..Len(s) -> A] /\ u \in [1..Len(u) -> B]
  BY <1>1, <1>2, LenProperties
<1>4. DOMAIN s = 1..Len(s) /\ DOMAIN u = 1..Len(s) /\ s = [i \in DOMAIN s |-> s[i]] /\ u = [i \in DOMAIN u |-> u[i]]
  BY <1>3
<1> QED
  BY <1>4

Listed(m, o) == [t |-> m.t, src |-> m.src, fam |-> m.fam, out |-> o,
                has |-> HasWithdrawn(o, m), ppp |-> PppWithdrawn(o)]
LogOf(L, m, outs) == L \o Logged(m, outs)

LEMMA LoggedIs ==
  ASSUME NEW m, NEW outs, IsSeq(outs)
  PROVE  /\ IsSeq(Logged(m, outs)) /\ Len(Logged(m, outs)) = Len(outs) /\ Len(outs) \in Nat
         /\ DOMAIN outs = 1..Len(outs)
         /\ \A i \in 1..Len(outs) : Logged(m, outs)[i] = Listed(m, outs[i])
<1> DEFINE n == Len(outs)  f == Logged(m, outs)
<1>1. n \in Nat /\ DOMAIN outs = 1..n
  BY SeqFacts
<1> HIDE DEF n
<1>2. f = [i \in 1..n |-> f[i]] /\ \A i \in 1..n : f[i] = Listed(m, outs[i])
  BY <1>1 DEF Logged, Listed
<1> HIDE DEF f
<1>3. IsSeq(f) /\ Len(f) = n
  BY <1>1, <1>2, FunctionSeq
<1> QED
  BY <1>1, <1>2, <1>3 DEF f, n

\* What the log holds after a call.
LEMMA LogOfIs ==
  ASSUME NEW L, IsSeq(L), NEW m, NEW outs, IsSeq(outs)
  PROVE  LET M == LogOf(L, m, outs) IN
           /\ IsSeq(M) /\ Onward(L, M) /\ Len(M) = Len(L) + Len(outs)
           /\ Len(L) \in Nat /\ Len(outs) \in Nat /\ DOMAIN outs = 1..Len(outs) /\ DOMAIN M = 1..Len(M)
           /\ \A j \in (Len(L) + 1)..Len(M) : /\ j - Len(L) \in 1..Len(outs)
                                              /\ M[j] = Listed(m, outs[j - Len(L)])
<1> DEFINE u == Logged(m, outs)  M == LogOf(L, m, outs)
<1>1. /\ IsSeq(u) /\ Len(u) = Len(outs) /\ Len(outs) \in Nat /\ DOMAIN outs = 1..Len(outs)
      /\ \A i \in 1..Len(outs) : u[i] = Listed(m, outs[i])
  BY LoggedIs
<1>2. M = L \o u
  BY DEF LogOf
<1> HIDE DEF u, M
<1>3. /\ IsSeq(M) /\ Len(L) \in Nat /\ Len(M) = Len(L) + Len(u) /\ DOMAIN M = 1..(Len(L) + Len(u))
      /\ \A i \in 1..Len(L) : M[i] = L[i]
      /\ \A i \in (Len(L) + 1)..(Len(L) + Len(u)) : M[i] = u[i - Len(L)]
  BY <1>1, <1>2, CatFacts
<1>4. Onward(L, M)
  BY <1>1, <1>3 DEF Onward
<1>5. ASSUME NEW j \in (Len(L) + 1)..Len(M)
      PROVE  j - Len(L) \in 1..Len(outs) /\ M[j] = Listed(m, outs[j - Len(L)])
  <2>1. j - Len(L) \in 1..Len(outs)
    BY <1>1, <1>3
  <2>2. M[j] = u[j - Len(L)]
    BY <1>3
  <2> QED
    BY <2>1, <2>2, <1>1
<1> QED
  BY <1>1, <1>3, <1>4, <1>5 DEF M

LEMMA LogOfOne ==
  ASSUME NEW L, IsSeq(L), NEW m, NEW o
  PROVE  LET M == LogOf(L, m, <<o>>) IN
           /\ IsSeq(M) /\ Onward(L, M) /\ Len(M) = Len(L) + 1 /\ Len(L) \in Nat
           /\ M[Len(M)] = Listed(m, o)
<1> DEFINE M == LogOf(L, m, <<o>>)  outs == <<o>>
<1>1. IsSeq(outs) /\ Len(outs) = 1 /\ outs[1] = o
  BY OneSeq
<1> HIDE DEF outs
<1>2. LET N == LogOf(L, m, outs) IN
           /\ IsSeq(N) /\ Onward(L, N) /\ Len(N) = Len(L) + Len(outs)
           /\ Len(L) \in Nat
           /\ \A j \in (Len(L) + 1)..Len(N) : N[j] = Listed(m, outs[j - Len(L)])
  <2>1. IsSeq(outs)
    BY <1>1
  <2> DEFINE N == LogOf(L, m, outs)
  <2>2. /\ IsSeq(N) /\ Onward(L, N) /\ Len(N) = Len(L) + Len(outs) /\ Len(L) \in Nat
        /\ \A j \in (Len(L) + 1)..Len(N) : j - Len(L) \in 1..Len(outs) /\ N[j] = Listed(m, outs[j - Len(L)])
    BY <2>1, LogOfIs
  <2> HIDE DEF N
  <2>3. \A j \in (Len(L) + 1)..Len(N) : N[j] = Listed(m, outs[j - Len(L)])
    BY <2>2
  <2> QED
    BY <2>2, <2>3 DEF N
<1>3. M = LogOf(L, m, outs)
  BY DEF outs
<1> HIDE DEF M
<1>4. /\ IsSeq(M) /\ Onward(L, M) /\ Len(M) = Len(L) + 1 /\ Len(L) \in Nat
      /\ \A j \in (Len(L) + 1)..Len(M) : M[j] = Listed(m, outs[j - Len(L)])
  BY <1>1, <1>2, <1>3
<1>5. M[Len(M)] = Listed(m, o)
  <2>1. Len(M) \in (Len(L) + 1)..Len(M) /\ Len(M) - Len(L) = 1
    BY <1>4
  <2> QED
    BY <2>1, <1>1, <1>4
<1> QED
  BY <1>4, <1>5 DEF M

LEMMA LogOfNone == ASSUME NEW L, IsSeq(L), NEW m PROVE LogOf(L, m, <<>>) = L
<1>1. IsSeq(<<>>) /\ Len(<<>>) = 0
  BY NoneSeq
<1>2. IsSeq(Logged(m, <<>>)) /\ Len(Logged(m, <<>>)) = 0
  BY <1>1, LoggedIs
<1>3. Logged(m, <<>>) = <<>>
  BY <1>1, <1>2, SameSeq
<1> QED
  BY <1>3, CatNone DEF LogOf

\* The rows of a call one after the other.
LEMMA LogOfCat ==
  ASSUME NEW L, IsSeq(L), NEW m, NEW a, IsSeq(a), NEW b, IsSeq(b)
  PROVE  LogOf(L, m, a \o b) = LogOf(LogOf(L, m, a), m, b)
<1>1. /\ IsSeq(Logged(m, a)) /\ Len(Logged(m, a)) = Len(a)
      /\ \A i \in 1..Len(a) : Logged(m, a)[i] = Listed(m, a[i])
  BY LoggedIs
<1>2. /\ IsSeq(Logged(m, b)) /\ Len(Logged(m, b)) = Len(b)
      /\ \A i \in 1..Len(b) : Logged(m, b)[i] = Listed(m, b[i])
  BY LoggedIs
<1> DEFINE c == a \o b  x == Logged(m, a)  y == Logged(m, b)  z == x \o y
<1>3. /\ IsSeq(c) /\ Len(a) \in Nat /\ Len(b) \in Nat /\ Len(c) = Len(a) + Len(b)
      /\ \A i \in 1..Len(a) : c[i] = a[i]
      /\ \A i \in (Len(a) + 1)..(Len(a) + Len(b)) : c[i] = b[i - Len(a)]
  BY CatFacts
<1>4. /\ IsSeq(Logged(m, c)) /\ Len(Logged(m, c)) = Len(c)
      /\ \A i \in 1..Len(c) : Logged(m, c)[i] = Listed(m, c[i])
  BY <1>3, LoggedIs
<1> HIDE DEF c, x, y
<1>5. /\ IsSeq(x) /\ Len(x) = Len(a) /\ IsSeq(y) /\ Len(y) = Len(b)
      /\ \A i \in 1..Len(a) : x[i] = Listed(m, a[i])
      /\ \A i \in 1..Len(b) : y[i] = Listed(m, b[i])
  BY <1>1, <1>2 DEF x, y
<1>6. /\ IsSeq(z) /\ Len(z) = Len(x) + Len(y)
      /\ \A i \in 1..Len(x) : z[i] = x[i]
      /\ \A i \in (Len(x) + 1)..(Len(x) + Len(y)) : z[i] = y[i - Len(x)]
  BY <1>5, CatFacts
<1> HIDE DEF z
<1>7. \A i \in 1..Len(c) : Logged(m, c)[i] = z[i]
  <2> SUFFICES ASSUME NEW i \in 1..Len(c) PROVE Logged(m, c)[i] = z[i]
    OBVIOUS
  <2>1. CASE i =< Len(a)
    BY <2>1, <1>3, <1>4, <1>5, <1>6
  <2>2. CASE i > Len(a)
    <3>1. i \in (Len(a) + 1)..(Len(a) + Len(b)) /\ i - Len(a) \in 1..Len(b)
      BY <2>2, <1>3
    <3>2. c[i] = b[i - Len(a)] /\ z[i] = y[i - Len(a)]
      BY <3>1, <1>3, <1>5, <1>6
    <3> QED
      BY <3>1, <3>2, <1>4, <1>5
  <2> QED
    BY <2>1, <2>2, <1>3
<1>8. Logged(m, c) = z
  BY <1>3, <1>4, <1>5, <1>6, <1>7, SameSeq
<1>9. (L \o x) \o y = L \o (x \o y)
  <2>1. IsSeq(L) /\ IsSeq(x) /\ IsSeq(y)
    BY <1>5
  <2> QED
    BY ONLY <2>1, CatThree
<1> QED
  BY <1>8, <1>9 DEF LogOf, c, x, y, z

(***************************************************************************)
(* A message in the parser: what each of its rows does to the log and to   *)
(* what the source keeps.                                                  *)
(***************************************************************************)

Good(L) == IsSeq(L) /\ \A i \in 1..Len(L) : L[i].out.kind \in HasKinds => Refers(L, i)

FreshAt(s, t) == /\ \A id \in DOMAIN s.masks : t - s.masks[id].received < HasLifetime
                 /\ \A key \in DOMAIN s.issues : t - s.issues[key].received < HasLifetime

\* The log and what the source keeps, in the course of a message.
Stage(L, m, s) == Good(L) /\ Standing(L, s, m.src, m.t) /\ FreshAt(s, m.t)

LEMMA GoodNext ==
  ASSUME NEW L, NEW M, Good(L), Onward(L, M), IsSeq(M),
         \A i \in (Len(L) + 1)..Len(M) : M[i].out.kind \in HasKinds => Refers(M, i)
  PROVE  Good(M)
<1> SUFFICES ASSUME NEW i \in 1..Len(M), M[i].out.kind \in HasKinds PROVE Refers(M, i)
  BY DEF Good
<1>1. CASE i \in 1..Len(L)
  <2>1. M[i] = L[i]
    BY <1>1 DEF Onward
  <2>2. Refers(L, i)
    BY <1>1, <2>1 DEF Good
  <2> QED
    BY <1>1, <2>2, RefersKept
<1>2. CASE i \in (Len(L) + 1)..Len(M)
  BY <1>2
<1>3. i \in 1..Len(L) \/ i \in (Len(L) + 1)..Len(M)
  BY DEF Onward
<1> QED
  BY <1>1, <1>2, <1>3

LEMMA EntryIs ==
  ASSUME NEW m, NEW o
  PROVE  /\ Listed(m, o).t = m.t /\ Listed(m, o).src = m.src /\ Listed(m, o).out = o
         /\ Listed(m, o).has = HasWithdrawn(o, m)
BY DEF Listed

\* A row that says nothing of masks, orbits or the service.
LEMMA StageSaid ==
  ASSUME NEW L, NEW m, NEW s, Stage(L, m, s), NEW o,
         o.kind \notin HasKinds \cup {"gal_has_mask"}, ~HasWithdrawn(o, m)
  PROVE  Stage(LogOf(L, m, <<o>>), m, s)
<1> DEFINE M == LogOf(L, m, <<o>>)
<1>1. IsSeq(M) /\ Onward(L, M) /\ Len(M) = Len(L) + 1 /\ Len(L) \in Nat /\ M[Len(M)] = Listed(m, o)
  BY LogOfOne DEF Stage, Good
<1> HIDE DEF M
<1>2. \A j \in (Len(L) + 1)..Len(M) : M[j].out = o /\ M[j].has = HasWithdrawn(o, m)
  BY <1>1, EntryIs
<1>3. o.kind # "gal_has_mask" /\ o.kind # "gal_has_orbit" /\ o.kind \notin HasKinds
  BY DEF HasKinds
<1>4. Aside(M, m.src, Len(L))
  BY <1>2, <1>3 DEF Aside
<1>5. Standing(M, s, m.src, m.t)
  <2>1. m.t \in Int => m.t \in Int /\ m.t =< m.t
    OBVIOUS
  <2> QED
    BY <1>1, <1>4, <2>1, StandsAside DEF Stage
<1>6. Good(M)
  BY <1>1, <1>2, <1>3, GoodNext DEF Stage
<1> QED
  BY <1>5, <1>6 DEF Stage, M

LEMMA StageMask ==
  ASSUME NEW L, NEW m, NEW s, m.t \in Int, Stage(L, m, s), NEW h, NEW row, row.issue = h.mask
  PROVE  LET o == Output("gal_has_mask", FALSE, <<h.maskid, 0>>, row)
             f == InstallMask(s, h, m.t)
         IN  Stage(LogOf(L, m, <<o>>), m, f) /\ h.maskid \in DOMAIN f.masks
<1> DEFINE o == Output("gal_has_mask", FALSE, <<h.maskid, 0>>, row)
           f == InstallMask(s, h, m.t)
           M == LogOf(L, m, <<o>>)
<1>1. o.kind = "gal_has_mask" /\ o.disc = <<h.maskid, 0>> /\ o.row = row
  BY DEF Output
<1> HIDE DEF o
<1>2. IsSeq(M) /\ Onward(L, M) /\ Len(M) = Len(L) + 1 /\ Len(L) \in Nat /\ M[Len(M)] = Listed(m, o)
  BY LogOfOne DEF Stage, Good
<1>3. ~HasWithdrawn(o, m) /\ o.kind \notin HasKinds
  BY <1>1 DEF HasWithdrawn, HasKinds
<1> HIDE DEF M, f
<1>4. /\ M[Len(M)].t = m.t /\ M[Len(M)].src = m.src /\ M[Len(M)].out = o /\ M[Len(M)].has = FALSE
  BY <1>2, <1>3, EntryIs
<1>5. MaskAt(M, m.src, h.maskid, Len(M))
  BY <1>1, <1>4 DEF MaskAt
<1>6. M[Len(M)].out.row.issue = h.mask /\ ~M[Len(M)].has
  BY <1>1, <1>4
<1>7. /\ Standing(L, s, m.src, m.t)
      /\ \A id \in DOMAIN s.masks : m.t - s.masks[id].received < HasLifetime
      /\ \A key \in DOMAIN s.issues : m.t - s.issues[key].received < HasLifetime
  BY DEF Stage, FreshAt
<1>8. LET g == InstallMask(s, h, m.t) IN
           /\ Standing(M, g, m.src, m.t)
           /\ h.maskid \in DOMAIN g.masks
           /\ (\A id \in DOMAIN s.masks : m.t - s.masks[id].received < HasLifetime) =>
                 \A id \in DOMAIN g.masks : m.t - g.masks[id].received < HasLifetime
  BY <1>2, <1>4, <1>5, <1>6, <1>7, MaskInstalled
<1>9. /\ Standing(M, f, m.src, m.t) /\ h.maskid \in DOMAIN f.masks
      /\ \A id \in DOMAIN f.masks : m.t - f.masks[id].received < HasLifetime
  BY <1>7, <1>8 DEF f
<1>10. \A key \in DOMAIN f.issues : m.t - f.issues[key].received < HasLifetime
  <2> DEFINE keys == {k \in DOMAIN s.issues : ~(h.maskid \in DOMAIN s.masks /\ s.masks[h.maskid].value # h.mask
                                                /\ k[1] = h.maskid)}
             masks == With(s.masks, h.maskid, [value |-> h.mask, received |-> m.t])
             issues == Only(s.issues, keys)
  <2>1. s = [pages |-> s.pages, masks |-> s.masks, issues |-> s.issues]
    BY <1>7 DEF Standing
  <2>2. f = [s EXCEPT !.masks = masks, !.issues = issues]
    BY <2>1 DEF InstallMask, f
  <2>3. \A k \in DOMAIN issues : k \in DOMAIN s.issues /\ issues[k] = s.issues[k]
    BY DEF Only
  <2> HIDE DEF masks, issues
  <2>4. f.issues = issues
    BY <2>1, <2>2
  <2> QED
    BY <2>3, <2>4, <1>7
<1>11. Good(M)
  <2>1. \A i \in (Len(L) + 1)..Len(M) : M[i].out.kind \notin HasKinds
    BY <1>2, <1>3, <1>4
  <2> QED
    BY <1>2, <2>1, GoodNext DEF Stage
<1> QED
  BY <1>9, <1>10, <1>11 DEF Stage, FreshAt, f, M, o

\* A correction with the mask and the issue that the source keeps.
LEMMA StageCorrection ==
  ASSUME NEW L, NEW m, NEW s, m.t \in Int, Stage(L, m, s), NEW h, h.maskid \in DOMAIN s.masks,
         NEW o, o.kind \in HasKinds \ {"gal_has_orbit"}, o.disc = <<h.maskid, h.iod>>,
         o.row.issue = About(s, h)
  PROVE  Stage(LogOf(L, m, <<o>>), m, s)
<1> DEFINE M == LogOf(L, m, <<o>>)
<1>1. IsSeq(M) /\ Onward(L, M) /\ Len(M) = Len(L) + 1 /\ Len(L) \in Nat /\ M[Len(M)] = Listed(m, o)
  BY LogOfOne DEF Stage, Good
<1> HIDE DEF M
<1>2. ~HasWithdrawn(o, m) /\ o.kind \notin {"gal_has_mask", "gal_has_orbit"}
  BY DEF HasWithdrawn, HasKinds
<1>3. /\ M[Len(M)].t = m.t /\ M[Len(M)].src = m.src /\ M[Len(M)].out = o /\ ~M[Len(M)].has
  BY <1>1, <1>2, EntryIs
<1>4. Aside(M, m.src, Len(L))
  BY <1>1, <1>2, <1>3 DEF Aside
<1>5. Standing(M, s, m.src, m.t)
  <2>1. m.t \in Int => m.t \in Int /\ m.t =< m.t
    OBVIOUS
  <2> QED
    BY <1>1, <1>4, <2>1, StandsAside DEF Stage
<1>6. /\ \A id \in DOMAIN s.masks : m.t - s.masks[id].received < HasLifetime
      /\ \A key \in DOMAIN s.issues : m.t - s.issues[key].received < HasLifetime
  BY DEF Stage, FreshAt
<1>7. Refers(M, Len(M))
  <2>1. Len(M) \in Nat /\ M[Len(M)].out.disc = <<h.maskid, h.iod>> /\ M[Len(M)].out.row.issue = About(s, h)
    BY <1>1, <1>3
  <2> QED
    BY <2>1, <1>3, <1>5, <1>6, RefersHere
<1>8. Good(M)
  <2>1. \A i \in (Len(L) + 1)..Len(M) : i = Len(M)
    BY <1>1
  <2>2. \A i \in (Len(L) + 1)..Len(M) : M[i].out.kind \in HasKinds => Refers(M, i)
    BY <2>1, <1>7
  <2> QED
    BY <1>1, <2>2, GoodNext DEF Stage
<1> QED
  BY <1>5, <1>6, <1>8 DEF Stage, FreshAt, M

\* An orbit message and its issue.
LEMMA StageOrbit ==
  ASSUME NEW L, NEW m, NEW s, m.t \in Int, Stage(L, m, s), NEW h, h.maskid \in DOMAIN s.masks,
         NEW o, o.kind = "gal_has_orbit", o.disc = <<h.maskid, h.iod>>,
         o.row.issue = About(InstallIssue(s, h, m.t), h)
  PROVE  Stage(LogOf(L, m, <<o>>), m, InstallIssue(s, h, m.t)) /\ InstallIssue(s, h, m.t).masks = s.masks
<1> DEFINE M == LogOf(L, m, <<o>>)  key == <<h.maskid, h.iod>>
           new == [ref |-> h.orbit, received |-> m.t]
           issues == With(s.issues, key, new)
           f == InstallIssue(s, h, m.t)
<1>1. IsSeq(M) /\ Onward(L, M) /\ Len(M) = Len(L) + 1 /\ Len(L) \in Nat /\ M[Len(M)] = Listed(m, o)
  BY LogOfOne DEF Stage, Good
<1> HIDE DEF M
<1>2. ~HasWithdrawn(o, m)
  BY DEF HasWithdrawn
<1>3. /\ M[Len(M)].t = m.t /\ M[Len(M)].src = m.src /\ M[Len(M)].out = o /\ ~M[Len(M)].has
  BY <1>1, <1>2, EntryIs
<1>4. OrbitAt(M, m.src, key, Len(M))
  BY <1>3 DEF OrbitAt
<1>5. /\ Standing(L, s, m.src, m.t)
      /\ \A id \in DOMAIN s.masks : m.t - s.masks[id].received < HasLifetime
      /\ \A k \in DOMAIN s.issues : m.t - s.issues[k].received < HasLifetime
  BY DEF Stage, FreshAt
<1>6. f = [pages |-> s.pages, masks |-> s.masks, issues |-> issues]
  <2>1. s = [pages |-> s.pages, masks |-> s.masks, issues |-> s.issues]
    BY <1>5 DEF Standing
  <2>2. f = [s EXCEPT !.issues = issues]
    BY <2>1 DEF InstallIssue
  <2> HIDE DEF f, issues
  <2> QED
    BY <2>1, <2>2
<1>7. /\ DOMAIN issues = DOMAIN s.issues \cup {key} /\ issues[key] = new
      /\ \A k \in DOMAIN s.issues : k # key => issues[k] = s.issues[k]
  <2> DEFINE old == s.issues
  <2>1. issues = With(old, key, new)
    OBVIOUS
  <2> HIDE DEF new, issues, key, old
  <2>2. /\ DOMAIN issues = DOMAIN old \cup {key} /\ issues[key] = new
        /\ \A k \in DOMAIN old : k # key => issues[k] = old[k]
    BY <2>1 DEF With
  <2> QED
    BY <2>2 DEF old
<1>8. f.masks = s.masks /\ f.issues = issues
  BY <1>6
<1>9. new.ref = h.orbit /\ new.received = m.t
  OBVIOUS
<1>10. About(f, h) = [mask |-> s.masks[h.maskid].value, ref |-> h.orbit]
  <2>1. About(f, h) = [mask |-> f.masks[h.maskid].value,
                       ref |-> IF key \in DOMAIN f.issues THEN f.issues[key].ref ELSE None]
    BY DEF About
  <2> HIDE DEF f, issues, new, key
  <2>2. key \in DOMAIN f.issues /\ f.issues[key].ref = h.orbit
    BY <1>7, <1>8, <1>9
  <2> QED
    BY <2>1, <2>2, <1>8
<1>11. Standing(M, f, m.src, m.t)
  <2>1. M[Len(M)].out.row.issue = [mask |-> s.masks[h.maskid].value, ref |-> h.orbit]
    BY <1>3, <1>10
  <2>2. OrbitAt(M, m.src, <<h.maskid, h.iod>>, Len(M))
    BY <1>4
  <2> DEFINE src == m.src  t == m.t
  <2>3. /\ t \in Int /\ Standing(L, s, src, t)
        /\ \A id \in DOMAIN s.masks : t - s.masks[id].received < HasLifetime
        /\ Onward(L, M) /\ Len(M) = Len(L) + 1 /\ ~M[Len(M)].has /\ M[Len(M)].t = t
        /\ OrbitAt(M, src, <<h.maskid, h.iod>>, Len(M)) /\ h.maskid \in DOMAIN s.masks
    BY <1>1, <1>3, <1>5, <2>2
  <2> HIDE DEF src, t
  <2>4. LET g == InstallIssue(s, h, t) IN Standing(M, g, src, t) /\ g.masks = s.masks
    BY ONLY <2>1, <2>3, IssueInstalled
  <2> QED
    BY <2>4 DEF src, t
<1> HIDE DEF f, issues, new
<1>12. /\ \A id \in DOMAIN f.masks : m.t - f.masks[id].received < HasLifetime
       /\ \A k \in DOMAIN f.issues : m.t - f.issues[k].received < HasLifetime
  <2>1. \A id \in DOMAIN f.masks : m.t - f.masks[id].received < HasLifetime
    BY <1>5, <1>8
  <2>2. m.t - new.received < HasLifetime
    BY <1>9, LifetimeTyped
  <2> HIDE DEF key
  <2>3. \A k \in DOMAIN f.issues : m.t - f.issues[k].received < HasLifetime
    BY <1>5, <1>7, <1>8, <2>2
  <2> QED
    BY <2>1, <2>3
<1>13. Refers(M, Len(M))
  <2>1. Len(M) \in Nat /\ M[Len(M)].out.disc = <<h.maskid, h.iod>> /\ M[Len(M)].out.row.issue = About(f, h)
    BY <1>1, <1>3 DEF f
  <2>2. h.maskid \in DOMAIN f.masks
    BY <1>8
  <2> QED
    BY <2>1, <2>2, <1>3, <1>11, <1>12, RefersHere
<1>14. Good(M)
  <2>1. \A i \in (Len(L) + 1)..Len(M) : i = Len(M)
    BY <1>1
  <2>2. \A i \in (Len(L) + 1)..Len(M) : M[i].out.kind \in HasKinds => Refers(M, i)
    BY <2>1, <1>13
  <2> QED
    BY <1>1, <2>2, GoodNext DEF Stage
<1> QED
  BY <1>8, <1>11, <1>12, <1>14 DEF Stage, FreshAt, M, f

LEMMA HasRowIs ==
  ASSUME NEW a, NEW h, NEW t, NEW x, NEW u
  PROVE  /\ [HasRow(a, h, t) EXCEPT !.issue = x].issue = x
         /\ [HasRow(a, h, t) EXCEPT !.issue = x, !.until = u].issue = x
<1> DEFINE body == {<<"page", a.ups[i]>> : i \in DOMAIN a.ups}  ref == HasEpoch(h, t)
           r == [Blank EXCEPT !.body = body, !.ref = ref]
<1>1. HasRow(a, h, t) = r
  BY DEF HasRow
<1> HIDE DEF body, ref
<1>2. "issue" \in DOMAIN r
  BY DEF Blank
<1> HIDE DEF r
<1>3. [r EXCEPT !.issue = x].issue = x
  BY <1>2
<1>4. [r EXCEPT !.issue = x, !.until = u].issue = x
  BY <1>2
<1> QED
  BY <1>1, <1>3, <1>4

LEMMA CorrectionIs ==
  ASSUME NEW kind, NEW a, NEW h, NEW t, NEW v, NEW issue
  PROVE  LET o == Correction(kind, a, h, t, v, issue) IN
           o.kind = kind /\ o.disc = <<h.maskid, h.iod>> /\ o.row.issue = issue
<1> DEFINE u == IF v < NoLimit THEN HasEpoch(h, t) + Validity[v + 1] ELSE None
           row == [HasRow(a, h, t) EXCEPT !.issue = issue, !.until = u]
           o == Correction(kind, a, h, t, v, issue)
<1>1. row.issue = issue
  <2> HIDE DEF u
  <2> QED
    BY HasRowIs
<1>2. o = Output(kind, v < NoLimit, <<h.maskid, h.iod>>, row)
  BY DEF Correction
<1> HIDE DEF row, o
<1>3. o.kind = kind /\ o.disc = <<h.maskid, h.iod>> /\ o.row = row
  BY <1>2 DEF Output
<1> QED
  BY <1>1, <1>3 DEF o

\* The rows of the corrections other than the orbits.
LEMMA StageRow ==
  ASSUME NEW L, NEW m, NEW s, m.t \in Int, Stage(L, m, s), NEW a, NEW h, h.maskid \in DOMAIN s.masks,
         NEW kind \in HasKinds \ {"gal_has_orbit"}, NEW v
  PROVE  LET r == IF v = None THEN <<>> ELSE <<Correction(kind, a, h, m.t, v, About(s, h))>>
         IN  IsSeq(r) /\ Stage(LogOf(L, m, r), m, s)
<1> DEFINE o == Correction(kind, a, h, m.t, v, About(s, h))
           r == IF v = None THEN <<>> ELSE <<o>>
<1>1. o.kind = kind /\ o.disc = <<h.maskid, h.iod>> /\ o.row.issue = About(s, h)
  BY CorrectionIs
<1> HIDE DEF o
<1>2. CASE v = None
  <2>1. r = <<>>
    BY <1>2
  <2>2. LogOf(L, m, <<>>) = L
    BY LogOfNone DEF Stage, Good
  <2> QED
    BY <2>1, <2>2, NoneSeq DEF o
<1>3. CASE v # None
  <2>1. r = <<o>>
    BY <1>3
  <2>2. Stage(LogOf(L, m, <<o>>), m, s)
    BY <1>1, StageCorrection
  <2> QED
    BY <2>1, <2>2, OneSeq DEF o
<1> QED
  BY <1>2, <1>3

\* All the rows of the corrections.
LEMMA StageCorrections ==
  ASSUME NEW L, NEW m, NEW s1, m.t \in Int, Stage(L, m, s1), NEW a, NEW h, h.maskid \in DOMAIN s1.masks,
         h.orbit # None => h.until # None
  PROVE  LET s2 == IF h.orbit = None THEN s1 ELSE InstallIssue(s1, h, m.t)
             c == Corrections(s2, a, h, m.t)
         IN  IsSeq(c) /\ Stage(LogOf(L, m, c), m, s2)
<1> DEFINE s2 == IF h.orbit = None THEN s1 ELSE InstallIssue(s1, h, m.t)
           w == IF h.orbit = None THEN None ELSE h.until
           about == About(s2, h)
           row(kind, v) == IF v = None THEN <<>> ELSE <<Correction(kind, a, h, m.t, v, about)>>
           r1 == row("gal_has_orbit", w)
           r2 == row("gal_has_clock_full", h.clock)
           r3 == row("gal_has_clock_subset", h.subset)
           r4 == row("gal_has_code_bias", h.code)
           r5 == row("gal_has_phase_bias", h.phase)
           L1 == LogOf(L, m, r1)  L2 == LogOf(L1, m, r2)  L3 == LogOf(L2, m, r3)
           L4 == LogOf(L3, m, r4)  L5 == LogOf(L4, m, r5)
<1>1. IsSeq(r1) /\ Stage(L1, m, s2) /\ h.maskid \in DOMAIN s2.masks
  <2>1. CASE h.orbit = None
    <3>1. r1 = <<>> /\ s2 = s1
      BY <2>1
    <3>2. LogOf(L, m, <<>>) = L
      BY LogOfNone DEF Stage, Good
    <3> HIDE DEF r1, s2
    <3> QED
      BY <3>1, <3>2, NoneSeq
  <2>2. CASE h.orbit # None
    <3> DEFINE o == Correction("gal_has_orbit", a, h, m.t, w, about)
    <3>1. s2 = InstallIssue(s1, h, m.t) /\ w # None
      BY <2>2
    <3>2. r1 = <<o>>
      BY <3>1
    <3>3. o.kind = "gal_has_orbit" /\ o.disc = <<h.maskid, h.iod>> /\ o.row.issue = about
      <4> HIDE DEF w, about
      <4> QED
        BY CorrectionIs
    <3>4. o.row.issue = About(InstallIssue(s1, h, m.t), h)
      BY <3>1, <3>3
    <3> HIDE DEF o, r1, s2
    <3>5. Stage(LogOf(L, m, <<o>>), m, InstallIssue(s1, h, m.t)) /\ InstallIssue(s1, h, m.t).masks = s1.masks
      BY <3>3, <3>4, StageOrbit
    <3> QED
      BY <3>1, <3>2, <3>5, OneSeq
  <2> QED
    BY <2>1, <2>2
<1> HIDE DEF s2
<1>k. /\ "gal_has_clock_full" \in HasKinds \ {"gal_has_orbit"} /\ "gal_has_clock_subset" \in HasKinds \ {"gal_has_orbit"}
      /\ "gal_has_code_bias" \in HasKinds \ {"gal_has_orbit"} /\ "gal_has_phase_bias" \in HasKinds \ {"gal_has_orbit"}
  BY DEF HasKinds
<1>2. ASSUME NEW N, Stage(N, m, s2), NEW kind \in HasKinds \ {"gal_has_orbit"}, NEW v
      PROVE  IsSeq(row(kind, v)) /\ Stage(LogOf(N, m, row(kind, v)), m, s2)
  BY <1>1, <1>2, StageRow
<1>3. Corrections(s2, a, h, m.t) = r1 \o r2 \o r3 \o r4 \o r5
  BY DEF Corrections
<1> HIDE DEF r1
<1>4. IsSeq(r2) /\ Stage(L2, m, s2)
  BY <1>1, <1>2, <1>k
<1> HIDE DEF r2, L1
<1>5. IsSeq(r3) /\ Stage(L3, m, s2)
  BY <1>4, <1>2, <1>k
<1> HIDE DEF r3, L2
<1>6. IsSeq(r4) /\ Stage(L4, m, s2)
  BY <1>5, <1>2, <1>k
<1> HIDE DEF r4, L3
<1>7. IsSeq(r5) /\ Stage(L5, m, s2)
  BY <1>6, <1>2, <1>k
<1> HIDE DEF r5, L4, row
<1>8. IsSeq(L)
  BY DEF Stage, Good
<1>9. IsSeq(r1 \o r2) /\ IsSeq(r1 \o r2 \o r3) /\ IsSeq(r1 \o r2 \o r3 \o r4) /\ IsSeq(r1 \o r2 \o r3 \o r4 \o r5)
  <2>1. IsSeq(r1 \o r2)
    BY <1>1, <1>4, CatFacts
  <2>2. IsSeq(r1 \o r2 \o r3)
    BY <2>1, <1>5, CatFacts
  <2>3. IsSeq(r1 \o r2 \o r3 \o r4)
    BY <2>2, <1>6, CatFacts
  <2>4. IsSeq(r1 \o r2 \o r3 \o r4 \o r5)
    BY <2>3, <1>7, CatFacts
  <2> QED
    BY <2>1, <2>2, <2>3, <2>4
<1>10. LogOf(L, m, r1 \o r2 \o r3 \o r4 \o r5) = L5
  <2>1. LogOf(L, m, r1 \o r2) = L2
    BY <1>1, <1>4, <1>8, LogOfCat DEF L1, L2
  <2>2. LogOf(L, m, r1 \o r2 \o r3) = L3
    BY <2>1, <1>9, <1>5, <1>8, LogOfCat DEF L3
  <2>3. LogOf(L, m, r1 \o r2 \o r3 \o r4) = L4
    BY <2>2, <1>9, <1>6, <1>8, LogOfCat DEF L4
  <2> QED
    BY <2>3, <1>9, <1>7, <1>8, LogOfCat DEF L5
<1> QED
  BY <1>3, <1>7, <1>9, <1>10 DEF s2

LEMMA ParseStands ==
  ASSUME NEW L, NEW m, NEW s, m.t \in Int, Stage(L, m, s), NEW a, NEW h, h.orbit # None => h.until # None
  PROVE  LET p == HasParse(s, a, h, m.t) IN IsSeq(p.out) /\ Stage(LogOf(L, m, p.out), m, p.asm)
<1> DEFINE r0 == HasRow(a, h, m.t)
           ho == Output("gal_has_message", FALSE, 0, r0)
           head == <<ho>>
           mrow == [r0 EXCEPT !.issue = h.mask]
           mo == Output("gal_has_mask", FALSE, <<h.maskid, 0>>, mrow)
           told == IF h.mask = None THEN <<>> ELSE <<mo>>
           s1 == IF h.mask = None THEN s ELSE InstallMask(s, h, m.t)
           s2 == IF h.orbit = None THEN s1 ELSE InstallIssue(s1, h, m.t)
           c == Corrections(s2, a, h, m.t)
           p == HasParse(s, a, h, m.t)
           L1 == LogOf(L, m, head)  L2 == LogOf(L1, m, told)
<1>1. p = IF h.toh >= 3600 \/ h.bad = "mask" THEN [asm |-> s, out |-> <<>>]
          ELSE IF h.maskid \notin DOMAIN s1.masks THEN [asm |-> s, out |-> head \o told]
          ELSE IF h.bad = "entries" THEN [asm |-> s, out |-> <<>>]
          ELSE [asm |-> s2, out |-> head \o told \o c]
  BY DEF HasParse
<1>2. mrow.issue = h.mask
  BY HasRowIs
<1> HIDE DEF r0, mrow, p
<1>3. IsSeq(L)
  BY DEF Stage, Good
<1>4. Stage(L1, m, s) /\ IsSeq(head)
  <2>1. ho.kind = "gal_has_message"
    BY DEF Output
  <2> HIDE DEF ho
  <2>2. ho.kind \notin HasKinds \cup {"gal_has_mask"} /\ ~HasWithdrawn(ho, m)
    BY <2>1 DEF HasKinds, HasWithdrawn
  <2> QED
    BY <2>2, StageSaid, OneSeq
<1> HIDE DEF head, L1, ho
<1>5. /\ Stage(L2, m, s1) /\ IsSeq(told)
      /\ h.mask # None => h.maskid \in DOMAIN s1.masks
      /\ h.mask = None => s1 = s
  <2>1. CASE h.mask = None
    <3>1. told = <<>> /\ s1 = s
      BY <2>1
    <3>2. LogOf(L1, m, <<>>) = L1
      BY <1>4, LogOfNone DEF Stage, Good
    <3> HIDE DEF told, s1
    <3> QED
      BY <2>1, <3>1, <3>2, <1>4, NoneSeq
  <2>2. CASE h.mask # None
    <3>1. told = <<mo>> /\ s1 = InstallMask(s, h, m.t)
      BY <2>2
    <3>2. Stage(LogOf(L1, m, <<mo>>), m, InstallMask(s, h, m.t)) /\ h.maskid \in DOMAIN InstallMask(s, h, m.t).masks
      BY <1>2, <1>4, StageMask
    <3> HIDE DEF told, s1, mo
    <3> QED
      BY <2>2, <3>1, <3>2, OneSeq
  <2> QED
    BY <2>1, <2>2
<1> HIDE DEF told, s1
<1>6. IsSeq(head \o told) /\ LogOf(L, m, head \o told) = L2
  BY <1>3, <1>4, <1>5, CatFacts, LogOfCat DEF L1
<1> HIDE DEF L2
<1>7. CASE h.toh >= 3600 \/ h.bad = "mask"
  <2>1. p.out = <<>> /\ p.asm = s
    BY <1>1, <1>7
  <2> QED
    BY <2>1, <1>3, NoneSeq, LogOfNone DEF p
<1>8. CASE ~(h.toh >= 3600 \/ h.bad = "mask") /\ h.maskid \notin DOMAIN s1.masks
  <2>1. p.out = head \o told /\ p.asm = s
    BY <1>1, <1>8
  <2> QED
    BY <2>1, <1>5, <1>6, <1>8 DEF p
<1>9. CASE ~(h.toh >= 3600 \/ h.bad = "mask") /\ h.maskid \in DOMAIN s1.masks /\ h.bad = "entries"
  <2>1. p.out = <<>> /\ p.asm = s
    BY <1>1, <1>9
  <2> QED
    BY <2>1, <1>3, NoneSeq, LogOfNone DEF p
<1>10. CASE ~(h.toh >= 3600 \/ h.bad = "mask") /\ h.maskid \in DOMAIN s1.masks /\ ~(h.bad = "entries")
  <2>1. p.out = (head \o told) \o c /\ p.asm = s2
    BY <1>1, <1>10
  <2>2. IsSeq(c) /\ Stage(LogOf(L2, m, c), m, s2)
    BY <1>5, <1>10, StageCorrections
  <2> HIDE DEF c, s2
  <2>3. IsSeq(p.out) /\ LogOf(L, m, p.out) = LogOf(L2, m, c)
    BY <2>1, <2>2, <1>3, <1>6, CatFacts, LogOfCat
  <2> QED
    BY <2>1, <2>2, <2>3 DEF p
<1> QED
  BY <1>7, <1>8, <1>9, <1>10

\* A page, with the message that it completes.
LEMMA HasStands ==
  ASSUME NEW L, NEW m, NEW s, NEW now, Good(L), Standing(L, s, m.src, now), m.t \in Int \cup {None},
         m.t # None => (now \in Int => now =< m.t),
         m.status # 3 => (m.msg.orbit # None => m.msg.until # None)
  PROVE  LET d == HasDecode(s, m)
             M == LogOf(L, m, d.out)
         IN  /\ IsSeq(d.out) /\ Good(M)
             /\ \/ \E i \in DOMAIN d.out : HasWithdrawn(d.out[i], m)
                \/ /\ \A i \in DOMAIN d.out : ~HasWithdrawn(d.out[i], m)
                   /\ Standing(M, d.asm, m.src, IF m.t = None THEN now ELSE m.t)
<1> DEFINE po == Output("gal_has_page", FALSE, 0, Single(m))
           so == Output("gal_has_status", FALSE, 0, Single(m))
           page == <<po>>
           fresh == [s EXCEPT !.masks = Fresh(@, m.t), !.issues = Fresh(@, m.t)]
           a == HasPage(fresh, m)
           paged == [fresh EXCEPT !.pages = With(@, m.mid, a)]
           taken == [fresh EXCEPT !.pages = Only(@, DOMAIN @ \ {m.mid})]
           p == HasParse(taken, a, m.msg, m.t)
           d == HasDecode(s, m)
           M == LogOf(L, m, d.out)
           later == IF m.t = None THEN now ELSE m.t
           dull == m.status = 2 \/ ~m.q \/ m.pid = 0 \/ m.t = None \/ (m.pid > m.size /\ m.pid =< 32)
           few == Cardinality(DOMAIN a.ups) < m.size
           Goal == /\ IsSeq(d.out) /\ Good(M)
                   /\ \/ \E i \in DOMAIN d.out : HasWithdrawn(d.out[i], m)
                      \/ /\ \A i \in DOMAIN d.out : ~HasWithdrawn(d.out[i], m)
                         /\ Standing(M, d.asm, m.src, later)
<1> SUFFICES Goal
  OBVIOUS
<1>1. d = IF ~m.head THEN [asm |-> s, out |-> <<>>]
          ELSE IF m.status = 3 THEN [asm |-> NoHas, out |-> Append(page, so)]
          ELSE IF dull THEN [asm |-> s, out |-> page]
          ELSE IF few THEN [asm |-> paged, out |-> page]
          ELSE [asm |-> p.asm, out |-> page \o p.out]
  BY DEF HasDecode, Said
<1>2. po.kind = "gal_has_page" /\ so.kind = "gal_has_status"
  BY DEF Output
<1>3. IsSeq(L)
  BY DEF Good
<1>4. now \in Int => later \in Int /\ now =< later
  OBVIOUS
<1>5. m.t # None => m.t \in Int /\ later = m.t
  OBVIOUS
<1>6. IsSeq(page) /\ Len(page) = 1 /\ DOMAIN page = {1} /\ page[1] = po
  BY OneSeq
<1>7. /\ po.kind \notin HasKinds \cup {"gal_has_mask", "gal_has_orbit"} /\ ~HasWithdrawn(po, m)
      /\ so.kind \notin HasKinds \cup {"gal_has_mask", "gal_has_orbit"} /\ (m.status = 3 => HasWithdrawn(so, m))
  BY <1>2 DEF HasKinds, HasWithdrawn
<1> DEFINE N == LogOf(L, m, page)
<1>8. IsSeq(N) /\ Onward(L, N) /\ Len(N) = Len(L) + 1 /\ Len(L) \in Nat /\ N[Len(N)] = Listed(m, po)
  BY <1>3, LogOfOne
<1> HIDE DEF po, so, N, page
<1>9. Aside(N, m.src, Len(L)) /\ Good(N)
  <2>1. \A j \in (Len(L) + 1)..Len(N) : N[j].out = po /\ N[j].has = HasWithdrawn(po, m)
    BY <1>8, EntryIs
  <2>2. Aside(N, m.src, Len(L))
    BY <2>1, <1>7 DEF Aside
  <2>3. Good(N)
    BY <2>1, <1>7, <1>8, GoodNext
  <2> QED
    BY <2>2, <2>3
<1>10. Standing(N, s, m.src, later)
  BY <1>4, <1>8, <1>9, StandsAside
<1> HIDE DEF d, later, fresh, dull, few, M
<1>11. CASE ~m.head
  <2>1. d.out = <<>> /\ d.asm = s
    BY <1>1, <1>11
  <2>2. M = L
    BY <2>1, <1>3, LogOfNone DEF M
  <2>3. Onward(L, L) /\ Aside(L, m.src, Len(L))
    BY <1>8 DEF Onward, Aside
  <2>4. Standing(L, s, m.src, later)
    BY <2>3, <1>4, StandsAside
  <2>5. IsSeq(d.out) /\ DOMAIN d.out = {}
    BY <2>1, NoneSeq
  <2> QED
    BY <2>1, <2>2, <2>4, <2>5
<1>12. CASE m.head /\ m.status = 3
  <2>1. d.out = Append(page, so)
    BY <1>1, <1>12
  <2>2. Append(page, so) = page \o <<so>>
    <3>1. page \in Seq({po, so}) /\ so \in {po, so}
      BY DEF page
    <3> HIDE DEF page
    <3> QED
      BY <3>1, AppendIsConcat
  <2>3. IsSeq(<<so>>) /\ Len(<<so>>) = 1 /\ <<so>>[1] = so
    BY OneSeq
  <2> DEFINE last == <<so>>
  <2>4. IsSeq(last) /\ Len(last) = 1 /\ last[1] = so /\ d.out = page \o last
    BY <2>1, <2>2, <2>3
  <2>0. LogOf(N, m, <<so>>) = LogOf(N, m, last)
    OBVIOUS
  <2>a. LET Q == LogOf(N, m, <<so>>) IN
          IsSeq(Q) /\ Onward(N, Q) /\ Len(Q) = Len(N) + 1 /\ Len(N) \in Nat /\ Q[Len(Q)] = Listed(m, so)
    BY <1>8, LogOfOne
  <2> DEFINE Q == LogOf(N, m, last)
  <2>5. IsSeq(Q) /\ Onward(N, Q) /\ Len(Q) = Len(N) + 1 /\ Len(N) \in Nat /\ Q[Len(Q)] = Listed(m, so)
    BY <2>0, <2>a
  <2> HIDE DEF last
  <2>6. M = Q
    BY <2>4, <1>3, <1>6, LogOfCat DEF N, M
  <2> HIDE DEF Q
  <2>7. Good(Q)
    <3>1. \A j \in (Len(N) + 1)..Len(Q) : Q[j].out = so
      BY <2>5, EntryIs
    <3> QED
      BY <3>1, <2>5, <1>7, <1>9, GoodNext
  <2>8. IsSeq(d.out) /\ 2 \in DOMAIN d.out /\ d.out[2] = so
    <3> DEFINE both == page \o last
    <3>1. /\ IsSeq(both) /\ DOMAIN both = 1..(Len(page) + Len(last))
          /\ \A i \in (Len(page) + 1)..(Len(page) + Len(last)) : both[i] = last[i - Len(page)]
      BY <2>4, <1>6, CatFacts
    <3> HIDE DEF both
    <3>2. DOMAIN both = 1..2 /\ 2 \in 1..2 /\ both[2] = last[1]
      BY <3>1, <2>4, <1>6
    <3> QED
      BY <3>1, <3>2, <2>4 DEF both
  <2>9. HasWithdrawn(d.out[2], m)
    BY <2>8, <1>7, <1>12
  <2> QED
    BY <2>6, <2>7, <2>8, <2>9
<1>13. ASSUME d.out = page, Standing(N, d.asm, m.src, later) PROVE Goal
  <2>1. M = N
    BY <1>13 DEF N, M
  <2>2. \A i \in DOMAIN d.out : ~HasWithdrawn(d.out[i], m)
    BY <1>6, <1>7, <1>13
  <2> QED
    BY <2>1, <2>2, <1>6, <1>9, <1>13
<1>14. CASE m.head /\ m.status # 3 /\ dull
  <2>1. d.out = page /\ d.asm = s
    BY <1>1, <1>14
  <2> QED
    BY <2>1, <1>10, <1>13
<1>15. CASE m.head /\ m.status # 3 /\ ~dull
  <2>1. m.t \in Int /\ later = m.t
    BY <1>5, <1>15 DEF dull
  <2>2. LET f == [s EXCEPT !.masks = Fresh(@, m.t), !.issues = Fresh(@, m.t)] IN
           /\ Standing(N, f, m.src, m.t)
           /\ \A id \in DOMAIN f.masks : m.t - f.masks[id].received < HasLifetime
           /\ \A key \in DOMAIN f.issues : m.t - f.issues[key].received < HasLifetime
    <3>1. m.t \in Int => m.t =< m.t
      OBVIOUS
    <3>2. Standing(N, s, m.src, m.t)
      BY <2>1, <1>10
    <3> QED
      BY <2>1, <3>1, <3>2, FreshStands
  <2>3. Standing(N, fresh, m.src, m.t) /\ FreshAt(fresh, m.t)
    BY <2>2 DEF fresh, FreshAt
  <2>4. ASSUME NEW f, f = [pages |-> f.pages, masks |-> f.masks, issues |-> f.issues],
               f.masks = fresh.masks, f.issues = fresh.issues
        PROVE  Standing(N, f, m.src, m.t) /\ FreshAt(f, m.t)
    BY <2>3, <2>4 DEF Standing, FreshAt
  <2>5. fresh = [pages |-> fresh.pages, masks |-> fresh.masks, issues |-> fresh.issues]
    BY <2>3 DEF Standing
  <2>6. CASE few
    <3> DEFINE pages == With(fresh.pages, m.mid, a)
    <3>1. d.out = page /\ d.asm = [fresh EXCEPT !.pages = pages]
      BY <1>1, <1>15, <2>6
    <3> HIDE DEF pages
    <3>2. [fresh EXCEPT !.pages = pages] = [pages |-> pages, masks |-> fresh.masks, issues |-> fresh.issues]
      BY <2>5
    <3> DEFINE f == d.asm
    <3>3. f = [pages |-> f.pages, masks |-> f.masks, issues |-> f.issues] /\ f.masks = fresh.masks /\ f.issues = fresh.issues
      BY <3>1, <3>2
    <3>4. Standing(N, f, m.src, m.t)
      <4> HIDE DEF f
      <4> QED
        BY <3>3, <2>4
    <3> QED
      BY <3>1, <3>4, <2>1, <1>13
  <2>7. CASE ~few
    <3> DEFINE pages == Only(fresh.pages, DOMAIN fresh.pages \ {m.mid})
    <3>1. d.out = page \o p.out /\ d.asm = p.asm
      BY <1>1, <1>15, <2>7
    <3>2. taken = [fresh EXCEPT !.pages = pages]
      BY <2>5
    <3> HIDE DEF pages, taken
    <3>3. taken = [pages |-> pages, masks |-> fresh.masks, issues |-> fresh.issues]
      BY <2>5, <3>2
    <3>4. taken = [pages |-> taken.pages, masks |-> taken.masks, issues |-> taken.issues]
          /\ taken.masks = fresh.masks /\ taken.issues = fresh.issues
      BY <3>3
    <3>5. Stage(N, m, taken)
      BY <3>4, <2>4, <1>9 DEF Stage
    <3>6. IsSeq(p.out) /\ Stage(LogOf(N, m, p.out), m, p.asm)
      <4>1. m.msg.orbit # None => m.msg.until # None
        BY <1>15
      <4> QED
        BY <3>5, <4>1, <2>1, ParseStands
    <3> HIDE DEF p
    <3>7. IsSeq(d.out) /\ M = LogOf(N, m, p.out)
      BY <3>1, <3>6, <1>3, <1>6, CatFacts, LogOfCat DEF N, M
    <3>8. Good(M) /\ Standing(M, d.asm, m.src, later)
      BY <3>1, <3>6, <3>7, <2>1 DEF Stage
    <3>9. \A i \in DOMAIN d.out : ~HasWithdrawn(d.out[i], m)
      BY <1>15 DEF HasWithdrawn
    <3> QED
      BY <3>7, <3>8, <3>9
  <2> QED
    BY <2>6, <2>7
<1> QED
  BY <1>11, <1>12, <1>14, <1>15

(***************************************************************************)
(* The other families say nothing of HAS.                                  *)
(***************************************************************************)

Announced == HasKinds \cup {"gal_has_mask", "gal_has_status"}

\* Rows that say nothing of HAS.
Foreign(outs) == IsSeq(outs) /\ \A i \in DOMAIN outs : outs[i].kind \notin Announced

LEMMA ForeignNone == Foreign(<<>>)
BY NoneSeq DEF Foreign

LEMMA ForeignOne ==
  ASSUME NEW kind, kind \notin Announced, NEW cand, NEW disc, NEW row
  PROVE  Foreign(<<Output(kind, cand, disc, row)>>)
<1> DEFINE o == Output(kind, cand, disc, row)
<1>1. o.kind = kind
  BY DEF Output
<1> HIDE DEF o
<1>2. IsSeq(<<o>>) /\ DOMAIN <<o>> = {1} /\ <<o>>[1] = o
  BY OneSeq
<1>3. Foreign(<<o>>)
  BY <1>1, <1>2 DEF Foreign
<1> QED
  BY <1>3 DEF o

LEMMA ForeignCat ==
  ASSUME NEW a, Foreign(a), NEW b, Foreign(b) PROVE Foreign(a \o b)
<1> DEFINE c == a \o b
<1>1. /\ IsSeq(c) /\ Len(a) \in Nat /\ Len(b) \in Nat
      /\ DOMAIN a = 1..Len(a) /\ DOMAIN b = 1..Len(b) /\ DOMAIN c = 1..(Len(a) + Len(b))
      /\ \A i \in 1..Len(a) : c[i] = a[i]
      /\ \A i \in (Len(a) + 1)..(Len(a) + Len(b)) : c[i] = b[i - Len(a)]
  BY CatFacts DEF Foreign
<1> HIDE DEF c
<1>2. ASSUME NEW i \in DOMAIN c PROVE c[i].kind \notin Announced
  <2>1. CASE i =< Len(a)
    BY <2>1, <1>1 DEF Foreign
  <2>2. CASE i > Len(a)
    <3>1. i \in (Len(a) + 1)..(Len(a) + Len(b)) /\ i - Len(a) \in 1..Len(b)
      BY <2>2, <1>1
    <3> QED
      BY <3>1, <1>1 DEF Foreign
  <2> QED
    BY <2>1, <2>2, <1>1
<1> QED
  BY <1>1, <1>2 DEF Foreign, c

LEMMA ForeignSaid == ASSUME NEW kind, kind \notin Announced, NEW m PROVE Foreign(Said(kind, m))
BY ForeignOne DEF Said

LEMMA ForeignKept ==
  ASSUME NEW kind, kind \notin Announced, NEW disc, NEW m, NEW row PROVE Foreign(Kept(kind, disc, m, row))
BY ForeignOne DEF Kept

\* GPS and QZSS LNAV.
LEMMA LnavForeign == ASSUME NEW a, NEW m PROVE Foreign(LnavDecode(a, m).out)
<1> DEFINE said == Said("lnav_sf", m)
           b == Gather(a, m.t, LnavTimeout, m.type, SubframeFields(m), Fits(a, m))
           e == LnavEphemeris(b.parts, m.t)
<1>1. Foreign(said)
  <2>1. "lnav_sf" \notin Announced
    BY DEF Announced, HasKinds
  <2> QED
    BY <2>1, ForeignSaid
<1>2. Foreign(e)
  <2>1. "ephemeris" \notin Announced
    BY DEF Announced, HasKinds
  <2> HIDE DEF b
  <2> QED
    BY <2>1, ForeignOne, ForeignNone DEF LnavEphemeris
<1>3. Foreign(said \o e)
  <2> HIDE DEF said, e
  <2> QED
    BY <1>1, <1>2, ForeignCat
<1>4. Foreign(Subframe(a, m).out)
  <2>1. Subframe(a, m) = IF m.t = None \/ m.alert THEN [asm |-> a, out |-> said]
                         ELSE IF DOMAIN b.parts = EphemerisParts THEN [asm |-> Empty, out |-> said \o e]
                         ELSE [asm |-> b, out |-> said]
    BY DEF Subframe
  <2> HIDE DEF said, b, e
  <2>2. Subframe(a, m).out \in {said, said \o e}
    BY <2>1
  <2> QED
    BY <2>2, <1>1, <1>3
<1>5. Foreign(Page(m))
  <2> DEFINE kind == PageKind(m.q, m.type, m.id)
  <2>1. kind \notin Announced
    BY DEF PageKind, Announced, HasKinds
  <2> HIDE DEF kind
  <2>2. Foreign(Said(kind, m)) /\ Foreign(Kept(kind, m.id, m, PageRow(kind, m)))
    BY <2>1, ForeignSaid, ForeignKept
  <2> QED
    BY <2>2, ForeignNone DEF Page, kind
<1>6. LnavDecode(a, m).out \in {<<>>, Subframe(a, m).out, Page(m)}
  BY DEF LnavDecode
<1> QED
  BY <1>4, <1>5, <1>6, ForeignNone

\* QZSS CNAV.
LEMMA CnavForeign == ASSUME NEW a, NEW m PROVE Foreign(CnavDecode(a, m).out)
<1> DEFINE said == CnavClock(m) \o CnavDelays(m) \o CnavAlmanacs(m) \o CnavModels(m)
           b == Gather(a, m.t, CnavTimeout(m), PartId(m), CnavPart(m), CnavFits(a, m))
           e == CnavEphemeris(b.parts, m)
<1>k. {"cnav_clock", "cnav_group_delay", "cnav_ionosphere", "cnav_prediction_week", "cnav_midi_almanac",
       "cnav_reduced_almanac", "cnav_eop", "cnav_utc", "cnav_time_offset", "cnav_other", "cnav_ephemeris"}
        \cap Announced = {}
  BY DEF Announced, HasKinds
<1>1. Foreign(CnavClock(m))
  BY <1>k, ForeignKept, ForeignNone DEF CnavClock
<1>2. Foreign(CnavDelays(m))
  <2> DEFINE x == Kept("cnav_group_delay", 0, m, Single(m))  y == Kept("cnav_ionosphere", m.type, m, Single(m))
             z == IF m.type = 30 THEN Said("cnav_prediction_week", m) ELSE <<>>
  <2>1. Foreign(x) /\ Foreign(y) /\ Foreign(z)
    BY <1>k, ForeignKept, ForeignSaid, ForeignNone
  <2>2. CnavDelays(m) = IF m.type \notin {30, 61} THEN <<>> ELSE x \o y \o z
    BY DEF CnavDelays
  <2> HIDE DEF x, y, z
  <2>3. Foreign(x \o y \o z)
    BY <2>1, ForeignCat
  <2> QED
    BY <2>2, <2>3, ForeignNone
<1>3. Foreign(CnavAlmanacs(m))
  BY <1>k, ForeignKept, ForeignNone DEF CnavAlmanacs
<1>4. Foreign(CnavModels(m))
  <2>1. CASE m.type = 32
    BY <2>1, <1>k, ForeignKept DEF CnavModels
  <2>2. CASE m.type = 33
    BY <2>2, <1>k, ForeignKept DEF CnavModels
  <2>3. CASE m.type = 35
    BY <2>3, <1>k, ForeignOne DEF CnavModels
  <2>4. CASE m.type \notin {32, 33, 35}
    BY <2>4, <1>k, ForeignSaid DEF CnavModels
  <2> QED
    BY <2>1, <2>2, <2>3, <2>4
<1>5. Foreign(said)
  <2> DEFINE x == CnavClock(m)  y == CnavDelays(m)  z == CnavAlmanacs(m)  w == CnavModels(m)
  <2>1. Foreign(x) /\ Foreign(y) /\ Foreign(z) /\ Foreign(w) /\ said = x \o y \o z \o w
    BY <1>1, <1>2, <1>3, <1>4
  <2> HIDE DEF x, y, z, w
  <2> QED
    BY <2>1, ForeignCat
<1>6. Foreign(e)
  <2> HIDE DEF b
  <2> QED
    BY <1>k, ForeignKept, ForeignNone DEF CnavEphemeris
<1>7. Foreign(said \o e)
  <2> HIDE DEF said, e
  <2> QED
    BY <1>5, <1>6, ForeignCat
<1>8. CnavDecode(a, m) = IF ~m.head \/ m.type \notin CnavTypes \/ (m.type = 60 /\ m.l2) THEN [asm |-> a, out |-> <<>>]
        ELSE IF PartId(m) \notin CnavParts \/ m.t = None \/ m.alert THEN [asm |-> a, out |-> said]
        ELSE IF DOMAIN b.parts = CnavParts THEN [asm |-> Empty, out |-> said \o e]
        ELSE [asm |-> b, out |-> said]
  BY DEF CnavDecode
<1> HIDE DEF said, b, e
<1>9. CnavDecode(a, m).out \in {<<>>, said, said \o e}
  BY <1>8
<1> QED
  BY <1>5, <1>7, <1>9, ForeignNone

\* Galileo I/NAV and F/NAV.
LEMMA GalileoForeign == ASSUME NEW a, NEW m PROVE Foreign(GalileoDecode(a, m).out)
<1> DEFINE s == Sar(a.sar, m)
           heard == [a EXCEPT !.sar = s.s]
           models == GalModels(m)
           word == Said(IF ~IsFnav(m) /\ m.type = 16 THEN "gal_reduced_ced" ELSE "gal_word", m)
           said == s.out \o models \o word
           e == GalEphemerisStep(a.eph, m)
           l == GalAlmanacStep(a.alm, m)
           dummy == Said("gal_dummy", m)
<1>k. {"gal_osnma_fragment", "gal_sar_fragment", "gal_sar_rlm", "gal_utc", "gal_ggto", "gal_ism_sl3",
       "gal_ionosphere", "gal_fnav_ephemeris", "gal_inav_ephemeris", "gal_fnav_almanac", "gal_inav_almanac",
       "gal_reduced_ced", "gal_word", "gal_dummy"} \cap Announced = {}
  BY DEF Announced, HasKinds
<1>1. Foreign(s.out)
  <2> DEFINE x == Said("gal_osnma_fragment", m)  y == Said("gal_sar_fragment", m)
             n == SarStep(a.sar, m)  o == Output("gal_sar_rlm", FALSE, 0, SarRow(n))
             sar == x \o y
  <2>1. Foreign(x) /\ Foreign(y) /\ Foreign(<<o>>)
    BY <1>k, ForeignSaid, ForeignOne
  <2>2. s = IF m.sar = None \/ IsFnav(m) \/ m.type = 63 THEN [s |-> a.sar, out |-> <<>>]
            ELSE IF m.t = None THEN [s |-> a.sar, out |-> sar]
            ELSE IF SarFull(n) THEN [s |-> NoSar, out |-> Append(sar, o)]
            ELSE [s |-> n, out |-> sar]
    BY DEF Sar
  <2> HIDE DEF x, y, s, n, o
  <2>3. Foreign(sar)
    BY <2>1, ForeignCat
  <2> HIDE DEF sar
  <2>4. Foreign(Append(sar, o))
    <3>1. PICK S : sar \in Seq(S)
      BY <2>3 DEF Foreign, IsSeq
    <3> DEFINE T == S \cup {o}
    <3>2. sar \in Seq(T) /\ o \in T
      BY <3>1, SeqMonotonic
    <3> HIDE DEF T
    <3>3. Append(sar, o) = sar \o <<o>>
      BY <3>2, AppendIsConcat
    <3> QED
      BY <3>3, <2>1, <2>3, ForeignCat
  <2>5. s.out \in {<<>>, sar, Append(sar, o)}
    BY <2>2
  <2> QED
    BY <2>3, <2>4, <2>5, ForeignNone
<1>2. Foreign(models)
  <2> DEFINE iono == <<Output("gal_ionosphere", TRUE, 0, Single(m))>>
             utc == GalUtc(m)  ggto == GalGgto(m)  ism == GalIsm(m)
  <2>1. Foreign(iono) /\ Foreign(utc) /\ Foreign(ggto) /\ Foreign(ism)
    <3>1. Foreign(iono) /\ Foreign(ism)
      <4> DEFINE ref == GstTime(m.t, m.week, m.ref, 4096)
                 row == [Single(m) EXCEPT !.good = m.good, !.ref = ref,
                                 !.until = IF ref = None THEN None ELSE ref + m.fit]
      <4>1. ism = <<Output("gal_ism_sl3", m.good, 0, row)>>
        BY DEF GalIsm
      <4> HIDE DEF ism, row
      <4> QED
        BY <4>1, <1>k, ForeignOne
    <3>2. Foreign(utc) /\ Foreign(ggto)
      BY <1>k, ForeignOne, ZenonT(60) DEF GalUtc, GalGgto
    <3> QED
      BY <3>1, <3>2
  <2>2. models = IF IsFnav(m)
                 THEN CASE m.type = 1 -> iono
                        [] m.type = 4 -> utc \o ggto
                        [] OTHER -> <<>>
                 ELSE CASE m.type = 5 -> iono
                        [] m.type = 6 -> utc
                        [] m.type = 10 -> ggto
                        [] m.type = 22 /\ m.q -> ism
                        [] OTHER -> <<>>
    BY DEF GalModels
  <2> HIDE DEF iono, utc, ggto, ism, models
  <2>3. Foreign(utc \o ggto)
    BY <2>1, ForeignCat
  <2>4. models \in {iono, utc, ggto, ism, utc \o ggto, <<>>}
    BY <2>2
  <2> QED
    BY <2>1, <2>3, <2>4, ForeignNone
<1>3. Foreign(word) /\ Foreign(dummy)
  BY <1>k, ForeignSaid
<1>4. Foreign(e.out)
  <2> DEFINE b == Gather(a.eph, m.t, GalTimeout(m), m.type, GalPart(m), GalFits(a.eph, m))
             g == GalEphemeris(b.parts, m)
  <2>1. Foreign(g)
    <3> HIDE DEF b
    <3> QED
      BY <1>k, ForeignOne, ForeignNone DEF GalEphemeris
  <2>2. e = IF m.type \notin GalParts(m) THEN [eph |-> a.eph, out |-> <<>>]
            ELSE IF DOMAIN b.parts = GalParts(m) THEN [eph |-> Empty, out |-> g]
            ELSE [eph |-> b, out |-> <<>>]
    BY DEF GalEphemerisStep
  <2> HIDE DEF b, g, e
  <2>3. e.out \in {<<>>, g}
    BY <2>2
  <2> QED
    BY <2>1, <2>3, ForeignNone
<1>5. Foreign(l.out)
  <2> DEFINE base == GalAlmanacBase(a.alm, m)
             b == [base EXCEPT !.parts = With(@, m.type, GalAlmanacPart(m)),
                               !.start = IF @ = None THEN m.t ELSE @]
             ready == {slot \in 1..3 : SlotReady(b, m, slot)}
             row(slot) == IF slot \in ready THEN SlotAlmanac(b, m, slot) ELSE <<>>
             r1 == row(1)  r2 == row(2)  r3 == row(3)
  <2>1. l = IF m.type \notin GalAlmanacTypes(m) THEN [alm |-> a.alm, out |-> <<>>]
            ELSE [alm |-> [b EXCEPT !.emitted = @ \cup ready], out |-> r1 \o r2 \o r3]
    BY DEF GalAlmanacStep
  <2> HIDE DEF b, l, ready
  <2>2. \A slot : Foreign(row(slot))
    BY <1>k, ForeignOne, ForeignNone DEF SlotAlmanac
  <2>3. Foreign(r1) /\ Foreign(r2) /\ Foreign(r3)
    BY <2>2
  <2> HIDE DEF r1, r2, r3
  <2>4. Foreign(r1 \o r2 \o r3)
    BY <2>3, ForeignCat
  <2>5. l.out \in {<<>>, r1 \o r2 \o r3}
    BY <2>1
  <2> QED
    BY <2>4, <2>5, ForeignNone
<1>6. GalileoDecode(a, m) =
        IF ~m.sat \/ ~m.head THEN [asm |-> a, out |-> <<>>]
        ELSE IF m.type = 63 THEN [asm |-> a, out |-> dummy]
        ELSE IF m.type \notin GalTypes(m) THEN [asm |-> heard, out |-> s.out]
        ELSE IF ~m.own THEN [asm |-> heard, out |-> <<>>]
        ELSE IF m.t = None THEN [asm |-> heard, out |-> said]
        ELSE [asm |-> [sar |-> s.s, eph |-> e.eph, alm |-> l.alm], out |-> said \o e.out \o l.out]
  BY DEF GalileoDecode
<1> DEFINE so == s.out  eo == e.out  lo == l.out
<1>7. said = so \o models \o word /\ Foreign(so) /\ Foreign(eo) /\ Foreign(lo)
  BY <1>1, <1>4, <1>5
<1> HIDE DEF models, word, dummy, heard, said
<1>8. GalileoDecode(a, m).out \in {<<>>, dummy, so, said, said \o eo \o lo}
  <2> HIDE DEF s, e, l
  <2> QED
    BY <1>6
<1> HIDE DEF so, eo, lo
<1>9. Foreign(so \o models \o word)
  BY <1>2, <1>3, <1>7, ForeignCat
<1>10. Foreign(said \o eo \o lo)
  BY <1>7, <1>9, ForeignCat
<1> QED
  BY <1>3, <1>7, <1>8, <1>9, <1>10, ForeignNone

BdsKinds == {"bdgim", "utc", "eop", "bgto", "reduced_almanac", "midi_almanac"}
PppNames == {"mask", "orbit", "code_bias", "clock_mask", "clock_direct", "ura"}

LEMMA BdsNames ==
  /\ BdsKinds \cap Announced = {} /\ PppNames \cap Announced = {}
  /\ {"bds_ephemeris", "bds_almanac", "bds_header", "bds_klobuchar", "bds_utc", "bds_bgto", "bds_pppb2b_status"}
        \cap Announced = {}
BY DEF BdsKinds, PppNames, Announced, HasKinds

\* Names of kinds.
Names(s, S) == IsSeq(s) /\ \A i \in DOMAIN s : s[i] \in S

LEMMA NamesNone == ASSUME NEW S PROVE Names(<<>>, S)
BY NoneSeq DEF Names

LEMMA NamesOne == ASSUME NEW S, NEW x \in S PROVE Names(<<x>>, S)
BY OneSeq DEF Names

LEMMA NamesCat == ASSUME NEW S, NEW a, Names(a, S), NEW b, Names(b, S) PROVE Names(a \o b, S)
<1> DEFINE c == a \o b
<1>1. /\ IsSeq(c) /\ Len(a) \in Nat /\ Len(b) \in Nat
      /\ DOMAIN a = 1..Len(a) /\ DOMAIN b = 1..Len(b) /\ DOMAIN c = 1..(Len(a) + Len(b))
      /\ \A i \in 1..Len(a) : c[i] = a[i]
      /\ \A i \in (Len(a) + 1)..(Len(a) + Len(b)) : c[i] = b[i - Len(a)]
  BY CatFacts DEF Names
<1> HIDE DEF c
<1>2. ASSUME NEW i \in DOMAIN c PROVE c[i] \in S
  <2>1. CASE i =< Len(a)
    BY <2>1, <1>1 DEF Names
  <2>2. CASE i > Len(a)
    <3>1. i \in (Len(a) + 1)..(Len(a) + Len(b)) /\ i - Len(a) \in 1..Len(b)
      BY <2>2, <1>1
    <3> QED
      BY <3>1, <1>1 DEF Names
  <2> QED
    BY <2>1, <2>2, <1>1
<1> QED
  BY <1>1, <1>2 DEF Names, c

\* A row for every name.
LEMMA NamesForeign ==
  ASSUME NEW S, S \cap Announced = {}, NEW s, Names(s, S), NEW outs, outs = [i \in DOMAIN s |-> outs[i]],
         \A i \in DOMAIN s : outs[i].kind = s[i]
  PROVE  Foreign(outs)
<1>1. Len(s) \in Nat /\ DOMAIN s = 1..Len(s)
  BY SeqFacts DEF Names
<1>2. outs = [i \in 1..Len(s) |-> outs[i]]
  BY <1>1
<1>3. IsSeq(outs) /\ DOMAIN outs = 1..Len(s)
  BY <1>1, <1>2, FunctionSeq
<1> QED
  BY <1>1, <1>3 DEF Foreign, Names

LEMMA PppForeign == ASSUME NEW m PROVE Foreign(PppDecode(m))
<1> DEFINE kinds == PppKinds(m)
           status == Output("bds_pppb2b_status", FALSE, 0, [Single(m) EXCEPT !.good = m.good])
           rows == [i \in DOMAIN kinds |-> Output(kinds[i], m.good, 0, PppRow(m, kinds[i]))]
<1>1. m.type \in 1..7 => Names(kinds, PppNames)
  <2> DEFINE group(kind) == IF kind \in m.ids THEN <<kind>> ELSE <<>>
             g1 == group("clock_mask")  g2 == group("orbit")  g3 == group("clock_direct")
  <2>1. \A kind \in PppNames : Names(group(kind), PppNames) /\ Names(<<kind>>, PppNames)
    BY NamesOne, NamesNone
  <2>2. /\ "clock_mask" \in PppNames /\ "orbit" \in PppNames /\ "clock_direct" \in PppNames
        /\ "mask" \in PppNames /\ "code_bias" \in PppNames /\ "ura" \in PppNames
    BY DEF PppNames
  <2>3. Names(g1, PppNames) /\ Names(g2, PppNames) /\ Names(g3, PppNames)
    BY <2>1, <2>2
  <2>4. kinds = CASE m.type = 1 -> <<"mask">> [] m.type = 2 -> <<"orbit">> [] m.type = 3 -> <<"code_bias">>
        [] m.type = 4 -> <<"clock_mask">> [] m.type = 5 -> <<"ura">>
        [] m.type = 6 -> g1 \o g2
        [] m.type = 7 -> g3 \o g2
    BY DEF PppKinds
  <2> HIDE DEF g1, g2, g3, group, kinds
  <2>5. Names(g1 \o g2, PppNames) /\ Names(g3 \o g2, PppNames)
    BY <2>3, NamesCat
  <2>6. CASE m.type = 1
    BY <2>1, <2>2, <2>4, <2>6
  <2>7. CASE m.type = 2
    BY <2>1, <2>2, <2>4, <2>7
  <2>8. CASE m.type = 3
    BY <2>1, <2>2, <2>4, <2>8
  <2>9. CASE m.type = 4
    BY <2>1, <2>2, <2>4, <2>9
  <2>10. CASE m.type = 5
    BY <2>1, <2>2, <2>4, <2>10
  <2>11. CASE m.type = 6
    BY <2>5, <2>4, <2>11
  <2>12. CASE m.type = 7
    BY <2>5, <2>4, <2>12
  <2> QED
    BY <2>6, <2>7, <2>8, <2>9, <2>10, <2>11, <2>12
<1>2. Foreign(<<status>>)
  BY BdsNames, ForeignOne
<1> HIDE DEF kinds
<1>3. m.type \in 1..7 => Foreign(rows)
  <2>1. rows = [i \in DOMAIN kinds |-> rows[i]] /\ \A i \in DOMAIN kinds : rows[i].kind = kinds[i]
    BY DEF Output
  <2> HIDE DEF rows
  <2> QED
    BY <1>1, <2>1, BdsNames, NamesForeign
<1>4. PppDecode(m) = IF ~m.sat \/ ~m.own THEN <<>>
        ELSE IF m.type \notin 1..7 \/ m.bad THEN <<status>>
        ELSE <<status>> \o rows
  BY DEF PppDecode, kinds
<1> DEFINE first == <<status>>
<1> HIDE DEF rows, status
<1>5. Foreign(first) /\ (m.type \in 1..7 => Foreign(first \o rows))
  <2>1. Foreign(first)
    BY <1>2
  <2> HIDE DEF first
  <2> QED
    BY <1>3, <2>1, ForeignCat
<1> QED
  BY <1>4, <1>5, ForeignNone

LEMMA BdsEphemerisForeign ==
  ASSUME NEW parts, NEW m, NEW from, NEW toe, NEW toc PROVE Foreign(BdsEphemeris(parts, m, from, toe, toc))
<1> DEFINE sent == BdtTime(m.t, parts[from].week, parts[from].sow, 8192)
           said == [Blank EXCEPT !.body = Body(parts), !.week = parts[from].week,
                                 !.toe = BdtNearest(sent, toe), !.toc = BdtNearest(sent, toc)]
           row == IF IsLegacy(m) THEN [said EXCEPT !.tx = sent, !.healthy = Healthy(parts)] ELSE said
<1>1. BdsEphemeris(parts, m, from, toe, toc) = <<Output("bds_ephemeris", TRUE, 0, row)>>
  BY DEF BdsEphemeris
<1> HIDE DEF row
<1> QED
  BY <1>1, BdsNames, ForeignOne

LEMMA LegacyForeign == ASSUME NEW a, NEW m PROVE Foreign(LegacyDecode(a, m).out)
<1> DEFINE ac == AlmanacContext(a.alm, m)
           h == Said("bds_header", m)
           kept(kind, on) == IF on THEN <<Output(kind, TRUE, 0, Single(m))>> ELSE <<>>
           x == kept("bds_klobuchar", m.type = 1 /\ (IsD2(m) => m.id = 2))
           y == kept("bds_utc", m.type = 5 /\ m.id = (IF IsD2(m) THEN 102 ELSE 10))
           z == kept("bds_bgto", m.type = 5 /\ m.id = (IF IsD2(m) THEN 101 ELSE 9))
           models == LegacyModels(m)  l == LegacyAlmanac(ac, m)
           said == models \o l
           e == LegacyEphemeris(a.parts, m)
<1>1. Foreign(models)
  <2>1. Foreign(h)
    BY BdsNames, ForeignSaid
  <2>2. Foreign(x)
    BY BdsNames, ForeignOne, ForeignNone
  <2>3. Foreign(y)
    BY BdsNames, ForeignOne, ForeignNone
  <2>4. Foreign(z)
    BY BdsNames, ForeignOne, ForeignNone
  <2>5. models = h \o x \o y \o z
    BY DEF LegacyModels
  <2> HIDE DEF h, x, y, z, models
  <2> QED
    BY <2>1, <2>2, <2>3, <2>4, <2>5, ForeignCat
<1>2. Foreign(l)
  <2> HIDE DEF ac
  <2> QED
    BY BdsNames, ForeignOne, ForeignNone DEF LegacyAlmanac
<1>3. Foreign(e.out)
  <2> DEFINE b == LegacyGather(a.parts, m)  toe == b[IF IsD2(m) THEN 7 ELSE 3].toe
             g == BdsEphemeris(b, m, 1, toe, b[1].toc)
  <2>1. Foreign(g)
    <3> HIDE DEF b, toe
    <3> QED
      BY BdsEphemerisForeign
  <2>2. e = IF ~Contiguous(b, m) \/ toe # b[1].toc THEN [parts |-> b, out |-> <<>>]
            ELSE [parts |-> <<>>, out |-> g]
    BY DEF LegacyEphemeris
  <2> HIDE DEF b, toe, g, e
  <2> QED
    BY <2>1, <2>2, ForeignNone
<1> DEFINE eo == e.out
<1>4. LegacyDecode(a, m) = IF m.type \notin 1..5 \/ ~m.head THEN [asm |-> a, out |-> <<>>]
        ELSE IF ~HasLegacyPart(m) \/ m.t = None THEN [asm |-> [a EXCEPT !.alm = ac], out |-> said]
        ELSE [asm |-> [alm |-> ac, parts |-> e.parts], out |-> said \o eo]
  BY DEF LegacyDecode
<1>5. Foreign(eo)
  BY <1>3
<1> HIDE DEF models, l, e, eo, ac
<1>6. Foreign(said) /\ Foreign(said \o eo)
  BY <1>1, <1>2, <1>5, ForeignCat
<1> HIDE DEF said
<1>7. LegacyDecode(a, m).out \in {<<>>, said, said \o eo}
  BY <1>4
<1> QED
  BY <1>6, <1>7, ForeignNone

LEMMA BcnavKeptForeign == ASSUME NEW m PROVE Foreign(BcnavKept(m))
<1> DEFINE kinds == BcnavModels(m)
           almanac(kind) == IF m.id # 0 THEN <<kind>> ELSE <<>>
           r == almanac("reduced_almanac")  d == almanac("midi_almanac")  b == <<"bgto">>
           s1 == <<"bdgim", "utc">>  s2 == <<"eop", "bgto">>  s3 == <<"bdgim">>  s4 == <<"eop">>
           s5 == <<"utc">>  s6 == <<"bdgim", "utc", "eop">>
<1>1. kinds = CASE m.fam = "BDS_BCNAV1" /\ m.type = 1 -> s1
      [] m.fam = "BDS_BCNAV1" /\ m.type = 2 -> r
      [] m.fam = "BDS_BCNAV1" /\ m.type = 3 -> s2
      [] m.fam = "BDS_BCNAV2" /\ m.type = 30 -> s3
      [] m.fam = "BDS_BCNAV2" /\ m.type = 31 -> r
      [] m.fam = "BDS_BCNAV2" /\ m.type = 32 -> s4
      [] m.fam = "BDS_BCNAV2" /\ m.type = 33 -> b \o r
      [] m.fam = "BDS_BCNAV2" /\ m.type = 34 -> s5
      [] m.fam = "BDS_BCNAV3" /\ m.type = 30 -> s6
      [] m.fam = "BDS_BCNAV3" /\ m.type = 40 -> b \o d \o r
      [] (m.fam = "BDS_BCNAV1" /\ m.type = 4) \/ (m.fam = "BDS_BCNAV2" /\ m.type = 40) -> d
      [] OTHER -> <<>>
  BY DEF BcnavModels
<1>2. ASSUME NEW s, \E S \in SUBSET BdsKinds : s \in Seq(S) PROVE Names(s, BdsKinds)
  <2>1. PICK S \in SUBSET BdsKinds : s \in Seq(S)
    BY <1>2
  <2>2. DOMAIN s = 1..Len(s) /\ \A i \in 1..Len(s) : s[i] \in S
    BY <2>1, LenProperties, ElementOfSeq
  <2> QED
    BY <2>1, <2>2 DEF Names, IsSeq
<1>3. /\ Names(s1, BdsKinds) /\ Names(s2, BdsKinds) /\ Names(s3, BdsKinds) /\ Names(s4, BdsKinds)
      /\ Names(s5, BdsKinds) /\ Names(s6, BdsKinds) /\ Names(b, BdsKinds)
  <2>1. /\ s1 \in Seq(BdsKinds) /\ s2 \in Seq(BdsKinds) /\ s3 \in Seq(BdsKinds) /\ s4 \in Seq(BdsKinds)
        /\ s5 \in Seq(BdsKinds) /\ s6 \in Seq(BdsKinds) /\ b \in Seq(BdsKinds)
    BY DEF BdsKinds
  <2> HIDE DEF s1, s2, s3, s4, s5, s6, b
  <2> QED
    BY <1>2, <2>1
<1>4. Names(r, BdsKinds) /\ Names(d, BdsKinds)
  <2>1. "reduced_almanac" \in BdsKinds /\ "midi_almanac" \in BdsKinds
    BY DEF BdsKinds
  <2> QED
    BY <2>1, NamesOne, NamesNone
<1> HIDE DEF kinds, r, d, b, s1, s2, s3, s4, s5, s6
<1>5. Names(b \o r, BdsKinds) /\ Names(b \o d \o r, BdsKinds)
  <2>1. Names(b \o r, BdsKinds) /\ Names(b \o d, BdsKinds)
    BY <1>3, <1>4, NamesCat
  <2> QED
    BY <2>1, <1>4, NamesCat
<1>6. kinds \in {s1, s2, s3, s4, s5, s6, r, d, b \o r, b \o d \o r, <<>>}
  BY <1>1
<1>7. Names(kinds, BdsKinds)
  BY <1>3, <1>4, <1>5, <1>6, NamesNone
<1> DEFINE outs == BcnavKept(m)
<1>8. outs = [i \in DOMAIN kinds |-> outs[i]] /\ \A i \in DOMAIN kinds : outs[i].kind = kinds[i]
  BY DEF BcnavKept, kinds, Output
<1> HIDE DEF outs
<1>9. Foreign(outs)
  BY <1>7, <1>8, BdsNames, NamesForeign
<1> QED
  BY <1>9 DEF outs

LEMMA BcnavForeign ==
  ASSUME NEW a, NEW m PROVE Foreign(Bcnav1Decode(a, m).out) /\ Foreign(Bcnav23Decode(a, m).out)
<1> DEFINE kept == BcnavKept(m)
<1>0. Foreign(kept)
  BY BcnavKeptForeign
<1>1. Foreign(Bcnav1Decode(a, m).out)
  <2> DEFINE hour == BdtTime(m.t, m.week, m.top, 8192)
             row == [Single(m) EXCEPT !.week = m.week, !.top = m.top,
                                      !.toe = BdtNearest(hour, m.toe), !.toc = BdtNearest(hour, m.toc)]
             eph == <<Output("bds_ephemeris", TRUE, 0, row)>>
             first == IF m.iss = m.iode THEN eph ELSE <<>>
  <2>1. Foreign(first)
    <3> HIDE DEF row
    <3> QED
      BY BdsNames, ForeignOne, ForeignNone
  <2>2. Bcnav1Decode(a, m) = [asm |-> a, out |-> first \o kept]
    BY DEF Bcnav1Decode
  <2> HIDE DEF first, kept
  <2>3. Foreign(first \o kept)
    BY <2>1, <1>0, ForeignCat
  <2> QED
    BY <2>2, <2>3
<1>2. Foreign(Bcnav23Decode(a, m).out)
  <2> DEFINE e == BcnavEphemeris(a.parts, m)
             b == BcnavGather(a.parts, m)
             g == BdsEphemeris(b, m, IF m.fam = "BDS_BCNAV2" THEN 1 ELSE 3, b[1].toe, b[3].toc)
             eo == e.out
  <2>1. Foreign(g)
    <3> HIDE DEF b
    <3> QED
      BY BdsEphemerisForeign
  <2>2. e = IF DOMAIN b # BcnavParts(m) \/ ~Belongs(b, m) THEN [parts |-> b, out |-> <<>>]
            ELSE [parts |-> <<>>, out |-> g]
    BY DEF BcnavEphemeris
  <2>3. Bcnav23Decode(a, m) = IF ~m.own \/ ~m.head \/ m.type \notin BcnavTypes(m) THEN [asm |-> a, out |-> <<>>]
      ELSE IF m.t = None THEN [asm |-> a, out |-> kept]
      ELSE [asm |-> [a EXCEPT !.parts = e.parts], out |-> kept \o eo]
    BY DEF Bcnav23Decode
  <2> HIDE DEF b, g, e, kept
  <2>4. Foreign(eo)
    BY <2>1, <2>2, ForeignNone
  <2> HIDE DEF eo
  <2>5. Foreign(kept \o eo)
    BY <2>4, <1>0, ForeignCat
  <2>6. Bcnav23Decode(a, m).out \in {<<>>, kept, kept \o eo}
    BY <2>3
  <2> QED
    BY <2>5, <2>6, <1>0, ForeignNone
<1> QED
  BY <1>1, <1>2

\* BeiDou.
LEMMA BeidouForeign == ASSUME NEW a, NEW m PROVE Foreign(BeidouDecode(a, m).out)
<1>1. BeidouDecode(a, m).out \in {<<>>, PppDecode(m), LegacyDecode(a, m).out, Bcnav1Decode(a, m).out,
                                  Bcnav23Decode(a, m).out}
  BY DEF BeidouDecode
<1> QED
  BY <1>1, PppForeign, LegacyForeign, BcnavForeign, ForeignNone

(***************************************************************************)
(* The invariant of the feed, and the theorem.                             *)
(***************************************************************************)

Inv == /\ which \in DOMAIN Broadcasts /\ pos \in Nat
       /\ Good(log)
       /\ progress \in Int \cup {None}
       /\ \A k \in DOMAIN asm : k = <<k[1], k[2]>> /\ (k[2] = "GAL_CNAV" => Standing(log, asm[k], k[1], progress))

LEMMA InvInit == Init => Inv
<1> SUFFICES ASSUME Init PROVE Inv
  OBVIOUS
<1>1. which \in DOMAIN Broadcasts /\ pos = 0 /\ log = <<>> /\ asm = <<>> /\ progress = None
  BY DEF Init, DecodersInit
<1>2. IsSeq(<<>>) /\ Len(<<>>) = 0 /\ DOMAIN <<>> = {}
  BY NoneSeq
<1>3. Good(log)
  BY <1>1, <1>2 DEF Good
<1>4. DOMAIN asm = {}
  BY <1>1, <1>2
<1> QED
  BY <1>1, <1>3, <1>4 DEF Inv

\* The frames that are sent.
LEMMA SentTyped ==
  ASSUME Inv, pos < Len(schedule)
  PROVE  /\ Sent.t \in Int \cup {None}
         /\ Sent.fam = "GAL_CNAV" /\ Sent.status # 3 => (Sent.msg.orbit # None => Sent.msg.until # None)
<1> DEFINE frames == Broadcasts[which].frames
<1>1. /\ frames \in Seq({frames[i] : i \in DOMAIN frames})
      /\ \A i \in DOMAIN frames :
            /\ frames[i].t \in Int \cup {None}
            /\ frames[i].fam = "GAL_CNAV" /\ frames[i].status # 3 =>
                  (frames[i].msg.orbit # None => frames[i].msg.until # None)
  BY FramesAssumption DEF Inv
<1>2. Sent = frames[pos + 1] /\ pos < Len(frames)
  BY DEF Sent, schedule
<1> HIDE DEF frames
<1>3. DOMAIN frames = 1..Len(frames) /\ Len(frames) \in Nat
  BY <1>1, LenProperties
<1>4. pos + 1 \in DOMAIN frames
  BY <1>2, <1>3 DEF Inv
<1> QED
  BY <1>1, <1>2, <1>4

LEMMA DecodeForeign ==
  ASSUME NEW a, NEW m, m.fam \in Families, m.fam # "GAL_CNAV" PROVE Foreign(Decode(a, m).out)
<1>1. Decode(a, m) \in {LnavDecode(a, m), CnavDecode(a, m), GalileoDecode(a, m), BeidouDecode(a, m)}
  <2>1. CASE m.fam \in {"GPS_LNAV", "QZS_LNAV"}
    BY <2>1 DEF Decode
  <2>2. CASE m.fam = "QZS_CNAV"
    BY <2>2 DEF Decode
  <2>3. CASE m.fam \in {"GAL_INAV", "GAL_FNAV"}
    BY <2>3 DEF Decode
  <2>4. CASE m.fam \notin {"GPS_LNAV", "QZS_LNAV", "QZS_CNAV", "GAL_INAV", "GAL_FNAV"}
    BY <2>4 DEF Decode
  <2> QED
    BY <2>1, <2>2, <2>3, <2>4
<1> QED
  BY <1>1, LnavForeign, CnavForeign, GalileoForeign, BeidouForeign

\* The clock only moves on.
LEMMA TickIs ==
  ASSUME NEW m, m.t \in Int \cup {None}, Ordered(m), Tick(m), None \notin Int
  PROVE  progress' = (IF m.t = None THEN progress ELSE m.t) /\ (progress \in Int => progress' \in Int /\ progress =< progress')
<1>1. progress' = (IF m.t = None THEN progress ELSE m.t)
  BY DEF Tick, Advance
<1> QED
  BY <1>1 DEF Ordered

\* A frame whose family makes nothing of it.
LEMMA InvTick ==
  ASSUME NEW m, m.t \in Int \cup {None}, Good(log), progress \in Int \cup {None},
         \A k \in DOMAIN asm : k = <<k[1], k[2]>> /\ (k[2] = "GAL_CNAV" => Standing(log, asm[k], k[1], progress)),
         Ordered(m), Tick(m), UNCHANGED <<asm, log>>
  PROVE  /\ Good(log)' /\ progress' \in Int \cup {None}
         /\ \A k \in DOMAIN asm' : k = <<k[1], k[2]>> /\ (k[2] = "GAL_CNAV" => Standing(log', asm'[k], k[1], progress'))
<1>1. progress' = (IF m.t = None THEN progress ELSE m.t) /\ (progress \in Int => progress' \in Int /\ progress =< progress')
  BY TickIs, FramesAssumption
<1>2. \A src : Onward(log, log) /\ Aside(log, src, Len(log))
  <2>1. Len(log) \in Nat
    BY SeqFacts DEF Good
  <2> QED
    BY <2>1 DEF Onward, Aside
<1>3. \A k \in DOMAIN asm : k[2] = "GAL_CNAV" => Standing(log, asm[k], k[1], progress')
  BY <1>1, <1>2, StandsAside
<1>4. asm' = asm /\ log' = log
  OBVIOUS
<1>5. Good(log)'
  BY <1>4 DEF Good
<1> QED
  BY <1>1, <1>3, <1>4, <1>5

\* What a frame of HAS makes of what its source has under way.
LEMMA InvHas ==
  ASSUME NEW m, m.t \in Int \cup {None}, Good(log), progress \in Int \cup {None},
         \A k \in DOMAIN asm : k = <<k[1], k[2]>> /\ (k[2] = "GAL_CNAV" => Standing(log, asm[k], k[1], progress)),
         Ordered(m), Tick(m), m.fam = "GAL_CNAV",
         m.status # 3 => (m.msg.orbit # None => m.msg.until # None),
         NEW c, Answer(m, HasDecode(Pending(m), m), c)
  PROVE  /\ Good(log') /\ progress' \in Int \cup {None}
         /\ \A k \in DOMAIN asm' : k = <<k[1], k[2]>> /\ (k[2] = "GAL_CNAV" => Standing(log', asm'[k], k[1], progress'))
<1> DEFINE s == Pending(m)  d == HasDecode(s, m)  M == LogOf(log, m, d.out)
<1>1. progress' = (IF m.t = None THEN progress ELSE m.t) /\ (progress \in Int => progress' \in Int /\ progress =< progress')
  BY TickIs, FramesAssumption
<1>2. Standing(log, s, m.src, progress)
  <2>1. CASE Slot(m) \in DOMAIN asm
    BY <2>1 DEF Pending, Slot
  <2>2. CASE Slot(m) \notin DOMAIN asm
    BY <2>2, NothingStands DEF Pending, Fresh0
  <2> QED
    BY <2>1, <2>2
<1>3. m.t # None => (progress \in Int => progress =< m.t)
  BY <1>1
<1> HIDE DEF s
<1>4. LET e == HasDecode(s, m)
          N == LogOf(log, m, e.out)
      IN  /\ IsSeq(e.out) /\ Good(N)
          /\ \/ \E i \in DOMAIN e.out : HasWithdrawn(e.out[i], m)
             \/ /\ \A i \in DOMAIN e.out : ~HasWithdrawn(e.out[i], m)
                /\ Standing(N, e.asm, m.src, IF m.t = None THEN progress ELSE m.t)
  BY <1>2, <1>3, HasStands
<1>5. /\ IsSeq(d.out) /\ Good(M)
      /\ \/ \E i \in DOMAIN d.out : HasWithdrawn(d.out[i], m)
         \/ /\ \A i \in DOMAIN d.out : ~HasWithdrawn(d.out[i], m)
            /\ Standing(M, d.asm, m.src, progress')
  BY <1>1, <1>4
<1>6. /\ log' = M
      /\ asm' = IF \E i \in DOMAIN d.out : HasWithdrawn(d.out[i], m)
                  THEN [k \in DOMAIN asm |-> IF k[2] = m.fam THEN NoHas ELSE asm[k]]
                  ELSE With(asm, Slot(m), d.asm)
  BY DEF Answer, LogOf, s
<1> HIDE DEF d
<1>7. /\ Onward(log, M) /\ Len(M) = Len(log) + Len(d.out) /\ Len(log) \in Nat
      /\ DOMAIN d.out = 1..Len(d.out)
      /\ \A j \in (Len(log) + 1)..Len(M) : /\ j - Len(log) \in 1..Len(d.out)
                                           /\ M[j] = Listed(m, d.out[j - Len(log)])
  BY <1>5, LogOfIs DEF Good
<1> HIDE DEF M
<1>8. CASE \E i \in DOMAIN d.out : HasWithdrawn(d.out[i], m)
  <2>1. \A k \in DOMAIN asm' : k \in DOMAIN asm /\ (k[2] = "GAL_CNAV" => asm'[k] = NoHas)
    BY <1>6, <1>8
  <2>2. \A k \in DOMAIN asm' : k[2] = "GAL_CNAV" => Standing(log', asm'[k], k[1], progress')
    BY <2>1, NothingStands
  <2> QED
    BY <2>1, <2>2, <1>1, <1>5, <1>6
<1>9. CASE ~\E i \in DOMAIN d.out : HasWithdrawn(d.out[i], m)
  <2>1. /\ DOMAIN asm' = DOMAIN asm \cup {Slot(m)} /\ asm'[Slot(m)] = d.asm
        /\ \A k \in DOMAIN asm : k # Slot(m) => asm'[k] = asm[k]
    BY <1>6, <1>9 DEF With
  <2>2. ASSUME NEW k \in DOMAIN asm' PROVE k = <<k[1], k[2]>> /\ (k[2] = "GAL_CNAV" => Standing(log', asm'[k], k[1], progress'))
    <3>1. CASE k = Slot(m)
      <4>1. k = <<m.src, m.fam>>
        BY <3>1 DEF Slot
      <4>2. k[1] = m.src /\ k[2] = m.fam
        BY <4>1
      <4> QED
        BY <4>1, <4>2, <3>1, <2>1, <1>5, <1>6, <1>9
    <3>2. CASE k # Slot(m)
      <4>1. k \in DOMAIN asm /\ asm'[k] = asm[k] /\ k = <<k[1], k[2]>>
        BY <3>2, <2>1
      <4>2. ASSUME k[2] = "GAL_CNAV" PROVE Standing(M, asm[k], k[1], progress')
        <5>1. k[1] # m.src
          BY <4>1, <4>2, <3>2 DEF Slot
        <5>2. Aside(M, k[1], Len(log))
          <6>1. \A j \in (Len(log) + 1)..Len(M) : M[j].src = m.src /\ ~M[j].has
            <7> SUFFICES ASSUME NEW j \in (Len(log) + 1)..Len(M) PROVE M[j].src = m.src /\ ~M[j].has
              OBVIOUS
            <7>1. j - Len(log) \in DOMAIN d.out /\ M[j] = Listed(m, d.out[j - Len(log)])
              BY <1>7
            <7> QED
              BY <7>1, <1>9, EntryIs
          <6> QED
            BY <6>1, <5>1 DEF Aside
        <5> QED
          BY <4>1, <4>2, <5>2, <1>1, <1>7, StandsAside
      <4> QED
        BY <4>1, <4>2, <1>6
    <3> QED
      BY <3>1, <3>2
  <2> QED
    BY <2>2, <1>1, <1>5, <1>6
<1> QED
  BY <1>8, <1>9

\* A frame of another family.
LEMMA InvForeign ==
  ASSUME NEW m, m.t \in Int \cup {None}, Good(log), progress \in Int \cup {None},
         \A k \in DOMAIN asm : k = <<k[1], k[2]>> /\ (k[2] = "GAL_CNAV" => Standing(log, asm[k], k[1], progress)),
         Ordered(m), Tick(m), m.fam # "GAL_CNAV",
         NEW d, Foreign(d.out), NEW c, Answer(m, d, c)
  PROVE  /\ Good(log') /\ progress' \in Int \cup {None}
         /\ \A k \in DOMAIN asm' : k = <<k[1], k[2]>> /\ (k[2] = "GAL_CNAV" => Standing(log', asm'[k], k[1], progress'))
<1> DEFINE M == LogOf(log, m, d.out)
<1>1. progress' = (IF m.t = None THEN progress ELSE m.t) /\ (progress \in Int => progress' \in Int /\ progress =< progress')
  BY TickIs, FramesAssumption
<1>2. \A i \in DOMAIN d.out : /\ ~HasWithdrawn(d.out[i], m)
                              /\ d.out[i].kind \notin HasKinds \cup {"gal_has_mask", "gal_has_orbit"}
  BY DEF Foreign, Announced, HasWithdrawn, HasKinds
<1>3. log' = M /\ asm' = With(asm, Slot(m), d.asm)
  BY <1>2 DEF Answer, LogOf
<1>4. /\ IsSeq(M) /\ Onward(log, M) /\ Len(M) = Len(log) + Len(d.out) /\ Len(log) \in Nat
      /\ DOMAIN d.out = 1..Len(d.out)
      /\ \A j \in (Len(log) + 1)..Len(M) : /\ j - Len(log) \in 1..Len(d.out)
                                           /\ M[j] = Listed(m, d.out[j - Len(log)])
  BY LogOfIs DEF Good, Foreign
<1> HIDE DEF M
<1>5. \A j \in (Len(log) + 1)..Len(M) : /\ ~M[j].has
                                        /\ M[j].out.kind \notin HasKinds \cup {"gal_has_mask", "gal_has_orbit"}
  <2> SUFFICES ASSUME NEW j \in (Len(log) + 1)..Len(M)
               PROVE  ~M[j].has /\ M[j].out.kind \notin HasKinds \cup {"gal_has_mask", "gal_has_orbit"}
    OBVIOUS
  <2>1. j - Len(log) \in DOMAIN d.out /\ M[j] = Listed(m, d.out[j - Len(log)])
    BY <1>4
  <2> QED
    BY <2>1, <1>2, EntryIs
<1>6. \A src : Aside(M, src, Len(log))
  BY <1>5 DEF Aside
<1>7. Good(M)
  BY <1>4, <1>5, GoodNext
<1>8. /\ DOMAIN asm' = DOMAIN asm \cup {Slot(m)}
      /\ \A k \in DOMAIN asm : k # Slot(m) => asm'[k] = asm[k]
  BY <1>3 DEF With
<1>9. ASSUME NEW k \in DOMAIN asm' PROVE k = <<k[1], k[2]>> /\ (k[2] = "GAL_CNAV" => Standing(log', asm'[k], k[1], progress'))
  <2>1. CASE k = Slot(m)
    <3>1. k = <<m.src, m.fam>>
      BY <2>1 DEF Slot
    <3>2. k[1] = m.src /\ k[2] = m.fam
      BY <3>1
    <3> QED
      BY <3>1, <3>2
  <2>2. CASE k # Slot(m)
    <3>1. k \in DOMAIN asm /\ asm'[k] = asm[k] /\ k = <<k[1], k[2]>>
      BY <2>2, <1>8
    <3>2. ASSUME k[2] = "GAL_CNAV" PROVE Standing(M, asm[k], k[1], progress')
      BY <3>1, <3>2, <1>1, <1>4, <1>6, StandsAside
    <3> QED
      BY <3>1, <3>2, <1>3
  <2> QED
    BY <2>1, <2>2
<1> QED
  BY <1>1, <1>3, <1>7, <1>9

LEMMA InvNext == Inv /\ [Next]_vars => Inv'
<1> SUFFICES ASSUME Inv, [Next]_vars PROVE Inv'
  OBVIOUS
<1>0. /\ which \in DOMAIN Broadcasts /\ pos \in Nat
      /\ Good(log)
      /\ progress \in Int \cup {None}
      /\ \A k \in DOMAIN asm : k = <<k[1], k[2]>> /\ (k[2] = "GAL_CNAV" => Standing(log, asm[k], k[1], progress))
  BY DEF Inv
<1>a. ASSUME which' = which, pos' \in Nat, Good(log'), progress' \in Int \cup {None},
             \A k \in DOMAIN asm' : k = <<k[1], k[2]>> /\ (k[2] = "GAL_CNAV" => Standing(log', asm'[k], k[1], progress'))
      PROVE  Inv'
  BY <1>0, <1>a DEF Inv
<1>b. ASSUME which' = which, pos' \in Nat, log' = log, progress' = progress, asm' = asm
      PROVE  Inv'
  BY <1>0, <1>a, <1>b
<1>1. CASE Deliver
  <2> DEFINE m == Sent
  <2>1. /\ m.t \in Int \cup {None}
        /\ m.fam = "GAL_CNAV" /\ m.status # 3 => (m.msg.orbit # None => m.msg.until # None)
    BY <1>1, SentTyped DEF Deliver
  <2>2. Feed(m) /\ pos' = pos + 1 /\ which' = which
    BY <1>1 DEF Deliver
  <2> HIDE DEF m
  <2> SUFFICES /\ Good(log') /\ progress' \in Int \cup {None}
               /\ \A k \in DOMAIN asm' : k = <<k[1], k[2]>> /\ (k[2] = "GAL_CNAV" => Standing(log', asm'[k], k[1], progress'))
    BY <1>0, <1>a, <2>2
  <2>3. CASE Fail
    BY <2>3, <1>0 DEF Fail
  <2>4. CASE Ordered(m) /\ Tick(m) /\ UNCHANGED <<asm, log>>
    BY <2>4, <2>1, <1>0, InvTick
  <2>5. ASSUME Ordered(m), Tick(m), m.fam \in Families, NEW d, d = Decode(Pending(m), m), NEW c, Answer(m, d, c)
        PROVE  /\ Good(log') /\ progress' \in Int \cup {None}
               /\ \A k \in DOMAIN asm' : k = <<k[1], k[2]>> /\ (k[2] = "GAL_CNAV" => Standing(log', asm'[k], k[1], progress'))
    <3>1. CASE m.fam = "GAL_CNAV"
      <4>1. d = HasDecode(Pending(m), m)
        BY <3>1, <2>5 DEF Decode
      <4> QED
        BY <3>1, <4>1, <2>1, <2>5, <1>0, InvHas
    <3>2. CASE m.fam # "GAL_CNAV"
      <4>1. Foreign(d.out)
        BY <3>2, <2>5, DecodeForeign
      <4> QED
        BY <3>2, <4>1, <2>1, <2>5, <1>0, InvForeign
    <3> QED
      BY <3>1, <3>2
  <2>6. \/ Fail
        \/ Ordered(m) /\ Tick(m) /\ UNCHANGED <<asm, log>>
        \/ /\ Ordered(m) /\ Tick(m) /\ m.fam \in Families
           /\ \E d \in {Decode(Pending(m), m)} : \E c : Answer(m, d, c)
    BY <2>2 DEF Feed
  <2> QED
    BY <2>3, <2>4, <2>5, <2>6
<1>2. CASE Lose
  <2>1. UNCHANGED <<which, log, progress, asm>> /\ pos' = pos + 1
    BY <1>2 DEF Lose, decoder
  <2> QED
    BY <2>1, <1>0, <1>b
<1>3. CASE Break
  <2>1. UNCHANGED <<which, pos, log>> /\ asm' = <<>> /\ progress' = None
    BY <1>3 DEF Break, Discontinuity
  <2>2. DOMAIN asm' = {}
    BY <2>1, NoneSeq
  <2>3. Good(log)'
    BY <2>1, <1>0 DEF Good
  <2> QED
    BY <2>1, <2>2, <2>3, <1>0 DEF Inv
<1>4. CASE UNCHANGED vars
  <2>1. UNCHANGED <<which, pos, log, progress, asm>>
    BY <1>4 DEF vars, decoderVars, decoder
  <2> QED
    BY <2>1, <1>0, <1>b
<1> QED
  BY <1>1, <1>2, <1>3, <1>4 DEF Next

\* HasDecoder (broadcast_has.cpp): every correction that is given out refers to
\* the mask and the orbit message that its source announced last under the names
\* it uses, both younger than half an hour and not before a withdrawal; the orbit
\* was given under the correction's own mask unless that one had lapsed since.
\* The parser works on copies, drops what is too old before every message, and
\* drops the issues of a mask that changes: without any of the three it is false.
THEOREM CorrectionsHold == Spec => []CorrectionsRefer
<1>1. Inv => CorrectionsRefer
  <2> SUFFICES ASSUME Inv, NEW i \in DOMAIN log, log[i].out.kind \in HasKinds PROVE Refers(log, i)
    BY DEF CorrectionsRefer
  <2>1. DOMAIN log = 1..Len(log)
    BY SeqFacts DEF Inv, Good
  <2> QED
    BY <2>1 DEF Inv, Good
<1> QED
  BY <1>1, InvInit, InvNext, PTL DEF Spec
=============================================================================
