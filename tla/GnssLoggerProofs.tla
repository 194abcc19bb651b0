-------------------------- MODULE GnssLoggerProofs --------------------------
(***************************************************************************)
(* What the run of GnssLogger shows for thirteen small recordings, proved  *)
(* for any bytes, any frames, any buffer and any cut into chunks: chunks   *)
(* leave no trace, the files are the whole intervals of the stream, and a  *)
(* run that ends well has written all of it.                               *)
(*                                                                         *)
(* The decoder and the recording are recursive functions over sequences.   *)
(* What they compute is shown by induction over the natural numbers in the *)
(* form of NatSet, which quantifies over sets.                             *)
(***************************************************************************)
EXTENDS GnssLogger, SequenceTheorems, FiniteSetTheorems, WellFoundedInduction, TLAPS

(***************************************************************************)
(* Induction, and the recursive functions it justifies.                    *)
(***************************************************************************)

\* A set of naturals that has 0 and with each number the next has them all.
LEMMA NatSet ==
  ASSUME NEW S, 0 \in S, \A n \in Nat : n \in S => n + 1 \in S
  PROVE  Nat \subseteq S
<1> SUFFICES ASSUME Nat \ S # {} PROVE FALSE
  OBVIOUS
<1> DEFINE T == Nat \ S
<1>1. \E x \in T : \A y \in T : ~(<<y, x>> \in OpToRel(<, Nat))
  BY NatLessThanWellFounded, WFMin
<1>2. PICK x \in T : \A y \in T : ~(y < x)
  BY <1>1 DEF OpToRel
<1>3. x \in Nat /\ x # 0 /\ x - 1 \in Nat /\ x - 1 < x
  OBVIOUS
<1>4. x - 1 \in S
  BY <1>2, <1>3
<1> QED
  BY <1>3, <1>4

Texts(S) == Seq(Seq(S))

\* What FlattenSeq recurs to.
Flattens(q, n, g) == g = [i \in 1..n |-> IF i = 1 THEN q[i] ELSE g[i - 1] \o q[i]]

LEMMA FlattensExists ==
  ASSUME NEW q, NEW m \in Nat
  PROVE  \E g : Flattens(q, m, g)
<1> DEFINE S == {n \in Nat : \E g : Flattens(q, n, g)}
<1>1. 0 \in S
  <2> DEFINE g == [i \in 1..0 |-> q[i]]
  <2>1. Flattens(q, 0, g)
    <3>1. \A i \in 1..0 : FALSE
      OBVIOUS
    <3>2. g = [i \in 1..0 |-> IF i = 1 THEN q[i] ELSE g[i - 1] \o q[i]]
      BY <3>1
    <3> QED
      BY <3>2 DEF Flattens
  <2> QED
    BY <2>1
<1>2. ASSUME NEW n \in Nat, n \in S PROVE n + 1 \in S
  <2>1. PICK g : Flattens(q, n, g)
    BY <1>2
  <2> DEFINE tip == IF n = 0 THEN q[1] ELSE g[n] \o q[n + 1]
             h == [i \in 1..(n + 1) |-> IF i = n + 1 THEN tip ELSE g[i]]
  <2>a. \A i \in 1..n : g[i] = IF i = 1 THEN q[i] ELSE g[i - 1] \o q[i]
    BY <2>1 DEF Flattens
  <2>b. \A i \in 1..n : h[i] = g[i]
    OBVIOUS
  <2>2. \A i \in 1..n : h[i] = g[i] /\ g[i] = IF i = 1 THEN q[i] ELSE g[i - 1] \o q[i]
    BY <2>a, <2>b
  <2>3. ASSUME NEW i \in 1..(n + 1)
        PROVE  h[i] = IF i = 1 THEN q[i] ELSE h[i - 1] \o q[i]
    <3>1. CASE i = n + 1
      <4>1. h[i] = tip
        BY <3>1
      <4>2. n # 0 => h[i - 1] = g[n]
        BY <3>1
      <4> HIDE DEF h
      <4> QED
        BY <4>1, <4>2, <3>1
    <3>2. CASE i # n + 1
      <4>1. i \in 1..n /\ h[i] = g[i] /\ (i # 1 => i - 1 \in 1..n /\ h[i - 1] = g[i - 1])
        BY <3>2
      <4> HIDE DEF h
      <4> QED
        BY <4>1, <2>2
    <3> QED
      BY <3>1, <3>2
  <2>4. h = [i \in 1..(n + 1) |-> h[i]]
    OBVIOUS
  <2> HIDE DEF h
  <2>5. h = [i \in 1..(n + 1) |-> IF i = 1 THEN q[i] ELSE h[i - 1] \o q[i]]
    BY <2>3, <2>4
  <2>6. Flattens(q, n + 1, h)
    BY <2>5 DEF Flattens
  <2> QED
    BY <2>6
<1> HIDE DEF S
<1>3. Nat \subseteq S
  BY <1>1, <1>2, NatSet
<1> QED
  BY <1>3 DEF S

Agree(q, r, k) == \A i \in 1..k : q[i] = r[i]

LEMMA FlattensSame ==
  ASSUME NEW q, NEW r, NEW m \in Nat, NEW n \in Nat, NEW k \in Nat, k <= m, k <= n,
         NEW g, Flattens(q, m, g), NEW h, Flattens(r, n, h), Agree(q, r, k)
  PROVE  Agree(g, h, k)
<1>0. /\ \A i \in 1..m : g[i] = IF i = 1 THEN q[i] ELSE g[i - 1] \o q[i]
      /\ \A i \in 1..n : h[i] = IF i = 1 THEN r[i] ELSE h[i - 1] \o r[i]
  BY DEF Flattens
<1> DEFINE S == {i \in Nat : i \in 1..k => g[i] = h[i]}
<1>1. 0 \in S
  OBVIOUS
<1>2. ASSUME NEW i \in Nat, i \in S PROVE i + 1 \in S
  <2> SUFFICES ASSUME i + 1 \in 1..k PROVE g[i + 1] = h[i + 1]
    OBVIOUS
  <2>1. i + 1 \in 1..m /\ i + 1 \in 1..n /\ q[i + 1] = r[i + 1]
    BY DEF Agree
  <2>2. CASE i = 0
    BY <2>1, <2>2, <1>0
  <2>3. CASE i # 0
    <3>1. g[i] = h[i] /\ i + 1 # 1 /\ (i + 1) - 1 = i
      BY <1>2, <2>3
    <3> QED
      BY <3>1, <2>1, <1>0
  <2> QED
    BY <2>2, <2>3
<1> HIDE DEF S
<1>3. Nat \subseteq S
  BY <1>1, <1>2, NatSet
<1> QED
  BY <1>3 DEF S, Agree

LEMMA FlattenIs ==
  ASSUME NEW q, Len(q) \in Nat, Len(q) # 0
  PROVE  \E g : Flattens(q, Len(q), g) /\ FlattenSeq(q) = g[Len(q)]
<1> DEFINE g == CHOOSE g : Flattens(q, Len(q), g)
<1>1. Flattens(q, Len(q), g)
  BY FlattensExists
<1>2. FlattenSeq(q) = g[Len(q)]
  BY DEF FlattenSeq, Flattens
<1> QED
  BY <1>1, <1>2

LEMMA FlattenTyped ==
  ASSUME NEW S, NEW q \in Texts(S)
  PROVE  FlattenSeq(q) \in Seq(S)
<1>0. Len(q) \in Nat /\ \A i \in 1..Len(q) : q[i] \in Seq(S)
  BY LenProperties, ElementOfSeq DEF Texts
<1>1. CASE Len(q) = 0
  <2>1. q = <<>>
    BY <1>1, EmptySeq DEF Texts
  <2>2. FlattenSeq(q) = q
    BY <1>1 DEF FlattenSeq
  <2> QED
    BY <2>1, <2>2, EmptySeq
<1>2. CASE Len(q) # 0
  <2>1. PICK g : Flattens(q, Len(q), g) /\ FlattenSeq(q) = g[Len(q)]
    BY <1>0, <1>2, FlattenIs
  <2>2. \A i \in 1..Len(q) : g[i] = IF i = 1 THEN q[i] ELSE g[i - 1] \o q[i]
    BY <2>1 DEF Flattens
  <2> DEFINE T == {i \in Nat : i \in 1..Len(q) => g[i] \in Seq(S)}
  <2>3. 0 \in T
    OBVIOUS
  <2>4. ASSUME NEW i \in Nat, i \in T PROVE i + 1 \in T
    <3> SUFFICES ASSUME i + 1 \in 1..Len(q) PROVE g[i + 1] \in Seq(S)
      OBVIOUS
    <3>1. q[i + 1] \in Seq(S)
      BY <1>0
    <3>2. CASE i = 0
      BY <3>1, <3>2, <2>2
    <3>3. CASE i # 0
      <4>1. i \in 1..Len(q) /\ g[i] \in Seq(S) /\ i + 1 # 1 /\ (i + 1) - 1 = i
        BY <1>0, <2>4, <3>3
      <4>2. g[i + 1] = g[i] \o q[i + 1]
        BY <4>1, <2>2
      <4> QED
        BY <4>1, <4>2, <3>1, ConcatProperties
    <3> QED
      BY <3>2, <3>3
  <2> HIDE DEF T
  <2>5. Nat \subseteq T
    BY <2>3, <2>4, NatSet
  <2>6. g[Len(q)] \in Seq(S)
    BY <2>5, <1>0, <1>2 DEF T
  <2> QED
    BY <2>1, <2>6
<1> QED
  BY <1>1, <1>2

LEMMA FlattenAppend ==
  ASSUME NEW S, NEW q \in Texts(S), NEW x \in Seq(S)
  PROVE  /\ Append(q, x) \in Texts(S)
         /\ FlattenSeq(Append(q, x)) = FlattenSeq(q) \o x
<1> DEFINE r == Append(q, x)  n == Len(q)
<1>1. /\ n \in Nat /\ r \in Texts(S) /\ Len(r) = n + 1
      /\ \A i \in 1..n : r[i] = q[i]
      /\ r[n + 1] = x
  BY AppendProperties, LenProperties DEF Texts
<1> HIDE DEF r, n
<1>2. PICK h : Flattens(r, n + 1, h) /\ FlattenSeq(r) = h[n + 1]
  <2>1. Len(r) \in Nat /\ Len(r) # 0
    BY <1>1
  <2>2. \E h : Flattens(r, Len(r), h) /\ FlattenSeq(r) = h[Len(r)]
    BY <2>1, FlattenIs
  <2> QED
    BY <2>2, <1>1
<1>3. \A i \in 1..(n + 1) : h[i] = IF i = 1 THEN r[i] ELSE h[i - 1] \o r[i]
  BY <1>2 DEF Flattens
<1>4. CASE n = 0
  <2>1. q = <<>> /\ FlattenSeq(q) = q
    BY <1>4, EmptySeq DEF FlattenSeq, Texts, n
  <2>2. FlattenSeq(r) = x
    BY <1>1, <1>2, <1>3, <1>4
  <2>3. FlattenSeq(q) \o x = x
    BY <2>1, ConcatEmptySeq
  <2> QED
    BY <1>1, <2>2, <2>3 DEF r
<1>5. CASE n # 0
  <2>1. PICK g : Flattens(q, n, g) /\ FlattenSeq(q) = g[n]
    BY <1>1, <1>5, FlattenIs DEF n
  <2>2. Agree(g, h, n)
    <3> DEFINE m == n + 1
    <3>1. m \in Nat /\ n \in Nat /\ n <= n /\ n <= m
      BY <1>1
    <3>2. Flattens(q, n, g) /\ Flattens(r, m, h)
      BY <1>2, <2>1
    <3>3. Agree(q, r, n)
      BY <1>1 DEF Agree
    <3> HIDE DEF m
    <3> QED
      BY <3>1, <3>2, <3>3, FlattensSame
  <2>3. h[n + 1] = h[n] \o r[n + 1] /\ g[n] = h[n]
    <3>1. n + 1 \in 1..(n + 1) /\ n + 1 # 1 /\ (n + 1) - 1 = n /\ n \in 1..n
      BY <1>1, <1>5
    <3> QED
      BY <3>1, <1>3, <2>2 DEF Agree
  <2> QED
    BY <1>1, <1>2, <2>1, <2>3 DEF r
<1> QED
  BY <1>4, <1>5

LEMMA FlattenOne ==
  ASSUME NEW S, NEW q \in Texts(S)
  PROVE  /\ Len(q) = 0 => FlattenSeq(q) = <<>>
         /\ Len(q) = 1 => FlattenSeq(q) = q[1]
<1>1. ASSUME Len(q) = 0 PROVE FlattenSeq(q) = <<>>
  BY <1>1, EmptySeq DEF FlattenSeq, Texts
<1>2. ASSUME Len(q) = 1 PROVE FlattenSeq(q) = q[1]
  <2>1. PICK g : Flattens(q, 1, g) /\ FlattenSeq(q) = g[1]
    <3>1. \E g : Flattens(q, Len(q), g) /\ FlattenSeq(q) = g[Len(q)]
      <4>1. Len(q) \in Nat /\ Len(q) # 0
        BY <1>2
      <4> QED
        BY <4>1, FlattenIs
    <3> QED
      BY <3>1, <1>2
  <2>2. \A i \in 1..1 : g[i] = IF i = 1 THEN q[i] ELSE g[i - 1] \o q[i]
    BY <2>1 DEF Flattens
  <2> QED
    BY <2>1, <2>2
<1> QED
  BY <1>1, <1>2

\* A sequence that is not empty is its front and its last.
LEMMA FrontLast ==
  ASSUME NEW S, NEW s \in Seq(S), s # <<>>
  PROVE  \E r \in Seq(S), x \in S : s = Append(r, x) /\ Len(s) = Len(r) + 1
<1>1. PICK r \in Seq(S), x \in S : s = Append(r, x)
  BY SequenceEmptyOrAppend
<1> QED
  BY <1>1, AppendProperties

LEMMA TailAppend ==
  ASSUME NEW S, NEW s \in Seq(S), s # <<>>, NEW x \in S
  PROVE  /\ Append(s, x) # <<>> /\ Head(Append(s, x)) = Head(s)
         /\ Tail(Append(s, x)) = Append(Tail(s), x)
BY HeadTailAppend, AppendProperties

LEMMA FlattenHead ==
  ASSUME NEW S, NEW q \in Texts(S), q # <<>>
  PROVE  /\ Head(q) \in Seq(S) /\ Tail(q) \in Texts(S)
         /\ FlattenSeq(q) = Head(q) \o FlattenSeq(Tail(q))
<1> DEFINE Splits(r) == FlattenSeq(r) = Head(r) \o FlattenSeq(Tail(r))
           N == {n \in Nat : \A r \in Texts(S) : Len(r) = n + 1 => Splits(r)}
<1>1. 0 \in N
  <2> SUFFICES ASSUME NEW r \in Texts(S), Len(r) = 1 PROVE Splits(r)
    OBVIOUS
  <2>1. r # <<>>
    BY EmptySeq
  <2>2. Head(r) = r[1] /\ Head(r) \in Seq(S) /\ Tail(r) \in Texts(S) /\ Len(Tail(r)) = 0
    BY <2>1, HeadTailProperties DEF Texts
  <2>3. FlattenSeq(r) = r[1] /\ FlattenSeq(Tail(r)) = <<>>
    BY <2>2, FlattenOne
  <2> QED
    BY <2>2, <2>3, ConcatEmptySeq
<1>2. ASSUME NEW n \in Nat, n \in N PROVE n + 1 \in N
  <2> SUFFICES ASSUME NEW r \in Texts(S), Len(r) = (n + 1) + 1 PROVE Splits(r)
    OBVIOUS
  <2>1. PICK s \in Texts(S), x \in Seq(S) : r = Append(s, x) /\ Len(s) = n + 1
    <3> DEFINE T == Seq(S)
    <3>1. r \in Seq(T) /\ r # <<>>
      BY EmptySeq DEF Texts
    <3>2. Texts(S) = Seq(T)
      BY DEF Texts
    <3> HIDE DEF T
    <3>3. PICK s \in Seq(T), x \in T : r = Append(s, x) /\ Len(r) = Len(s) + 1
      BY <3>1, FrontLast
    <3>4. Len(s) = n + 1
      BY <3>3, LenProperties
    <3> QED
      BY <3>2, <3>3, <3>4 DEF T
  <2>2. s # <<>>
    BY <2>1, EmptySeq
  <2>3. Head(s) \in Seq(S) /\ Tail(s) \in Texts(S)
    BY <2>2, HeadTailProperties DEF Texts
  <2>4. FlattenSeq(s) = Head(s) \o FlattenSeq(Tail(s))
    BY <1>2, <2>1
  <2>5. FlattenSeq(r) = FlattenSeq(s) \o x
    BY <2>1, FlattenAppend
  <2>6. Head(r) = Head(s) /\ Tail(r) = Append(Tail(s), x)
    BY <2>1, <2>2, TailAppend DEF Texts
  <2>7. FlattenSeq(Tail(r)) = FlattenSeq(Tail(s)) \o x
    BY <2>3, <2>6, FlattenAppend
  <2>8. FlattenSeq(Tail(s)) \in Seq(S)
    BY <2>3, FlattenTyped
  <2>9. (Head(s) \o FlattenSeq(Tail(s))) \o x = Head(s) \o (FlattenSeq(Tail(s)) \o x)
    <3> DEFINE a == Head(s)  b == FlattenSeq(Tail(s))
    <3>1. a \in Seq(S) /\ b \in Seq(S)
      BY <2>3, <2>8
    <3> HIDE DEF a, b
    <3>2. (a \o b) \o x = a \o (b \o x)
      BY <3>1, ConcatAssociative
    <3> QED
      BY <3>2 DEF a, b
  <2> QED
    BY <2>4, <2>5, <2>6, <2>7, <2>9
<1> HIDE DEF N
<1>3. Nat \subseteq N
  BY <1>1, <1>2, NatSet
<1>4. Len(q) \in Nat /\ Len(q) # 0
  BY EmptySeq DEF Texts
<1>5. Len(q) - 1 \in Nat /\ Len(q) = (Len(q) - 1) + 1
  BY <1>4
<1>6. Splits(q)
  BY <1>3, <1>5 DEF N
<1> QED
  BY <1>6, HeadTailProperties DEF Texts

(***************************************************************************)
(* What the decoder does with the bytes in front of it.                    *)
(***************************************************************************)
Bytes == Seq(Nat)
Rest(p, n) == SubSeq(p, n + 1, Len(p))

\* The bytes r begin with p.
Begins(p, r) == Len(p) =< Len(r) /\ \A i \in 1..Len(p) : r[i] = p[i]

\* The least of a set of naturals.
LEMMA Least ==
  ASSUME NEW S \in SUBSET Nat, S # {}
  PROVE  \E n \in S : \A m \in S : n =< m
<1>1. \E x \in S : \A y \in S : ~(<<y, x>> \in OpToRel(<, Nat))
  BY NatLessThanWellFounded, WFMin
<1>2. PICK x \in S : \A y \in S : ~(y < x)
  BY <1>1 DEF OpToRel
<1> QED
  BY <1>2

LEMMA BytesAre ==
  ASSUME NEW p \in Bytes
  PROVE  /\ Len(p) \in Nat /\ DOMAIN p = 1..Len(p)
         /\ \A i \in 1..Len(p) : p[i] \in Nat
         /\ Len(p) = 0 <=> p = <<>>
BY LenProperties, ElementOfSeq, EmptySeq DEF Bytes

\* A part of the bytes.
LEMMA PartIs ==
  ASSUME NEW p \in Bytes, NEW m \in Nat \ {0}, NEW n \in Nat, n =< Len(p), m =< n + 1
  PROVE  /\ SubSeq(p, m, n) \in Bytes /\ Len(SubSeq(p, m, n)) = n - m + 1
         /\ \A i \in 1..(n - m + 1) : SubSeq(p, m, n)[i] = p[m + i - 1]
<1>1. \A i \in m..n : p[i] \in Nat
  BY BytesAre
<1>2. /\ SubSeq(p, m, n) \in Seq(Nat)
      /\ Len(SubSeq(p, m, n)) = IF m <= n THEN n - m + 1 ELSE 0
      /\ \A i \in 1..(n - m + 1) : SubSeq(p, m, n)[i] = p[m + i - 1]
  BY <1>1, SubSeqProperties
<1> QED
  BY <1>2 DEF Bytes

LEMMA RestIs ==
  ASSUME NEW p \in Bytes, NEW n \in 0..Len(p)
  PROVE  /\ Rest(p, n) \in Bytes /\ Len(Rest(p, n)) = Len(p) - n
         /\ \A i \in 1..(Len(p) - n) : Rest(p, n)[i] = p[n + i]
<1>1. Len(p) \in Nat /\ n + 1 \in Nat \ {0} /\ Len(p) =< Len(p) /\ n + 1 =< Len(p) + 1
  BY BytesAre
<1>2. /\ SubSeq(p, n + 1, Len(p)) \in Bytes /\ Len(SubSeq(p, n + 1, Len(p))) = Len(p) - (n + 1) + 1
      /\ \A i \in 1..(Len(p) - (n + 1) + 1) : SubSeq(p, n + 1, Len(p))[i] = p[n + 1 + i - 1]
  BY <1>1, PartIs
<1> QED
  BY <1>1, <1>2 DEF Rest

LEMMA SameBytes ==
  ASSUME NEW p \in Bytes, NEW r \in Bytes, Len(p) = Len(r), \A i \in 1..Len(p) : p[i] = r[i]
  PROVE  p = r
BY SeqEqual DEF Bytes

LEMMA RestOfRest ==
  ASSUME NEW p \in Bytes, NEW m \in Nat, NEW n \in Nat, m + n =< Len(p)
  PROVE  Rest(Rest(p, m), n) = Rest(p, m + n)
<1>1. m \in 0..Len(p) /\ m + n \in 0..Len(p) /\ Len(p) \in Nat
  BY BytesAre
<1>2. /\ Rest(p, m) \in Bytes /\ Len(Rest(p, m)) = Len(p) - m
      /\ \A i \in 1..(Len(p) - m) : Rest(p, m)[i] = p[m + i]
  BY <1>1, RestIs
<1>3. /\ Rest(p, m + n) \in Bytes /\ Len(Rest(p, m + n)) = Len(p) - (m + n)
      /\ \A i \in 1..(Len(p) - (m + n)) : Rest(p, m + n)[i] = p[m + n + i]
  BY <1>1, RestIs
<1> DEFINE u == Rest(p, m)  v == Rest(p, m + n)
<1>4. n \in 0..Len(u) /\ Len(u) = Len(p) - m
  BY <1>1, <1>2
<1> HIDE DEF u, v
<1>5. /\ Rest(u, n) \in Bytes /\ Len(Rest(u, n)) = Len(u) - n
      /\ \A i \in 1..(Len(u) - n) : Rest(u, n)[i] = u[n + i]
  BY <1>2, <1>4, RestIs DEF u
<1>6. \A i \in 1..Len(v) : Rest(u, n)[i] = v[i]
  <2> TAKE i \in 1..Len(v)
  <2>1. i \in 1..(Len(u) - n) /\ n + i \in 1..(Len(p) - m) /\ i \in 1..(Len(p) - (m + n))
    BY <1>1, <1>3, <1>4 DEF v
  <2>2. Rest(u, n)[i] = u[n + i] /\ u[n + i] = p[m + (n + i)] /\ v[i] = p[m + n + i]
    BY <2>1, <1>2, <1>3, <1>5 DEF u, v
  <2> QED
    BY <2>1, <2>2
<1>7. Len(Rest(u, n)) = Len(v)
  BY <1>1, <1>3, <1>4, <1>5 DEF v
<1>8. Rest(u, n) = v
  BY <1>3, <1>5, <1>6, <1>7, SameBytes DEF v
<1> QED
  BY <1>8 DEF u, v

\* The end of a sentence.
LEMMA LineIs ==
  ASSUME NEW p \in Bytes, p # <<>>
  PROVE  LET n == LineBytes(p) IN
           /\ n \in 1..Len(p) /\ LineEnds(p, n) /\ n =< MaxLine
           /\ \A m \in 1..(n - 1) : ~LineEnds(p, m)
<1> DEFINE S == {n \in 1..Len(p) : LineEnds(p, n)}
<1>1. Len(p) \in Nat \ {0}
  BY BytesAre
<1>2. Len(p) \in S
  BY <1>1 DEF LineEnds
<1>3. PICK n \in S : \A m \in S : n =< m
  <2>1. S \in SUBSET Nat /\ S # {}
    BY <1>1, <1>2
  <2> HIDE DEF S
  <2> QED
    BY <2>1, Least
<1>4. n \in 1..Len(p) /\ LineEnds(p, n) /\ \A m \in 1..(n - 1) : ~LineEnds(p, m)
  BY <1>1, <1>3
<1>5. LineBytes(p) \in 1..Len(p) /\ LineEnds(p, LineBytes(p)) /\ \A m \in 1..(LineBytes(p) - 1) : ~LineEnds(p, m)
  BY <1>4 DEF LineBytes
<1>6. LineBytes(p) =< MaxLine
  <2> SUFFICES ASSUME MaxLine < LineBytes(p) PROVE FALSE
    BY <1>1, <1>5, SealedAssumption
  <2>1. MaxLine \in 1..(LineBytes(p) - 1)
    BY <1>1, <1>5, SealedAssumption
  <2>2. LineEnds(p, MaxLine)
    BY DEF LineEnds
  <2> QED
    BY <2>1, <2>2, <1>5
<1> QED
  BY <1>5, <1>6

LEMMA LineUnique ==
  ASSUME NEW p \in Bytes, NEW n \in 1..Len(p), LineEnds(p, n), \A m \in 1..(n - 1) : ~LineEnds(p, m)
  PROVE  LineBytes(p) = n
<1>1. p # <<>> /\ Len(p) \in Nat
  BY BytesAre
<1> DEFINE k == LineBytes(p)
<1>2. k \in 1..Len(p) /\ LineEnds(p, k) /\ \A m \in 1..(k - 1) : ~LineEnds(p, m)
  BY <1>1, LineIs
<1> HIDE DEF k
<1>3. ~(k < n) /\ ~(n < k)
  BY <1>1, <1>2
<1>4. k = n
  BY <1>1, <1>2, <1>3
<1> QED
  BY <1>4 DEF k

\* The length that a binary frame declares.
LEMMA FrameBytesIs ==
  ASSUME NEW p \in Bytes, Len(p) >= HeaderBytes(p)
  PROVE  FrameBytes(p) \in Nat
<1>1. CASE IsRtcm(p)
  <2>1. p[2] \in Nat /\ p[3] \in Nat
    BY <1>1, BytesAre DEF HeaderBytes
  <2> QED
    BY <1>1, <2>1 DEF FrameBytes
<1>2. CASE ~IsRtcm(p)
  <2>1. \A i \in 1..8 : p[i] \in Nat
    BY <1>2, BytesAre DEF HeaderBytes
  <2>2. \A a, b \in Nat : 8 + a + 256 * b \in Nat /\ a + 256 * b \in Nat
    OBVIOUS
  <2>3. p[5] \in Nat /\ p[6] \in Nat /\ p[7] \in Nat /\ p[8] \in Nat
    BY <2>1
  <2>4. 8 + p[5] + 256 * p[6] \in Nat /\ p[7] + 256 * p[8] \in Nat
    <3> DEFINE a == p[5]  b == p[6]  c == p[7]  d == p[8]
    <3>1. a \in Nat /\ b \in Nat /\ c \in Nat /\ d \in Nat
      BY <2>3
    <3> HIDE DEF a, b, c, d
    <3>2. 8 + a + 256 * b \in Nat /\ c + 256 * d \in Nat
      BY <2>2, <3>1
    <3> QED
      BY <3>2 DEF a, b, c, d
  <2>5. FrameBytes(p) = IF IsUbx(p) THEN 8 + p[5] + 256 * p[6] ELSE p[7] + 256 * p[8]
    BY <1>2 DEF FrameBytes
  <2> QED
    BY <2>4, <2>5, Zenon
<1> QED
  BY <1>1, <1>2

Kinds == {"wait", "noise", "invalid", "frame"}

\* A step that does not wait takes a byte at least, and no more than there are.
LEMMA StepTakes ==
  ASSUME NEW p \in Bytes, p # <<>>
  PROVE  /\ Step(p).kind \in Kinds
         /\ Step(p).kind # "wait" => Step(p).take \in 1..Len(p)
         /\ Step(p).kind = "frame" => SubSeq(p, 1, Step(p).take) \in Sealed
<1> DEFINE Good(s) == /\ s.kind \in Kinds
                      /\ s.kind # "wait" => s.take \in 1..Len(p)
                      /\ s.kind = "frame" => SubSeq(p, 1, s.take) \in Sealed
<1>1. Len(p) \in Nat \ {0}
  BY BytesAre
<1>2. Good(Wait) /\ Good(Noise) /\ Good(Invalid(1))
  BY <1>1 DEF Wait, Noise, Invalid, Kinds
<1>3. ASSUME NEW n \in 1..Len(p), ChecksumHolds(SubSeq(p, 1, n)) PROVE Good(Found(n))
  BY <1>3 DEF Found, Kinds, ChecksumHolds
<1>4. ASSUME NEW n \in 1..Len(p) PROVE Good(Invalid(n))
  BY DEF Invalid, Kinds
<1> HIDE DEF Good
<1>5. Good(Sentence(p))
  <2> DEFINE n == LineBytes(p)
  <2>1. n \in 1..Len(p)
    BY LineIs
  <2> HIDE DEF n
  <2>2. CASE n + 2 =< Len(p) /\ ChecksumHolds(SubSeq(p, 1, n + 2))
    <3>1. n + 2 \in 1..Len(p)
      BY <2>1, <2>2, <1>1
    <3>2. Good(Found(n + 2))
      BY <3>1, <2>2, <1>3
    <3> QED
      BY <3>2, <2>2, <1>2 DEF Sentence, n
  <2>3. CASE ~(n + 2 =< Len(p) /\ ChecksumHolds(SubSeq(p, 1, n + 2)))
    BY <2>3, <1>2 DEF Sentence, n
  <2> QED
    BY <2>2, <2>3
<1>6. Good(Binary(p))
  <2> DEFINE n == FrameBytes(p)
             short == IF IsRtcm(p) THEN 6 ELSE 8
  <2>1. CASE Len(p) < HeaderBytes(p)
    BY <2>1, <1>2 DEF Binary
  <2>2. CASE ~(Len(p) < HeaderBytes(p))
    <3>1. n \in Nat
      BY <2>2, <1>1, FrameBytesIs DEF HeaderBytes
    <3>2. short \in {6, 8}
      OBVIOUS
    <3> DEFINE bad == n < short \/ (IsSbf(p) /\ n % 4 # 0)
    <3>3. Binary(p) = IF bad THEN Invalid(1)
                      ELSE IF Len(p) < n THEN Wait
                      ELSE IF ~ChecksumHolds(SubSeq(p, 1, n)) THEN Invalid(1)
                      ELSE IF IsRtcm(p) /\ n = 7 THEN Invalid(n)
                      ELSE Found(n)
      BY <2>2 DEF Binary
    <3> HIDE DEF n
    <3>4. ASSUME ~bad, ~(Len(p) < n) PROVE n \in 1..Len(p)
      BY <3>1, <3>2, <3>4, <1>1
    <3> HIDE DEF bad, short
    <3>5. CASE bad
      BY <3>3, <3>5, <1>2
    <3>6. CASE ~bad /\ Len(p) < n
      BY <3>3, <3>6, <1>2
    <3>7. CASE ~bad /\ ~(Len(p) < n) /\ ~ChecksumHolds(SubSeq(p, 1, n))
      BY <3>3, <3>7, <1>2
    <3>8. CASE ~bad /\ ~(Len(p) < n) /\ ChecksumHolds(SubSeq(p, 1, n))
      <4>1. Good(Invalid(n)) /\ Good(Found(n))
        BY <3>4, <3>8, <1>3, <1>4
      <4> QED
        BY <4>1, <3>3, <3>8
    <3> QED
      BY <3>5, <3>6, <3>7, <3>8
  <2> QED
    BY <2>1, <2>2
<1>7. Good(Step(p))
  BY <1>2, <1>5, <1>6 DEF Step
<1> QED
  BY <1>7 DEF Good

\* No sentence is as long as the bound: the one case in which the decoder
\* judges a sentence before it has seen its end (LineOpen).
NoLongestLine == \A f \in Sealed : IsText(f) => Len(f) # MaxLine + 2

\* What a step does is not changed by the bytes that come later.
LEMMA SentenceStable ==
  ASSUME NoLongestLine, NEW p \in Bytes, NEW r \in Bytes, Begins(p, r),
         Len(p) >= 2, IsText(p), IsText(r), Sentence(p).kind # "wait"
  PROVE  Sentence(r) = Sentence(p)
<1> DEFINE n == LineBytes(p)
<1>1. /\ Len(p) \in Nat /\ Len(r) \in Nat /\ Len(p) =< Len(r) /\ p # <<>>
      /\ \A i \in 1..Len(p) : r[i] = p[i]
  BY BytesAre DEF Begins
<1>2. n \in 1..Len(p) /\ LineEnds(p, n) /\ n =< MaxLine /\ \A m \in 1..(n - 1) : ~LineEnds(p, m)
  BY <1>1, LineIs
<1>3. ~LineOpen(p, n)
  BY DEF Sentence, Wait
<1> HIDE DEF n
<1>4. LineEnds(r, n)
  <2>1. CASE n = Len(p)
    <3>1. n = MaxLine
      BY <1>2, <1>3, <2>1, SealedAssumption DEF LineOpen
    <3> QED
      BY <3>1 DEF LineEnds
  <2>2. CASE n # Len(p)
    <3>1. n + 1 \in 1..Len(p)
      BY <1>1, <1>2, <2>2
    <3>2. r[n + 1] = p[n + 1]
      BY <1>1, <3>1
    <3>3. n = MaxLine \/ p[n + 1] \notin (32..126) \ {36, 33}
      BY <1>2, <2>2 DEF LineEnds
    <3> QED
      BY <3>2, <3>3 DEF LineEnds
  <2> QED
    BY <2>1, <2>2
<1>5. ASSUME NEW m \in 1..(n - 1) PROVE ~LineEnds(r, m)
  <2>1. m + 1 \in 1..Len(p) /\ r[m + 1] = p[m + 1] /\ m < n /\ m # Len(r)
    BY <1>1, <1>2
  <2>2. ~LineEnds(p, m)
    BY <1>2
  <2> QED
    BY <2>1, <2>2 DEF LineEnds
<1>6. LineBytes(r) = n
  <2>1. n \in 1..Len(r)
    BY <1>1, <1>2
  <2> QED
    BY <2>1, <1>4, <1>5, LineUnique
<1>7. ~LineOpen(r, n)
  BY <1>1, <1>2, <1>3, SealedAssumption DEF LineOpen
<1> DEFINE seals(q) == n + 2 =< Len(q) /\ ChecksumHolds(SubSeq(q, 1, n + 2))
<1>8. /\ Sentence(p) = IF seals(p) THEN Found(n + 2) ELSE Invalid(1)
      /\ Sentence(r) = IF seals(r) THEN Found(n + 2) ELSE Invalid(1)
  BY <1>3, <1>6, <1>7 DEF Sentence, n
<1>9. CASE n + 2 =< Len(p)
  <2> DEFINE u == SubSeq(p, 1, n + 2)  v == SubSeq(r, 1, n + 2)
  <2>1. 1 \in Nat \ {0} /\ n + 2 \in Nat /\ n + 2 =< Len(r) /\ 1 =< (n + 2) + 1 /\ n \in Nat
    BY <1>1, <1>2, <1>9
  <2>2. /\ u \in Bytes /\ Len(u) = (n + 2) - 1 + 1
        /\ \A i \in 1..((n + 2) - 1 + 1) : u[i] = p[1 + i - 1]
    BY <2>1, <1>9, PartIs
  <2>3. /\ v \in Bytes /\ Len(v) = (n + 2) - 1 + 1
        /\ \A i \in 1..((n + 2) - 1 + 1) : v[i] = r[1 + i - 1]
    BY <2>1, PartIs
  <2> HIDE DEF u, v
  <2>4. \A i \in 1..Len(u) : u[i] = v[i]
    BY <2>1, <2>2, <2>3, <1>1, <1>9
  <2>5. u = v
    BY <2>2, <2>3, <2>4, SameBytes
  <2>6. seals(p) <=> seals(r)
    BY <2>1, <2>5, <1>9 DEF u, v
  <2> QED
    BY <2>6, <1>8
<1>10. CASE ~(n + 2 =< Len(p))
  <2>1. ~seals(p)
    BY <1>10
  <2>2. ASSUME seals(r) PROVE FALSE
    <3> DEFINE f == SubSeq(r, 1, n + 2)
    <3>1. 1 \in Nat \ {0} /\ n + 2 \in Nat /\ n + 2 =< Len(r) /\ 1 =< (n + 2) + 1 /\ n \in Nat
      BY <1>1, <1>2, <2>2
    <3>2. /\ Len(f) = (n + 2) - 1 + 1
          /\ \A i \in 1..((n + 2) - 1 + 1) : f[i] = r[1 + i - 1]
      BY <3>1, PartIs
    <3>3. f \in Sealed
      BY <2>2 DEF ChecksumHolds
    <3> HIDE DEF f
    <3>4. Len(f) = n + 2 /\ f[1] = r[1] /\ f[2] = r[2] /\ f[n + 1] = r[n + 1] /\ (n + 2) - 1 = n + 1
      BY <3>1, <3>2, <1>2
    <3>5. IsText(f)
      BY <3>4 DEF IsText, IsSbf
    <3>6. f[n + 1] = CR /\ n + 2 # MaxLine + 2
      BY <3>3, <3>4, <3>5, SealedAssumption DEF NoLongestLine
    <3>7. n < MaxLine
      BY <3>1, <3>6, <1>2, SealedAssumption
    <3>8. n = Len(p) \/ n + 1 = Len(p)
      BY <1>1, <1>2, <1>10
    <3>9. n + 1 = Len(p) => p[n + 1] = CR
      <4> SUFFICES ASSUME n + 1 = Len(p) PROVE p[n + 1] = CR
        OBVIOUS
      <4>1. n + 1 \in 1..Len(p)
        BY <1>2, <3>1
      <4>2. r[n + 1] = p[n + 1]
        BY <1>1, <4>1
      <4> QED
        BY <4>2, <3>4, <3>6
    <3> QED
      BY <3>7, <3>8, <3>9, <1>3 DEF LineOpen
  <2> QED
    BY <2>1, <2>2, <1>8
<1> QED
  BY <1>9, <1>10

LEMMA BinaryStable ==
  ASSUME NEW p \in Bytes, NEW r \in Bytes, Begins(p, r),
         Len(p) >= 2, Binary(p).kind # "wait"
  PROVE  Binary(r) = Binary(p)
<1>1. /\ Len(p) \in Nat /\ Len(r) \in Nat /\ Len(p) =< Len(r)
      /\ \A i \in 1..Len(p) : r[i] = p[i]
  BY BytesAre DEF Begins
<1>2. ~(Len(p) < HeaderBytes(p))
  BY DEF Binary, Wait
<1>3. r[1] = p[1] /\ r[2] = p[2]
  BY <1>1
<1>4. (IsRtcm(r) <=> IsRtcm(p)) /\ (IsUbx(r) <=> IsUbx(p)) /\ (IsSbf(r) <=> IsSbf(p))
  BY <1>3 DEF IsRtcm, IsUbx, IsSbf
<1>5. HeaderBytes(r) = HeaderBytes(p) /\ ~(Len(r) < HeaderBytes(r))
  BY <1>1, <1>2, <1>4 DEF HeaderBytes
<1>6. FrameBytes(r) = FrameBytes(p)
  <2>1. CASE IsRtcm(p)
    <3>1. r[3] = p[3]
      BY <1>1, <1>2, <2>1 DEF HeaderBytes
    <3> QED
      BY <2>1, <3>1, <1>3, <1>4 DEF FrameBytes
  <2>2. CASE ~IsRtcm(p)
    <3>1. r[5] = p[5] /\ r[6] = p[6] /\ r[7] = p[7] /\ r[8] = p[8]
      BY <1>1, <1>2, <2>2 DEF HeaderBytes
    <3> QED
      BY <2>2, <3>1, <1>4 DEF FrameBytes
  <2> QED
    BY <2>1, <2>2
<1> DEFINE n == FrameBytes(p)
           bad == n < (IF IsRtcm(p) THEN 6 ELSE 8) \/ (IsSbf(p) /\ n % 4 # 0)
<1>7. n \in Nat
  BY <1>1, <1>2, FrameBytesIs DEF HeaderBytes
<1>8. Binary(p) = IF bad THEN Invalid(1)
                  ELSE IF Len(p) < n THEN Wait
                  ELSE IF ~ChecksumHolds(SubSeq(p, 1, n)) THEN Invalid(1)
                  ELSE IF IsRtcm(p) /\ n = 7 THEN Invalid(n)
                  ELSE Found(n)
  BY <1>2 DEF Binary
<1>9. Binary(r) = IF bad THEN Invalid(1)
                  ELSE IF Len(r) < n THEN Wait
                  ELSE IF ~ChecksumHolds(SubSeq(r, 1, n)) THEN Invalid(1)
                  ELSE IF IsRtcm(p) /\ n = 7 THEN Invalid(n)
                  ELSE Found(n)
  BY <1>4, <1>5, <1>6 DEF Binary
<1> HIDE DEF n, bad
<1>10. CASE bad
  BY <1>8, <1>9, <1>10
<1>11. CASE ~bad
  <2>1. ~(Len(p) < n)
    BY <1>8, <1>11 DEF Wait
  <2>2. n =< Len(p) /\ n =< Len(r) /\ ~(Len(r) < n)
    BY <1>1, <1>7, <2>1
  <2> DEFINE u == SubSeq(p, 1, n)  v == SubSeq(r, 1, n)
  <2>3. 1 \in Nat \ {0} /\ 1 =< n + 1
    BY <1>7
  <2>4. u \in Bytes /\ Len(u) = n - 1 + 1 /\ \A i \in 1..(n - 1 + 1) : u[i] = p[1 + i - 1]
    BY <1>7, <2>2, <2>3, PartIs
  <2>5. v \in Bytes /\ Len(v) = n - 1 + 1 /\ \A i \in 1..(n - 1 + 1) : v[i] = r[1 + i - 1]
    BY <1>7, <2>2, <2>3, PartIs
  <2> HIDE DEF u, v
  <2>6. \A i \in 1..Len(u) : u[i] = v[i]
    BY <1>1, <1>7, <2>2, <2>4, <2>5
  <2>7. u = v
    BY <2>4, <2>5, <2>6, SameBytes
  <2> DEFINE judged(w) == IF ~ChecksumHolds(w) THEN Invalid(1)
                          ELSE IF IsRtcm(p) /\ n = 7 THEN Invalid(n)
                          ELSE Found(n)
  <2>8. Binary(p) = judged(u)
    BY <1>8, <1>11, <2>1 DEF u
  <2>9. Binary(r) = judged(v)
    BY <1>9, <1>11, <2>2 DEF v
  <2> HIDE DEF judged
  <2> QED
    BY <2>7, <2>8, <2>9
<1> QED
  BY <1>10, <1>11

LEMMA StepStable ==
  ASSUME NoLongestLine, NEW p \in Bytes, NEW r \in Bytes, Begins(p, r),
         p # <<>>, Step(p).kind # "wait"
  PROVE  Step(r) = Step(p)
<1>1. /\ Len(p) \in Nat \ {0} /\ Len(r) \in Nat /\ Len(p) =< Len(r)
      /\ \A i \in 1..Len(p) : r[i] = p[i]
  BY BytesAre DEF Begins
<1>2. r[1] = p[1]
  BY <1>1
<1>3. CASE Len(p) = 1
  <2>1. p[1] \notin Syncs /\ Step(p) = Noise
    BY <1>3 DEF Step, Wait
  <2>2. ~IsText(r) /\ ~IsUbx(r) /\ ~IsSbf(r) /\ ~IsRtcm(r)
    BY <1>2, <2>1 DEF IsText, IsUbx, IsSbf, IsRtcm, Syncs
  <2>3. Step(r) = Noise
    BY <1>2, <2>1, <2>2 DEF Step
  <2> QED
    BY <2>1, <2>3
<1>4. CASE Len(p) # 1
  <2>a. Len(p) \in Nat /\ Len(r) \in Nat /\ Len(p) # 0 /\ Len(p) # 1 /\ Len(p) =< Len(r)
    BY <1>1, <1>4
  <2>0. Len(p) >= 2 /\ 2 \in 1..Len(p) /\ Len(r) # 1
    BY <2>a
  <2>1. Len(p) >= 2 /\ Len(r) # 1 /\ r[2] = p[2]
    BY <2>0, <1>1
  <2>2. /\ IsText(r) <=> IsText(p)
        /\ IsUbx(r) <=> IsUbx(p)
        /\ IsSbf(r) <=> IsSbf(p)
        /\ IsRtcm(r) <=> IsRtcm(p)
    BY <1>2, <2>1 DEF IsText, IsUbx, IsSbf, IsRtcm
  <2>3. CASE IsText(p)
    <3>1. Step(p) = Sentence(p) /\ Step(r) = Sentence(r)
      BY <1>4, <2>1, <2>2, <2>3 DEF Step
    <3>2. Sentence(r) = Sentence(p)
      BY <3>1, <2>1, <2>2, <2>3, SentenceStable
    <3> QED
      BY <3>1, <3>2
  <2>4. CASE ~IsText(p) /\ (IsUbx(p) \/ IsSbf(p) \/ IsRtcm(p))
    <3>1. Step(p) = Binary(p) /\ Step(r) = Binary(r)
      BY <1>4, <2>1, <2>2, <2>4 DEF Step
    <3>2. Binary(r) = Binary(p)
      BY <3>1, <2>1, BinaryStable
    <3> QED
      BY <3>1, <3>2
  <2>5. CASE ~IsText(p) /\ ~(IsUbx(p) \/ IsSbf(p) \/ IsRtcm(p))
    BY <1>4, <2>1, <2>2, <2>5 DEF Step
  <2> QED
    BY <2>3, <2>4, <2>5
<1> QED
  BY <1>3, <1>4

(***************************************************************************)
(* feed(): the recursion of Decoded, and what a cut into chunks does to it.*)
(***************************************************************************)
Act(p) == IF p = <<>> THEN Wait ELSE Step(p)

\* The outcome at p, when its step is s and the bytes behind it decode to rest.
Joined(s, p, rest) ==
  IF s.kind = "wait" THEN [frames |-> <<>>, pending |-> p]
  ELSE IF s.kind # "frame" THEN rest
  ELSE [rest EXCEPT !.frames = <<SubSeq(p, 1, s.take)>> \o @]

Scanned(bytes, g, place) ==
  Joined(Act(Rest(bytes, place)), Rest(bytes, place), g[place + Act(Rest(bytes, place)).take])

Scans(bytes, g) == g = [place \in 0..Len(bytes) |-> Scanned(bytes, g, place)]

\* Induction over the length of the bytes.
LEMMA BytesSet ==
  ASSUME NEW S, \A p \in Bytes : (\A r \in Bytes : Len(r) < Len(p) => r \in S) => p \in S
  PROVE  Bytes \subseteq S
<1> DEFINE N == {n \in Nat : \A p \in Bytes : Len(p) < n => p \in S}
<1>1. 0 \in N
  BY BytesAre
<1>2. ASSUME NEW n \in Nat, n \in N PROVE n + 1 \in N
  <2> SUFFICES ASSUME NEW p \in Bytes, Len(p) < n + 1 PROVE p \in S
    OBVIOUS
  <2>1. ASSUME NEW r \in Bytes, Len(r) < Len(p) PROVE r \in S
    <3>1. Len(r) \in Nat /\ Len(p) \in Nat
      BY BytesAre
    <3>2. Len(r) < n
      BY <3>1, <2>1
    <3> QED
      BY <3>2, <1>2
  <2> QED
    BY <2>1
<1> HIDE DEF N
<1>3. Nat \subseteq N
  BY <1>1, <1>2, NatSet
<1>4. ASSUME NEW p \in Bytes PROVE p \in S
  <2>1. Len(p) \in Nat /\ Len(p) + 1 \in Nat /\ Len(p) < Len(p) + 1
    BY BytesAre
  <2>2. Len(p) + 1 \in N
    BY <2>1, <1>3
  <2> QED
    BY <2>1, <2>2 DEF N
<1> QED
  BY <1>4

LEMMA ActTakes ==
  ASSUME NEW bytes \in Bytes, NEW place \in 0..Len(bytes)
  PROVE  LET p == Rest(bytes, place)  s == Act(p) IN
           /\ p \in Bytes /\ Len(p) = Len(bytes) - place /\ (p = <<>> <=> place = Len(bytes))
           /\ s = IF place = Len(bytes) THEN Wait ELSE Step(p)
           /\ s.kind # "wait" => /\ s.take \in 1..Len(p)
                                 /\ s.take \in Nat \ {0}
                                 /\ place + s.take \in 1..Len(bytes)
                                 /\ Rest(p, s.take) = Rest(bytes, place + s.take)
<1> DEFINE p == Rest(bytes, place)  s == Act(p)
<1>1. Len(bytes) \in Nat /\ p \in Bytes /\ Len(p) = Len(bytes) - place
  BY BytesAre, RestIs
<1>2. p = <<>> <=> place = Len(bytes)
  BY <1>1, BytesAre
<1>3. s = IF place = Len(bytes) THEN Wait ELSE Step(p)
  BY <1>2 DEF Act
<1>4. ASSUME s.kind # "wait"
      PROVE  /\ s.take \in 1..Len(p) /\ s.take \in Nat \ {0}
             /\ place + s.take \in 1..Len(bytes)
             /\ Rest(p, s.take) = Rest(bytes, place + s.take)
  <2>1. p # <<>> /\ s = Step(p)
    BY <1>4 DEF Act, Wait
  <2>2. s.take \in 1..Len(p)
    BY <1>1, <1>4, <2>1, StepTakes
  <2> DEFINE t == s.take
  <2> HIDE DEF s, p
  <2>3. t \in Nat \ {0} /\ place + t \in 1..Len(bytes) /\ place + t =< Len(bytes) /\ place \in Nat
    BY <1>1, <2>2
  <2> HIDE DEF t
  <2>4. Rest(Rest(bytes, place), t) = Rest(bytes, place + t)
    BY <2>3, RestOfRest
  <2> QED
    BY <2>2, <2>3, <2>4 DEF p, t
<1> QED
  BY <1>1, <1>2, <1>3, <1>4

LEMMA ScansExists ==
  ASSUME NEW bytes \in Bytes
  PROVE  \E g : Scans(bytes, g)
<1> DEFINE S == {p \in Bytes : \E g : Scans(p, g)}
<1>1. ASSUME NEW p \in Bytes, \A r \in Bytes : Len(r) < Len(p) => r \in S
      PROVE  p \in S
  <2>0. Len(p) \in Nat /\ 0 \in 0..Len(p)
    BY BytesAre
  <2>1. CASE Len(p) = 0
    <3> DEFINE x == Joined(Wait, Rest(p, 0), 0)
               g == [place \in 0..Len(p) |-> x]
    <3>1. Act(Rest(p, 0)) = Wait
      BY <2>0, <2>1, ActTakes
    <3>2. \A place \in 0..Len(p) : place = 0
      BY <2>1
    <3>3. Scanned(p, g, 0) = x
      BY <3>1 DEF Scanned, Joined, Wait
    <3>4. g = [place \in 0..Len(p) |-> Scanned(p, g, place)]
      <4>1. \A place \in 0..Len(p) : Scanned(p, g, place) = x
        BY <3>2, <3>3
      <4> QED
        BY <4>1
    <3> QED
      BY <3>4 DEF Scans
  <2>2. CASE Len(p) # 0
    <3> DEFINE r == Rest(p, 1)  n == Len(p)
    <3>1. n \in Nat \ {0} /\ 1 \in 0..n /\ 1 \in Nat
      BY <2>0, <2>2
    <3>2. r \in Bytes /\ Len(r) = n - 1
      BY <3>1, RestIs
    <3> HIDE DEF r, n
    <3>3. r \in S
      BY <1>1, <3>1, <3>2 DEF n
    <3>4. PICK h : Scans(r, h)
      BY <3>3
    <3>5. \A place \in 0..(n - 1) : h[place] = Scanned(r, h, place)
      BY <3>2, <3>4 DEF Scans
    <3>6. ASSUME NEW place \in 1..n
          PROVE  place - 1 \in 0..(n - 1) /\ Rest(r, place - 1) = Rest(p, place)
      <4>1. place - 1 \in Nat /\ 1 + (place - 1) =< Len(p) /\ 1 + (place - 1) = place
        BY <3>1 DEF n
      <4>2. Rest(Rest(p, 1), place - 1) = Rest(p, 1 + (place - 1))
        BY <4>1, RestOfRest
      <4> QED
        BY <3>1, <4>1, <4>2 DEF r
    <3> DEFINE first == Joined(Act(Rest(p, 0)), Rest(p, 0), h[Act(Rest(p, 0)).take - 1])
               g == [place \in 0..n |-> IF place = 0 THEN first ELSE h[place - 1]]
    <3>7. ASSUME NEW place \in 0..n
          PROVE  g[place] = Scanned(p, g, place)
      <4> DEFINE s == Act(Rest(p, place))
      <4>1. s.kind # "wait" => /\ s.take \in Nat \ {0}
                               /\ place + s.take \in 1..n
        BY ActTakes DEF n
      <4>2. s.kind # "wait" => g[place + s.take] = h[place + s.take - 1]
        BY <3>1, <4>1
      <4>3. CASE place = 0
        <5>1. s.kind # "wait" => g[place + s.take] = h[s.take - 1]
          BY <4>1, <4>2, <4>3
        <5>2. g[place] = first
          BY <4>3
        <5> HIDE DEF g
        <5> QED
          BY <4>3, <5>1, <5>2 DEF Scanned, Joined
      <4>4. CASE place # 0
        <5>1. place \in 1..n /\ g[place] = h[place - 1]
          BY <3>1, <4>4
        <5>2. place - 1 \in 0..(n - 1) /\ Rest(r, place - 1) = Rest(p, place)
          BY <5>1, <3>6
        <5>3. h[place - 1] = Scanned(r, h, place - 1)
          BY <5>2, <3>5
        <5>4. h[place - 1] = Joined(s, Rest(p, place), h[place - 1 + s.take])
          BY <5>2, <5>3 DEF Scanned
        <5>5. s.kind # "wait" => place - 1 + s.take = place + s.take - 1
          BY <4>1
        <5> HIDE DEF g
        <5>6. s.kind # "wait" => h[place - 1 + s.take] = g[place + s.take]
          BY <4>2, <5>5
        <5> QED
          BY <5>1, <5>4, <5>6 DEF Scanned, Joined
      <4> QED
        BY <4>3, <4>4
    <3>8. g = [place \in 0..n |-> g[place]]
      OBVIOUS
    <3> HIDE DEF g
    <3>9. g = [place \in 0..n |-> Scanned(p, g, place)]
      BY <3>7, <3>8
    <3> QED
      BY <3>9 DEF Scans, n
  <2> QED
    BY <2>1, <2>2
<1> HIDE DEF S
<1>2. Bytes \subseteq S
  BY <1>1, BytesSet
<1> QED
  BY <1>2 DEF S

\* Decoding from a place on is decoding the bytes from there.
LEMMA ScansSame ==
  ASSUME NEW bytes \in Bytes, NEW m \in 0..Len(bytes), NEW g, Scans(bytes, g),
         NEW h, Scans(Rest(bytes, m), h)
  PROVE  g[m] = h[0]
<1> DEFINE r == Rest(bytes, m)  n == Len(bytes)
<1>1. n \in Nat /\ m \in Nat /\ m =< n /\ r \in Bytes /\ Len(r) = n - m
  BY BytesAre, RestIs
<1>2. \A place \in 0..n : g[place] = Scanned(bytes, g, place)
  BY DEF Scans
<1>3. \A place \in 0..(n - m) : h[place] = Scanned(r, h, place)
  BY <1>1 DEF Scans
<1> DEFINE S == {k \in Nat : \A i \in 0..(n - m) : n - m - i =< k => g[m + i] = h[i]}
<1>4. ASSUME NEW i \in 0..(n - m),
             \A j \in 0..(n - m) : i < j => g[m + j] = h[j]
      PROVE  g[m + i] = h[i]
  <2>1. m + i \in 0..n /\ i \in Nat /\ m + i =< Len(bytes)
    BY <1>1
  <2>2. Rest(r, i) = Rest(bytes, m + i)
    BY <1>1, <2>1, RestOfRest
  <2> DEFINE s == Act(Rest(bytes, m + i))
  <2>3. s.kind # "wait" => s.take \in Nat \ {0} /\ m + i + s.take \in 1..n
    BY <2>1, ActTakes
  <2>4. s.kind # "wait" => g[m + i + s.take] = h[i + s.take]
    <3> SUFFICES ASSUME s.kind # "wait" PROVE g[m + i + s.take] = h[i + s.take]
      OBVIOUS
    <3> DEFINE j == i + s.take
    <3>1. j \in 0..(n - m) /\ i < j /\ m + j = m + i + s.take
      BY <2>1, <2>3, <1>1
    <3> QED
      BY <3>1, <1>4
  <2>5. g[m + i] = Joined(s, Rest(bytes, m + i), g[m + i + s.take])
    BY <1>2, <2>1 DEF Scanned
  <2>6. h[i] = Joined(s, Rest(bytes, m + i), h[i + s.take])
    BY <1>3, <2>2 DEF Scanned
  <2> HIDE DEF s
  <2> QED
    BY <2>4, <2>5, <2>6 DEF Joined
<1> HIDE DEF n, r
<1>5. 0 \in S
  <2> SUFFICES ASSUME NEW i \in 0..(n - m), n - m - i =< 0 PROVE g[m + i] = h[i]
    OBVIOUS
  <2>1. \A j \in 0..(n - m) : ~(i < j)
    BY <1>1
  <2> QED
    BY <2>1, <1>4
<1>6. ASSUME NEW k \in Nat, k \in S PROVE k + 1 \in S
  <2> SUFFICES ASSUME NEW i \in 0..(n - m), n - m - i =< k + 1 PROVE g[m + i] = h[i]
    OBVIOUS
  <2>1. \A j \in 0..(n - m) : i < j => n - m - j =< k
    BY <1>1
  <2>2. \A j \in 0..(n - m) : i < j => g[m + j] = h[j]
    BY <2>1, <1>6
  <2> QED
    BY <2>2, <1>4
<1> HIDE DEF S
<1>7. Nat \subseteq S
  BY <1>5, <1>6, NatSet
<1>8. n - m \in S /\ 0 \in 0..(n - m)
  BY <1>1, <1>7
<1>9. g[m + 0] = h[0]
  BY <1>1, <1>8 DEF S
<1> QED
  BY <1>1, <1>9

LEMMA DecodedIs ==
  ASSUME NEW bytes \in Bytes
  PROVE  \E g : Scans(bytes, g) /\ Decoded(bytes) = g[0]
<1> DEFINE body(g, place) ==
             LET p == SubSeq(bytes, place + 1, Len(bytes))
                 s == IF place = Len(bytes) THEN Wait ELSE Step(p)
                 rest == g[place + s.take]
             IN  IF s.kind = "wait" THEN [frames |-> <<>>, pending |-> p]
                 ELSE IF s.kind # "frame" THEN rest
                 ELSE [rest EXCEPT !.frames = <<SubSeq(p, 1, s.take)>> \o @]
           from == CHOOSE g : g = [place \in 0..Len(bytes) |-> body(g, place)]
<1>1. Decoded(bytes) = from[0]
  BY DEF Decoded
<1>2. \A g : \A place \in 0..Len(bytes) : body(g, place) = Scanned(bytes, g, place)
  <2> TAKE g
  <2> TAKE place \in 0..Len(bytes)
  <2> DEFINE p == Rest(bytes, place)
  <2>1. Act(p) = IF place = Len(bytes) THEN Wait ELSE Step(p)
    BY ActTakes
  <2>2. p = SubSeq(bytes, place + 1, Len(bytes))
    BY DEF Rest
  <2> HIDE DEF p
  <2> QED
    BY <2>1, <2>2 DEF Scanned, Joined, p
<1> HIDE DEF body
<1>3. \A g : [place \in 0..Len(bytes) |-> body(g, place)] = [place \in 0..Len(bytes) |-> Scanned(bytes, g, place)]
  BY <1>2
<1>4. PICK g : Scans(bytes, g)
  BY ScansExists
<1>5. g = [place \in 0..Len(bytes) |-> body(g, place)]
  BY <1>3, <1>4 DEF Scans
<1>6. from = [place \in 0..Len(bytes) |-> body(from, place)]
  BY <1>5
<1> HIDE DEF from
<1>7. Scans(bytes, from)
  BY <1>3, <1>6 DEF Scans
<1> QED
  BY <1>1, <1>7

\* What feed() finds, step by step.
LEMMA DecodedStep ==
  ASSUME NEW p \in Bytes
  PROVE  Decoded(p) = Joined(Act(p), p, Decoded(Rest(p, Act(p).take)))
<1>1. PICK g : Scans(p, g) /\ Decoded(p) = g[0]
  BY DecodedIs
<1>2. Len(p) \in Nat /\ 0 \in 0..Len(p)
  BY BytesAre
<1>3. Rest(p, 0) = p
  <2>1. Rest(p, 0) \in Bytes /\ Len(Rest(p, 0)) = Len(p) - 0 /\ \A i \in 1..(Len(p) - 0) : Rest(p, 0)[i] = p[0 + i]
    BY <1>2, RestIs
  <2>2. Len(Rest(p, 0)) = Len(p) /\ \A i \in 1..Len(Rest(p, 0)) : Rest(p, 0)[i] = p[i]
    BY <1>2, <2>1
  <2> QED
    BY <2>1, <2>2, SameBytes
<1> DEFINE s == Act(p)
<1>4. g[0] = Joined(s, p, g[0 + s.take])
  BY <1>1, <1>2, <1>3 DEF Scans, Scanned
<1>5. CASE s.kind = "wait"
  BY <1>1, <1>4, <1>5 DEF Joined
<1>6. CASE s.kind # "wait"
  <2>1. s.take \in 1..Len(p) /\ 0 + s.take = s.take
    BY <1>2, <1>3, <1>6, ActTakes
  <2> DEFINE t == s.take
  <2>2. t \in 0..Len(p)
    BY <1>2, <2>1
  <2> HIDE DEF t
  <2>3. Rest(p, t) \in Bytes
    BY <2>2, RestIs
  <2>4. PICK h : Scans(Rest(p, t), h) /\ Decoded(Rest(p, t)) = h[0]
    BY <2>3, DecodedIs
  <2>5. g[t] = Decoded(Rest(p, t))
    BY <1>1, <2>2, <2>4, ScansSame
  <2> QED
    BY <1>1, <1>4, <2>1, <2>5 DEF t
<1> QED
  BY <1>5, <1>6

Frame == Sealed \cap Bytes
Outcome == [frames : Seq(Frame), pending : Bytes]

LEMMA OutcomeIs ==
  ASSUME NEW q \in Seq(Frame), NEW p \in Bytes
  PROVE  [frames |-> q, pending |-> p] \in Outcome
BY DEF Outcome

LEMMA DecodedTyped ==
  ASSUME NEW bytes \in Bytes
  PROVE  Decoded(bytes) \in Outcome
<1> DEFINE S == {p \in Bytes : Decoded(p) \in Outcome}
<1>1. ASSUME NEW p \in Bytes, \A r \in Bytes : Len(r) < Len(p) => r \in S
      PROVE  p \in S
  <2> DEFINE s == Act(p)  t == s.take
  <2>1. Decoded(p) = Joined(s, p, Decoded(Rest(p, t)))
    BY DecodedStep
  <2>2. CASE s.kind = "wait"
    <3>1. Decoded(p) = [frames |-> <<>>, pending |-> p]
      BY <2>1, <2>2 DEF Joined
    <3>2. <<>> \in Seq(Frame)
      BY EmptySeq
    <3>3. [frames |-> <<>>, pending |-> p] \in Outcome
      BY <3>2, OutcomeIs
    <3> QED
      BY <3>1, <3>3
  <2>3. CASE s.kind # "wait"
    <3>1. p # <<>> /\ s = Step(p)
      BY <2>3 DEF Act, Wait
    <3>2. t \in 1..Len(p) /\ (s.kind = "frame" => SubSeq(p, 1, t) \in Sealed)
      BY <2>3, <3>1, StepTakes
    <3> HIDE DEF t
    <3>3. Len(p) \in Nat /\ t \in 0..Len(p) /\ t \in Nat
      BY <3>2, BytesAre
    <3>4. Rest(p, t) \in Bytes /\ Len(Rest(p, t)) = Len(p) - t
      BY <3>3, RestIs
    <3>5. Len(Rest(p, t)) < Len(p)
      BY <3>2, <3>3, <3>4
    <3>6. Decoded(Rest(p, t)) \in Outcome
      BY <1>1, <3>4, <3>5
    <3> DEFINE rest == Decoded(Rest(p, t))
    <3>7. rest.frames \in Seq(Frame) /\ rest.pending \in Bytes
      BY <3>6 DEF Outcome
    <3>8. CASE s.kind # "frame"
      BY <2>1, <2>3, <3>6, <3>8 DEF Joined, t
    <3>9. CASE s.kind = "frame"
      <4> DEFINE f == SubSeq(p, 1, t)
      <4>1. f \in Frame
        <5>1. 1 \in Nat \ {0} /\ t =< Len(p) /\ 1 =< t + 1
          BY <3>2, <3>3
        <5>2. f \in Bytes
          BY <3>3, <5>1, PartIs
        <5> QED
          BY <5>2, <3>2, <3>9 DEF Frame
      <4> HIDE DEF f
      <4>2. <<f>> \in Seq(Frame)
        BY <4>1
      <4>3. <<f>> \o rest.frames \in Seq(Frame)
        BY <4>2, <3>7, ConcatProperties
      <4>4. Decoded(p) = [rest EXCEPT !.frames = <<f>> \o @]
        BY <2>1, <3>9 DEF Joined, f, t
      <4> HIDE DEF rest
      <4>5. Decoded(p) = [frames |-> <<f>> \o rest.frames, pending |-> rest.pending]
        BY <4>4, <3>6 DEF Outcome, rest
      <4> DEFINE fs == <<f>> \o rest.frames  b == rest.pending
      <4>6. fs \in Seq(Frame) /\ b \in Bytes /\ Decoded(p) = [frames |-> fs, pending |-> b]
        BY <4>3, <4>5, <3>7
      <4> HIDE DEF fs, b
      <4> QED
        BY <4>6 DEF Outcome
    <3> QED
      BY <3>8, <3>9
  <2> QED
    BY <2>2, <2>3
<1> HIDE DEF S
<1>2. Bytes \subseteq S
  BY <1>1, BytesSet
<1> QED
  BY <1>2 DEF S

\* The bytes a, and b behind them.
LEMMA Behind ==
  ASSUME NEW a \in Bytes, NEW b \in Bytes
  PROVE  /\ a \o b \in Bytes /\ Begins(a, a \o b)
         /\ \A t \in 0..Len(a) : /\ Rest(a \o b, t) = Rest(a, t) \o b
                                 /\ t > 0 => SubSeq(a \o b, 1, t) = SubSeq(a, 1, t)
<1> DEFINE c == a \o b
<1>1. /\ c \in Bytes /\ Len(c) = Len(a) + Len(b)
      /\ \A i \in 1..Len(a) + Len(b) : c[i] = IF i =< Len(a) THEN a[i] ELSE b[i - Len(a)]
  BY ConcatProperties DEF Bytes
<1>2. Len(a) \in Nat /\ Len(b) \in Nat
  BY BytesAre
<1> HIDE DEF c
<1>3. Begins(a, c)
  BY <1>1, <1>2 DEF Begins
<1>4. ASSUME NEW t \in 0..Len(a) PROVE Rest(c, t) = Rest(a, t) \o b
  <2> DEFINE u == Rest(c, t)  v == Rest(a, t)  w == v \o b
  <2>1. /\ u \in Bytes /\ Len(u) = Len(c) - t
        /\ \A i \in 1..(Len(c) - t) : u[i] = c[t + i]
    <3>1. t \in 0..Len(c)
      BY <1>1, <1>2
    <3> QED
      BY <1>1, <3>1, RestIs
  <2>2. /\ v \in Bytes /\ Len(v) = Len(a) - t
        /\ \A i \in 1..(Len(a) - t) : v[i] = a[t + i]
    BY RestIs
  <2> HIDE DEF u, v
  <2>3. /\ w \in Bytes /\ Len(w) = Len(v) + Len(b)
        /\ \A i \in 1..Len(v) + Len(b) : w[i] = IF i =< Len(v) THEN v[i] ELSE b[i - Len(v)]
    BY <2>2, ConcatProperties DEF Bytes
  <2> HIDE DEF w
  <2>4. Len(u) = Len(w)
    BY <1>1, <1>2, <2>1, <2>2, <2>3
  <2>5. ASSUME NEW i \in 1..Len(u) PROVE u[i] = w[i]
    <3>1. i \in 1..(Len(c) - t) /\ i \in 1..Len(v) + Len(b) /\ t + i \in 1..Len(a) + Len(b)
      BY <1>1, <1>2, <2>1, <2>2
    <3>2. u[i] = IF t + i =< Len(a) THEN a[t + i] ELSE b[t + i - Len(a)]
      BY <1>1, <2>1, <3>1
    <3>3. w[i] = IF i =< Len(v) THEN v[i] ELSE b[i - Len(v)]
      BY <2>3, <3>1
    <3>4. CASE i =< Len(v)
      <4>1. i \in 1..(Len(a) - t) /\ t + i =< Len(a)
        BY <1>2, <2>2, <3>1, <3>4
      <4> QED
        BY <4>1, <2>2, <3>2, <3>3, <3>4
    <3>5. CASE ~(i =< Len(v))
      <4>1. ~(t + i =< Len(a)) /\ t + i - Len(a) = i - Len(v)
        BY <1>2, <2>2, <3>1, <3>5
      <4> QED
        BY <4>1, <3>2, <3>3, <3>5
    <3> QED
      BY <3>4, <3>5
  <2>6. u = w
    BY <2>1, <2>3, <2>4, <2>5, SameBytes
  <2> QED
    BY <2>6 DEF u, w, v
<1>5. ASSUME NEW t \in 0..Len(a), t > 0 PROVE SubSeq(c, 1, t) = SubSeq(a, 1, t)
  <2> DEFINE u == SubSeq(c, 1, t)  v == SubSeq(a, 1, t)
  <2>1. 1 \in Nat \ {0} /\ t \in Nat /\ t =< Len(a) /\ t =< Len(c) /\ 1 =< t + 1 /\ t - 1 + 1 = t
    BY <1>1, <1>2, <1>5
  <2>2. /\ u \in Bytes /\ Len(u) = t - 1 + 1 /\ \A i \in 1..(t - 1 + 1) : u[i] = c[1 + i - 1]
    BY <1>1, <2>1, PartIs
  <2>3. /\ v \in Bytes /\ Len(v) = t - 1 + 1 /\ \A i \in 1..(t - 1 + 1) : v[i] = a[1 + i - 1]
    BY <2>1, PartIs
  <2> HIDE DEF u, v
  <2>4. ASSUME NEW i \in 1..Len(u) PROVE u[i] = v[i]
    <3>1. i \in 1..t /\ 1 + i - 1 = i /\ i \in 1..Len(a)
      BY <2>1, <2>2
    <3>2. u[i] = c[i] /\ v[i] = a[i]
      BY <2>1, <2>2, <2>3, <3>1
    <3>3. c[i] = a[i]
      BY <1>3, <3>1 DEF Begins
    <3> QED
      BY <3>2, <3>3
  <2>5. u = v
    BY <2>2, <2>3, <2>4, SameBytes
  <2> QED
    BY <2>5 DEF u, v
<1> QED
  BY <1>1, <1>3, <1>4, <1>5 DEF c

\* A cut between a and b leaves no trace: decoding them together finds what
\* decoding a finds, then what the bytes a leaves waiting and b hold.
LEMMA ChunkCut ==
  ASSUME NoLongestLine, NEW a \in Bytes, NEW b \in Bytes
  PROVE  LET c == Decoded(Decoded(a).pending \o b) IN
           /\ Decoded(a \o b).frames = Decoded(a).frames \o c.frames
           /\ Decoded(a \o b).pending = c.pending
<1> DEFINE Cuts(p, q) ==
             LET c == Decoded(Decoded(p).pending \o q) IN
               /\ Decoded(p \o q).frames = Decoded(p).frames \o c.frames
               /\ Decoded(p \o q).pending = c.pending
           S == {p \in Bytes : \A q \in Bytes : Cuts(p, q)}
<1>1. ASSUME NEW p \in Bytes, \A r \in Bytes : Len(r) < Len(p) => r \in S
      PROVE  p \in S
  <2> SUFFICES ASSUME NEW q \in Bytes PROVE Cuts(p, q)
    OBVIOUS
  <2>0. p \o q \in Bytes
    BY Behind
  <2> DEFINE s == Act(p)  t == s.take
  <2>1. Decoded(p) = Joined(s, p, Decoded(Rest(p, t)))
    BY DecodedStep
  <2>2. CASE s.kind = "wait"
    <3>1. Decoded(p).frames = <<>> /\ Decoded(p).pending = p
      BY <2>1, <2>2 DEF Joined
    <3>2. Decoded(p \o q).frames \in Seq(Frame)
      BY <2>0, DecodedTyped DEF Outcome
    <3>3. <<>> \o Decoded(p \o q).frames = Decoded(p \o q).frames
      BY <3>2, ConcatEmptySeq
    <3> QED
      BY <3>1, <3>3
  <2>3. CASE s.kind # "wait"
    <3>1. p # <<>> /\ s = Step(p)
      BY <2>3 DEF Act, Wait
    <3>2. t \in 1..Len(p)
      BY <2>3, <3>1, StepTakes
    <3>3. Act(p \o q) = s
      <4>1. Begins(p, p \o q)
        BY Behind
      <4>2. Step(p \o q) = Step(p)
        BY <2>0, <2>3, <3>1, <4>1, StepStable
      <4>3. p \o q # <<>>
        <5>1. Len(p) # 0 /\ Len(p) \in Nat /\ Len(p \o q) \in Nat /\ Len(p) =< Len(p \o q)
          BY <2>0, <3>1, <4>1, BytesAre DEF Begins
        <5> QED
          BY <5>1, <2>0, BytesAre
      <4> QED
        BY <3>1, <4>2, <4>3 DEF Act
    <3> HIDE DEF s
    <3>4. Decoded(p \o q) = Joined(s, p \o q, Decoded(Rest(p \o q, t)))
      BY <2>0, <3>3, DecodedStep
    <3> HIDE DEF t
    <3>5. Len(p) \in Nat /\ t \in 0..Len(p) /\ t > 0
      BY <3>2, BytesAre
    <3>6. Rest(p \o q, t) = Rest(p, t) \o q /\ SubSeq(p \o q, 1, t) = SubSeq(p, 1, t)
      BY <3>5, Behind
    <3> DEFINE r == Rest(p, t)  f == SubSeq(p, 1, t)
    <3>7. r \in Bytes /\ Len(r) < Len(p)
      <4>1. Rest(p, t) \in Bytes /\ Len(Rest(p, t)) = Len(p) - t
        BY <3>5, RestIs
      <4> QED
        BY <4>1, <3>5
    <3> HIDE DEF r, f
    <3>8. Cuts(r, q)
      BY <1>1, <3>7
    <3>9. Decoded(r) \in Outcome /\ Decoded(r \o q) \in Outcome /\ Decoded(Decoded(r).pending \o q) \in Outcome
      <4>1. Decoded(r) \in Outcome
        BY <3>7, DecodedTyped
      <4>2. r \o q \in Bytes /\ Decoded(r).pending \o q \in Bytes
        BY <3>7, <4>1, Behind DEF Outcome
      <4> QED
        BY <4>1, <4>2, DecodedTyped
    <3>10. CASE s.kind # "frame"
      <4>1. Decoded(p) = Decoded(r) /\ Decoded(p \o q) = Decoded(r \o q)
        BY <2>1, <2>3, <3>4, <3>6, <3>10 DEF Joined, r, t
      <4> QED
        BY <4>1, <3>8
    <3>11. CASE s.kind = "frame"
      <4> DEFINE d == Decoded(r)  e == Decoded(r \o q)  c == Decoded(Decoded(r).pending \o q)
      <4>1. /\ Decoded(p) = [d EXCEPT !.frames = <<f>> \o @]
            /\ Decoded(p \o q) = [e EXCEPT !.frames = <<f>> \o @]
        BY <2>1, <3>4, <3>6, <3>11 DEF Joined, r, f, t
      <4>2. e.frames = d.frames \o c.frames /\ e.pending = c.pending
        BY <3>8
      <4>3. d \in Outcome /\ e \in Outcome /\ c \in Outcome
        BY <3>9
      <4>4. /\ Decoded(p).frames = <<f>> \o d.frames /\ Decoded(p).pending = d.pending
            /\ Decoded(p \o q).frames = <<f>> \o e.frames /\ Decoded(p \o q).pending = e.pending
        <5> HIDE DEF d, e
        <5> QED
          BY <4>1, <4>3 DEF Outcome
      <4>5. Decoded(Decoded(p).pending \o q) = c
        BY <4>4
      <4> HIDE DEF d, e, c
      <4>6. <<f>> \o (d.frames \o c.frames) = (<<f>> \o d.frames) \o c.frames
        <5>1. <<f>> \in Seq(Bytes) /\ d.frames \in Seq(Bytes) /\ c.frames \in Seq(Bytes)
          <6>1. f \in Bytes
            <7>1. 1 \in Nat \ {0} /\ t \in Nat /\ t =< Len(p) /\ 1 =< t + 1
              BY <3>5
            <7> QED
              BY <7>1, PartIs DEF f
          <6>2. Frame \subseteq Bytes
            BY DEF Frame
          <6>3. Seq(Frame) \subseteq Seq(Bytes)
            BY <6>2
          <6> QED
            BY <6>1, <6>3, <4>3 DEF Outcome
        <5> DEFINE x == <<f>>  y == d.frames  z == c.frames
        <5>2. x \in Seq(Bytes) /\ y \in Seq(Bytes) /\ z \in Seq(Bytes)
          BY <5>1
        <5> HIDE DEF x, y, z
        <5>3. (x \o y) \o z = x \o (y \o z)
          BY <5>2, ConcatAssociative
        <5> QED
          BY <5>3 DEF x, y, z
      <4> QED
        BY <4>2, <4>4, <4>5, <4>6
    <3> QED
      BY <3>10, <3>11
  <2> QED
    BY <2>2, <2>3
<1> HIDE DEF S
<1>2. Bytes \subseteq S
  BY <1>1, BytesSet
<1> QED
  BY <1>2 DEF S

(***************************************************************************)
(* Prefixes, the frames of one protocol, and whole intervals.              *)
(***************************************************************************)
LEMMA PrefixOfConcat ==
  ASSUME NEW S, NEW s \in Seq(S), NEW u \in Seq(S)
  PROVE  IsPrefix(s, s \o u)
<1>1. Len(s) \in Nat /\ Len(u) \in Nat /\ Len(s \o u) = Len(s) + Len(u)
  BY ConcatProperties, LenProperties
<1>2. SubSeq(s \o u, 1, Len(s)) = s /\ SubSeq(s, 1, Len(s)) = s
  <2>1. \A i \in 1..Len(s) : s[i] \in S
    BY ElementOfSeq
  <2> DEFINE w == s \o u  v == SubSeq(w, 1, Len(s))
  <2>2. w \in Seq(S) /\ \A i \in 1..Len(s) + Len(u) : w[i] = IF i =< Len(s) THEN s[i] ELSE u[i - Len(s)]
    BY ConcatProperties
  <2> HIDE DEF w
  <2>3. \A i \in 1..Len(s) : w[i] \in S /\ w[i] = s[i]
    BY <1>1, <2>1, <2>2
  <2>4. v \in Seq(S) /\ Len(v) = Len(s) /\ \A i \in 1..Len(s) : v[i] = w[i]
    <3>1. 1 \in Int /\ Len(s) \in Int
      BY <1>1
    <3>2. /\ v \in Seq(S) /\ Len(v) = IF 1 <= Len(s) THEN Len(s) - 1 + 1 ELSE 0
          /\ \A i \in 1..(Len(s) - 1 + 1) : v[i] = w[1 + i - 1]
      BY <2>3, <3>1, SubSeqProperties
    <3> HIDE DEF v
    <3>3. Len(v) = Len(s)
      BY <1>1, <3>2
    <3>4. \A i \in 1..Len(s) : v[i] = w[i]
      BY <1>1, <3>2
    <3> QED
      BY <3>2, <3>3, <3>4
  <2> HIDE DEF v
  <2>5. \A i \in 1..Len(v) : v[i] = s[i]
    BY <2>3, <2>4
  <2>6. v = s
    BY <2>4, <2>5, SeqEqual
  <2> QED
    BY <2>6, SubSeqFull DEF v, w
<1> QED
  BY <1>1, <1>2 DEF IsPrefix

LEMMA PrefixIs ==
  ASSUME NEW S, NEW s \in Seq(S), NEW t \in Seq(S), IsPrefix(s, t)
  PROVE  \E u \in Seq(S) : t = s \o u
<1> DEFINE m == Len(s)  n == Len(t)  u == SubSeq(t, m + 1, n)
<1>1. m \in Nat /\ n \in Nat /\ m =< n /\ \A i \in 1..n : t[i] \in S
  BY LenProperties, ElementOfSeq DEF IsPrefix
<1>2. \A i \in 1..m : s[i] = t[i]
  <2>1. SubSeq(s, 1, m) = SubSeq(t, 1, m) /\ SubSeq(s, 1, m) = s
    BY SubSeqFull DEF IsPrefix
  <2> HIDE DEF m, n
  <2>2. \A i \in 1..m : t[i] \in S
    BY <1>1
  <2>3. \A i \in 1..(m - 1 + 1) : SubSeq(t, 1, m)[i] = t[1 + i - 1]
    BY <1>1, <2>2, SubSeqProperties
  <2>4. \A i \in 1..m : SubSeq(t, 1, m)[i] = t[i]
    BY <1>1, <2>3
  <2> QED
    BY <2>1, <2>4
<1>3. u \in Seq(S) /\ Len(u) = n - m /\ \A i \in 1..(n - m) : u[i] = t[m + i]
  <2> HIDE DEF m, n
  <2>1. m + 1 \in Int /\ n \in Int /\ \A i \in (m + 1)..n : t[i] \in S
    BY <1>1
  <2>2. /\ SubSeq(t, m + 1, n) \in Seq(S)
        /\ Len(SubSeq(t, m + 1, n)) = IF m + 1 <= n THEN n - (m + 1) + 1 ELSE 0
        /\ \A i \in 1..(n - (m + 1) + 1) : SubSeq(t, m + 1, n)[i] = t[m + 1 + i - 1]
    BY <2>1, SubSeqProperties
  <2> HIDE DEF u
  <2>3. u \in Seq(S) /\ Len(u) = IF m + 1 <= n THEN n - (m + 1) + 1 ELSE 0
    BY <2>2 DEF u
  <2>4. \A i \in 1..(n - (m + 1) + 1) : u[i] = t[m + 1 + i - 1]
    BY <2>2 DEF u
  <2> QED
    BY <1>1, <2>3, <2>4
<1> HIDE DEF u
<1>4. /\ s \o u \in Seq(S) /\ Len(s \o u) = m + (n - m)
      /\ \A i \in 1..m + (n - m) : (s \o u)[i] = IF i =< m THEN s[i] ELSE u[i - m]
  BY <1>3, ConcatProperties
<1> HIDE DEF m, n
<1>5. m + (n - m) = n
  BY <1>1
<1>6. ASSUME NEW i \in 1..n PROVE t[i] = (s \o u)[i]
  <2>1. (s \o u)[i] = IF i =< m THEN s[i] ELSE u[i - m]
    BY <1>4, <1>5
  <2>2. CASE i =< m
    BY <1>1, <1>2, <2>1, <2>2
  <2>3. CASE ~(i =< m)
    <3>1. i - m \in 1..(n - m) /\ m + (i - m) = i
      BY <1>1, <2>3
    <3> QED
      BY <1>3, <2>1, <2>3, <3>1
  <2> QED
    BY <2>2, <2>3
<1>7. t = s \o u
  <2>1. Len(t) = Len(s \o u) /\ \A i \in 1..Len(t) : t[i] = (s \o u)[i]
    BY <1>4, <1>5, <1>6 DEF n
  <2> DEFINE w == s \o u
  <2>2. w \in Seq(S) /\ Len(t) = Len(w) /\ \A i \in 1..Len(t) : t[i] = w[i]
    BY <1>4, <2>1
  <2> HIDE DEF w
  <2>3. t = w
    BY <2>2, SeqEqual
  <2> QED
    BY <2>3 DEF w
<1> QED
  BY <1>3, <1>7

LEMMA PrefixGrows ==
  ASSUME NEW S, NEW s \in Seq(S), NEW t \in Seq(S), NEW u \in Seq(S), IsPrefix(s, t)
  PROVE  IsPrefix(s, t \o u)
<1>1. PICK v \in Seq(S) : t = s \o v
  BY PrefixIs
<1>2. t \o u = s \o (v \o u) /\ v \o u \in Seq(S)
  BY <1>1, ConcatAssociative, ConcatProperties
<1> QED
  BY <1>2, PrefixOfConcat

LEMMA PrefixSelf ==
  ASSUME NEW S, NEW s \in Seq(S)
  PROVE  IsPrefix(s, s)
BY LenProperties DEF IsPrefix

LEMMA PrefixTrans ==
  ASSUME NEW S, NEW s \in Seq(S), NEW t \in Seq(S), NEW r \in Seq(S),
         IsPrefix(s, t), IsPrefix(t, r)
  PROVE  IsPrefix(s, r)
<1>1. PICK v \in Seq(S) : r = t \o v
  BY PrefixIs
<1> QED
  BY <1>1, PrefixGrows

OwnOf(protocol, frames) ==
  FlattenSeq([n \in DOMAIN frames |->
                IF ProtocolOf(frames[n]) = protocol THEN <<frames[n]>> ELSE <<>>])

LEMMA OwnTyped ==
  ASSUME NEW protocol, NEW h \in Seq(Frame)
  PROVE  /\ OwnOf(protocol, h) \in Seq(Frame)
         /\ OwnOf(protocol, <<>>) = <<>>
         /\ \A f \in Frame : OwnOf(protocol, Append(h, f)) =
               IF ProtocolOf(f) = protocol THEN Append(OwnOf(protocol, h), f) ELSE OwnOf(protocol, h)
<1> DEFINE one(f) == IF ProtocolOf(f) = protocol THEN <<f>> ELSE <<>>
           parts(g) == [n \in DOMAIN g |-> one(g[n])]
<1>1. \A f \in Frame : one(f) \in Seq(Frame)
  BY EmptySeq
<1> HIDE DEF one
<1>2. ASSUME NEW g \in Seq(Frame)
      PROVE  parts(g) \in Texts(Frame) /\ Len(parts(g)) = Len(g)
             /\ \A i \in 1..Len(g) : parts(g)[i] = one(g[i])
  <2>1. DOMAIN g = 1..Len(g) /\ Len(g) \in Nat /\ \A i \in 1..Len(g) : g[i] \in Frame
    BY LenProperties, ElementOfSeq
  <2> DEFINE T == Seq(Frame)
  <2>2. \A i \in 1..Len(g) : one(g[i]) \in T
    BY <1>1, <2>1
  <2> HIDE DEF T
  <2>3. parts(g) = [n \in 1..Len(g) |-> one(g[n])]
    BY <2>1
  <2>4. parts(g) \in [1..Len(g) -> T]
    BY <2>2, <2>3
  <2>5. parts(g) \in Seq(T) /\ Len(parts(g)) = Len(g)
    BY <2>1, <2>3, <2>4, IsASeq, LenProperties
  <2> QED
    BY <2>3, <2>5 DEF Texts, T
<1>3. \A g : OwnOf(protocol, g) = FlattenSeq(parts(g))
  BY DEF OwnOf, one
<1>4. OwnOf(protocol, h) \in Seq(Frame)
  BY <1>2, <1>3, FlattenTyped
<1>5. OwnOf(protocol, <<>>) = <<>>
  <2>1. <<>> \in Seq(Frame) /\ Len(<<>>) = 0
    BY EmptySeq
  <2>2. parts(<<>>) \in Texts(Frame) /\ Len(parts(<<>>)) = 0
    BY <1>2, <2>1
  <2> HIDE DEF parts
  <2>3. FlattenSeq(parts(<<>>)) = <<>>
    BY <2>2, FlattenOne
  <2> QED
    BY <2>3, <1>3
<1>6. ASSUME NEW f \in Frame
      PROVE  OwnOf(protocol, Append(h, f)) = OwnOf(protocol, h) \o one(f)
  <2> DEFINE g == Append(h, f)  q == parts(h)  r == parts(g)  x == one(f)
  <2>1. /\ g \in Seq(Frame) /\ Len(g) = Len(h) + 1
        /\ \A i \in 1..Len(h) : g[i] = h[i]
        /\ g[Len(h) + 1] = f
    BY AppendProperties
  <2> HIDE DEF g
  <2>2. q \in Texts(Frame) /\ Len(q) = Len(h) /\ \A i \in 1..Len(h) : q[i] = one(h[i])
    BY <1>2
  <2>3. r \in Texts(Frame) /\ Len(r) = Len(g) /\ \A i \in 1..Len(g) : r[i] = one(g[i])
    BY <1>2, <2>1
  <2>4. x \in Seq(Frame)
    BY <1>1
  <2>x. x = one(f)
    OBVIOUS
  <2> HIDE DEF q, r, x
  <2>5. Append(q, x) \in Texts(Frame) /\ FlattenSeq(Append(q, x)) = FlattenSeq(q) \o x
    BY <2>2, <2>4, FlattenAppend
  <2> DEFINE T == Seq(Frame)  v == Append(q, x)
  <2>6. /\ Len(v) = Len(q) + 1
        /\ \A i \in 1..Len(q) : v[i] = q[i]
        /\ v[Len(q) + 1] = x
    <3>1. q \in Seq(T) /\ x \in T
      BY <2>2, <2>4 DEF Texts
    <3> HIDE DEF T
    <3> QED
      BY <3>1, AppendProperties
  <2>7. r \in Seq(T) /\ v \in Seq(T)
    BY <2>3, <2>5 DEF Texts
  <2> HIDE DEF T, v
  <2>8. Len(h) \in Nat
    BY LenProperties
  <2>9. Len(r) = Len(v)
    BY <2>1, <2>2, <2>3, <2>6
  <2>10. ASSUME NEW i \in 1..Len(r) PROVE r[i] = v[i]
    <3>1. CASE i = Len(h) + 1
      BY <2>x, <2>1, <2>2, <2>3, <2>6, <3>1
    <3>2. CASE i # Len(h) + 1
      <4>1. i \in 1..Len(h)
        BY <2>1, <2>3, <2>8, <3>2
      <4> QED
        BY <4>1, <2>1, <2>2, <2>3, <2>6
    <3> QED
      BY <3>1, <3>2
  <2>11. r = v
    BY <2>7, <2>9, <2>10, SeqEqual
  <2>12. OwnOf(protocol, g) = FlattenSeq(r) /\ OwnOf(protocol, h) = FlattenSeq(q)
    BY <1>3 DEF r, q
  <2> QED
    BY <2>5, <2>11, <2>12 DEF v, g, x
<1>7. ASSUME NEW f \in Frame
      PROVE  OwnOf(protocol, Append(h, f)) =
               IF ProtocolOf(f) = protocol THEN Append(OwnOf(protocol, h), f) ELSE OwnOf(protocol, h)
  <2> DEFINE o == OwnOf(protocol, h)
  <2>1. o \in Seq(Frame) /\ OwnOf(protocol, Append(h, f)) = o \o one(f)
    BY <1>4, <1>6
  <2> HIDE DEF o
  <2>2. CASE ProtocolOf(f) = protocol
    <3>1. one(f) = <<f>>
      BY <2>2 DEF one
    <3>2. o \o <<f>> = Append(o, f)
      BY <2>1, AppendIsConcat
    <3> QED
      BY <2>1, <2>2, <3>1, <3>2 DEF o
  <2>3. CASE ProtocolOf(f) # protocol
    <3>1. one(f) = <<>>
      BY <2>3 DEF one
    <3>2. o \o <<>> = o
      BY <2>1, ConcatEmptySeq
    <3> QED
      BY <2>1, <2>3, <3>1, <3>2 DEF o
  <2> QED
    BY <2>2, <2>3
<1> QED
  BY <1>4, <1>5, <1>7

\* The end of the last whole interval.
LEMMA WholeIs ==
  ASSUME NEW h \in Seq(Frame)
  PROVE  \E k \in 0..Len(h) :
            /\ Whole(h) = SubSeq(h, 1, k)
            /\ k = 0 \/ Ends(h[k])
            /\ \A n \in (k + 1)..Len(h) : ~Ends(h[n])
<1> DEFINE ends == {n \in DOMAIN h : Ends(h[n])}
           S == {n \in Nat : n =< Len(h) /\ \A i \in ends : i =< n}
<1>1. Len(h) \in Nat /\ DOMAIN h = 1..Len(h)
  BY LenProperties
<1>2. Len(h) \in S
  BY <1>1
<1>3. PICK k \in S : \A m \in S : k =< m
  <2>1. S \in SUBSET Nat /\ S # {}
    BY <1>2
  <2> HIDE DEF S
  <2> QED
    BY <2>1, Least
<1>4. k \in Nat /\ k =< Len(h) /\ \A i \in ends : i =< k
  BY <1>3
<1>5. k \in ends \cup {0}
  <2> SUFFICES ASSUME k # 0, k \notin ends PROVE FALSE
    OBVIOUS
  <2>1. k - 1 \in Nat /\ k - 1 =< Len(h)
    BY <1>1, <1>4
  <2>2. ASSUME NEW i \in ends PROVE i =< k - 1
    <3>1. i \in 1..Len(h) /\ i =< k /\ i # k
      BY <1>1, <1>4
    <3> QED
      BY <3>1, <1>4
  <2>3. k - 1 \in S
    BY <2>1, <2>2
  <2>4. k =< k - 1
    BY <2>3, <1>3
  <2> QED
    BY <2>4, <1>4
<1>6. Max(ends \cup {0}) = k
  <2> DEFINE E == ends \cup {0}
  <2>1. k \in E /\ (\A y \in E : k >= y) /\ E \subseteq Nat
    <3>1. \A y \in E : y \in Nat /\ k >= y
      BY <1>1, <1>4
    <3> QED
      BY <3>1, <1>5
  <2> HIDE DEF E
  <2>2. Max(E) \in E /\ \A y \in E : Max(E) >= y
    BY <2>1 DEF Max
  <2>3. Max(E) = k
    <3> DEFINE x == Max(E)
    <3>1. x \in Nat /\ x >= k /\ k >= x
      BY <2>1, <2>2
    <3> HIDE DEF x
    <3>2. x = k
      BY <3>1, <1>4
    <3> QED
      BY <3>2 DEF x
  <2> QED
    BY <2>3 DEF E
<1>7. Whole(h) = SubSeq(h, 1, k)
  BY <1>6 DEF Whole
<1>8. \A n \in (k + 1)..Len(h) : ~Ends(h[n])
  BY <1>1, <1>4
<1>9. k \in 0..Len(h) /\ (k = 0 \/ Ends(h[k]))
  BY <1>1, <1>4, <1>5
<1> QED
  BY <1>7, <1>8, <1>9

LEMMA WholeTyped ==
  ASSUME NEW h \in Seq(Frame)
  PROVE  Whole(h) \in Seq(Frame) /\ IsPrefix(Whole(h), h)
<1>1. PICK k \in 0..Len(h) : Whole(h) = SubSeq(h, 1, k)
  BY WholeIs
<1>2. Len(h) \in Nat
  BY LenProperties
<1>3. SubSeq(h, 1, k) \o SubSeq(h, k + 1, Len(h)) = SubSeq(h, 1, Len(h))
  <2>1. 1 \in 1..Len(h) + 1 /\ k \in (1 - 1)..Len(h) /\ Len(h) \in k..Len(h)
    BY <1>1, <1>2
  <2> QED
    BY <2>1, ConcatAdjacentSubSeq
<1>4. SubSeq(h, 1, k) \in Seq(Frame) /\ SubSeq(h, k + 1, Len(h)) \in Seq(Frame)
  <2>1. \A i \in 1..Len(h) : h[i] \in Frame
    BY ElementOfSeq
  <2>2. (\A i \in 1..k : h[i] \in Frame) /\ (\A i \in (k + 1)..Len(h) : h[i] \in Frame)
    BY <1>1, <1>2, <2>1
  <2>3. 1 \in Int /\ k \in Int /\ k + 1 \in Int /\ Len(h) \in Int
    BY <1>1, <1>2
  <2> QED
    BY <2>2, <2>3, SubSeqProperties
<1>5. SubSeq(h, 1, Len(h)) = h
  BY SubSeqFull
<1>6. IsPrefix(SubSeq(h, 1, k), SubSeq(h, 1, k) \o SubSeq(h, k + 1, Len(h)))
  BY <1>4, PrefixOfConcat
<1> QED
  BY <1>1, <1>3, <1>4, <1>5, <1>6

\* The last whole interval is the one that ended last.
LEMMA WholeUnique ==
  ASSUME NEW h \in Seq(Frame), NEW k \in 0..Len(h), k = 0 \/ Ends(h[k]),
         \A n \in (k + 1)..Len(h) : ~Ends(h[n])
  PROVE  Whole(h) = SubSeq(h, 1, k)
<1>1. PICK m \in 0..Len(h) : /\ Whole(h) = SubSeq(h, 1, m)
                             /\ m = 0 \/ Ends(h[m])
                             /\ \A n \in (m + 1)..Len(h) : ~Ends(h[n])
  BY WholeIs
<1>2. Len(h) \in Nat
  BY LenProperties
<1>3. ~(m < k) /\ ~(k < m)
  BY <1>1, <1>2
<1>4. m = k
  BY <1>2, <1>3
<1> QED
  BY <1>1, <1>4

LEMMA WholeEmpty ==
  Whole(<<>>) = <<>>
<1>1. <<>> \in Seq(Frame) /\ Len(<<>>) = 0
  BY EmptySeq
<1>2. 0 \in 0..Len(<<>>) /\ \A n \in (0 + 1)..Len(<<>>) : FALSE
  BY <1>1
<1>3. Whole(<<>>) = SubSeq(<<>>, 1, 0)
  BY <1>1, <1>2, WholeUnique
<1>4. SubSeq(<<>>, 1, 0) = <<>>
  BY SubSeqEmpty
<1> QED
  BY <1>3, <1>4

LEMMA WholeGrows ==
  ASSUME NEW h \in Seq(Frame), NEW f \in Frame
  PROVE  /\ Ends(f) => Whole(Append(h, f)) = Append(h, f)
         /\ ~Ends(f) => Whole(Append(h, f)) = Whole(h)
         /\ IsPrefix(Whole(h), Whole(Append(h, f)))
<1> DEFINE g == Append(h, f)  l == Len(h)
<1>1. /\ g \in Seq(Frame) /\ Len(g) = l + 1 /\ g[l + 1] = f
      /\ \A i \in 1..l : g[i] = h[i]
  BY AppendProperties
<1>2. l \in Nat
  BY LenProperties
<1>3. g = h \o <<f>> /\ <<f>> \in Seq(Frame)
  BY AppendIsConcat
<1> HIDE DEF g
<1>4. ASSUME Ends(f) PROVE Whole(g) = g
  <2>1. l + 1 \in 0..Len(g) /\ Ends(g[l + 1]) /\ \A n \in (l + 1 + 1)..Len(g) : FALSE
    BY <1>1, <1>2, <1>4
  <2> DEFINE k == l + 1
  <2>2. k \in 0..Len(g) /\ Ends(g[k]) /\ \A n \in (k + 1)..Len(g) : ~Ends(g[n])
    BY <2>1
  <2> HIDE DEF k
  <2>3. Whole(g) = SubSeq(g, 1, k)
    BY <1>1, <2>2, WholeUnique
  <2>4. SubSeq(g, 1, Len(g)) = g
    BY <1>1, SubSeqFull
  <2> QED
    BY <1>1, <2>3, <2>4 DEF k
<1>5. ASSUME ~Ends(f) PROVE Whole(g) = Whole(h)
  <2>1. PICK k \in 0..l : /\ Whole(h) = SubSeq(h, 1, k)
                          /\ k = 0 \/ Ends(h[k])
                          /\ \A n \in (k + 1)..l : ~Ends(h[n])
    BY WholeIs
  <2>2. k \in 0..Len(g) /\ (k = 0 \/ Ends(g[k]))
    BY <1>1, <1>2, <2>1
  <2>3. ASSUME NEW n \in (k + 1)..Len(g) PROVE ~Ends(g[n])
    <3>1. CASE n = l + 1
      BY <1>1, <1>5, <3>1
    <3>2. CASE n # l + 1
      <4>1. n \in (k + 1)..l /\ n \in 1..l
        BY <1>1, <1>2, <2>1, <3>2
      <4> QED
        BY <4>1, <1>1, <2>1
    <3> QED
      BY <3>1, <3>2
  <2>4. Whole(g) = SubSeq(g, 1, k)
    BY <1>1, <2>2, <2>3, WholeUnique
  <2>5. SubSeq(g, 1, k) = SubSeq(h, 1, k)
    <3>1. CASE k = 0
      <4>1. SubSeq(g, 1, 0) = <<>> /\ SubSeq(h, 1, 0) = <<>>
        BY SubSeqEmpty
      <4> QED
        BY <3>1, <4>1
    <3>2. CASE k # 0
      <4>1. 1 \in 1..Len(h) /\ k \in 1..Len(h)
        BY <1>2, <2>1, <3>2
      <4> QED
        BY <1>3, <4>1, SubSeqOfConcat1
    <3> QED
      BY <3>1, <3>2
  <2> QED
    BY <2>1, <2>4, <2>5
<1>6. IsPrefix(Whole(h), Whole(g))
  <2>1. Whole(h) \in Seq(Frame) /\ IsPrefix(Whole(h), h)
    BY WholeTyped
  <2>2. CASE Ends(f)
    <3>1. IsPrefix(Whole(h), h \o <<f>>)
      BY <1>3, <2>1, PrefixGrows
    <3> QED
      BY <1>3, <1>4, <2>2, <3>1
  <2>3. CASE ~Ends(f)
    <3>1. IsPrefix(Whole(h), Whole(h))
      BY <2>1, PrefixSelf
    <3> QED
      BY <1>5, <2>3, <3>1
  <2> QED
    BY <2>2, <2>3
<1> QED
  BY <1>4, <1>5, <1>6 DEF g

(***************************************************************************)
(* The recording in the order of its files.                                *)
(***************************************************************************)
Below(T, t) == {u \in T : u =< t}

LEMMA BelowIs ==
  ASSUME NEW T \in SUBSET Nat, IsFiniteSet(T), NEW t \in T
  PROVE  /\ IsFiniteSet(Below(T, t)) /\ Cardinality(Below(T, t)) \in 1..Cardinality(T)
         /\ \A u \in T : Cardinality(Below(T, u)) = Cardinality(Below(T, t)) => u = t
<1>1. ASSUME NEW u \in T
      PROVE  /\ IsFiniteSet(Below(T, u)) /\ Cardinality(Below(T, u)) \in 1..Cardinality(T)
  <2>1. Below(T, u) \in SUBSET T /\ u \in Below(T, u)
    BY DEF Below
  <2>2. IsFiniteSet(Below(T, u)) /\ Cardinality(Below(T, u)) <= Cardinality(T)
    BY <2>1, FS_Subset
  <2>3. Cardinality(Below(T, u)) \in Nat /\ Cardinality(T) \in Nat
    BY <2>2, FS_CardinalityType
  <2>4. Cardinality(Below(T, u)) # 0
    BY <2>1, <2>2, FS_EmptySet
  <2> QED
    BY <2>2, <2>3, <2>4
<1>2. ASSUME NEW u \in T, NEW v \in T, u < v
      PROVE  Cardinality(Below(T, u)) # Cardinality(Below(T, v))
  <2>1. Below(T, u) \in SUBSET Below(T, v)
    <3>1. \A w \in Nat, x \in Nat, y \in Nat : w =< x /\ x < y => w =< y
      OBVIOUS
    <3>2. \A w \in T : w =< u => w =< v
      BY <1>2, <3>1
    <3> QED
      BY <3>2 DEF Below
  <2>2. v \in Below(T, v) /\ v \notin Below(T, u)
    BY <1>2 DEF Below
  <2>3. Cardinality(Below(T, v)) = Cardinality(Below(T, u)) => Below(T, v) = Below(T, u)
    BY <1>1, <2>1, FS_Subset
  <2> QED
    BY <2>2, <2>3
<1>3. ASSUME NEW u \in T, Cardinality(Below(T, u)) = Cardinality(Below(T, t)) PROVE u = t
  <2>1. ~(u < t) /\ ~(t < u)
    BY <1>2, <1>3
  <2>2. u \in Nat /\ t \in Nat
    OBVIOUS
  <2> QED
    BY <2>1, <2>2
<1> QED
  BY <1>1, <1>3

LEMMA TopIs ==
  ASSUME NEW T \in SUBSET Nat, IsFiniteSet(T), T # {}
  PROVE  \E c \in T : \A t \in T : t =< c
<1> DEFINE S == {k \in Nat : \A U \in SUBSET Nat :
                    (IsFiniteSet(U) /\ Cardinality(U) = k + 1) => \E c \in U : \A t \in U : t =< c}
<1>1. 0 \in S
  <2> SUFFICES ASSUME NEW U \in SUBSET Nat, IsFiniteSet(U), Cardinality(U) = 1
               PROVE  \E c \in U : \A t \in U : t =< c
    OBVIOUS
  <2>1. PICK c : U = {c}
    BY FS_Singleton
  <2>2. c \in Nat
    BY <2>1
  <2> QED
    BY <2>1, <2>2
<1>2. ASSUME NEW k \in Nat, k \in S PROVE k + 1 \in S
  <2> SUFFICES ASSUME NEW U \in SUBSET Nat, IsFiniteSet(U), Cardinality(U) = (k + 1) + 1
               PROVE  \E c \in U : \A t \in U : t =< c
    OBVIOUS
  <2>1. U # {}
    BY FS_EmptySet
  <2>2. PICK x \in U : TRUE
    BY <2>1
  <2>3. IsFiniteSet(U \ {x}) /\ Cardinality(U \ {x}) = k + 1
    BY FS_RemoveElement
  <2>4. PICK c \in U \ {x} : \A t \in U \ {x} : t =< c
    BY <1>2, <2>3
  <2>5. x \in Nat /\ c \in Nat
    OBVIOUS
  <2>6. CASE x =< c
    BY <2>4, <2>6
  <2>7. CASE ~(x =< c)
    <3>1. \A t \in U : t =< x
      BY <2>4, <2>5, <2>7
    <3> QED
      BY <3>1
  <2> QED
    BY <2>6, <2>7
<1> HIDE DEF S
<1>3. Nat \subseteq S
  BY <1>1, <1>2, NatSet
<1>4. Cardinality(T) \in Nat /\ Cardinality(T) # 0
  BY FS_CardinalityType, FS_EmptySet
<1>5. Cardinality(T) - 1 \in Nat /\ Cardinality(T) = (Cardinality(T) - 1) + 1
  BY <1>4
<1>6. Cardinality(T) - 1 \in S
  BY <1>3, <1>5
<1> QED
  BY <1>5, <1>6 DEF S

\* Without its greatest element a set counts the same below.
LEMMA WithoutTop ==
  ASSUME NEW T \in SUBSET Nat, IsFiniteSet(T), NEW c \in T, \A t \in T : t =< c
  PROVE  /\ IsFiniteSet(T \ {c}) /\ Cardinality(T) = Cardinality(T \ {c}) + 1
         /\ Cardinality(T \ {c}) \in Nat
         /\ Below(T, c) = T
         /\ \A t \in T \ {c} : Below(T \ {c}, t) = Below(T, t)
<1>1. IsFiniteSet(T \ {c}) /\ Cardinality(T \ {c}) = Cardinality(T) - 1
  BY FS_RemoveElement
<1>2. Cardinality(T) \in Nat /\ Cardinality(T \ {c}) \in Nat
  BY <1>1, FS_CardinalityType
<1>3. Below(T, c) = T
  BY DEF Below
<1>4. ASSUME NEW t \in T \ {c} PROVE Below(T \ {c}, t) = Below(T, t)
  <2>1. t \in Nat /\ c \in Nat /\ t =< c /\ t # c
    OBVIOUS
  <2>2. ~(c =< t)
    BY <2>1
  <2> QED
    BY <2>2 DEF Below
<1> QED
  BY <1>1, <1>2, <1>3, <1>4

LEMMA NthExists ==
  ASSUME NEW T \in SUBSET Nat, IsFiniteSet(T), NEW n \in 1..Cardinality(T)
  PROVE  \E t \in T : Cardinality(Below(T, t)) = n
<1> DEFINE S == {k \in Nat : \A U \in SUBSET Nat :
                    (IsFiniteSet(U) /\ Cardinality(U) = k) =>
                       \A m \in 1..k : \E t \in U : Cardinality(Below(U, t)) = m}
<1>1. 0 \in S
  OBVIOUS
<1>2. ASSUME NEW k \in Nat, k \in S PROVE k + 1 \in S
  <2> SUFFICES ASSUME NEW U \in SUBSET Nat, IsFiniteSet(U), Cardinality(U) = k + 1,
                      NEW m \in 1..(k + 1)
               PROVE  \E t \in U : Cardinality(Below(U, t)) = m
    OBVIOUS
  <2>1. U # {}
    BY FS_EmptySet
  <2>2. PICK c \in U : \A t \in U : t =< c
    BY <2>1, TopIs
  <2>3. /\ IsFiniteSet(U \ {c}) /\ Cardinality(U) = Cardinality(U \ {c}) + 1
        /\ Cardinality(U \ {c}) \in Nat
        /\ Below(U, c) = U
        /\ \A t \in U \ {c} : Below(U \ {c}, t) = Below(U, t)
    BY <2>2, WithoutTop
  <2>4. Cardinality(U \ {c}) = k
    BY <2>3
  <2>5. CASE m = k + 1
    BY <2>3, <2>5
  <2>6. CASE m # k + 1
    <3>1. m \in 1..k
      BY <2>6
    <3>2. PICK t \in U \ {c} : Cardinality(Below(U \ {c}, t)) = m
      BY <1>2, <2>3, <2>4, <3>1
    <3> QED
      BY <2>3, <3>2
  <2> QED
    BY <2>5, <2>6
<1> HIDE DEF S
<1>3. Nat \subseteq S
  BY <1>1, <1>2, NatSet
<1>4. Cardinality(T) \in S
  BY <1>3, FS_CardinalityType
<1> QED
  BY <1>4 DEF S

LEMMA NthIs ==
  ASSUME NEW T \in SUBSET Nat, IsFiniteSet(T), NEW n \in 1..Cardinality(T)
  PROVE  /\ Nth(T, n) \in T /\ Cardinality(Below(T, Nth(T, n))) = n
         /\ \A t \in T : Cardinality(Below(T, t)) = n => Nth(T, n) = t
<1>1. PICK t \in T : Cardinality(Below(T, t)) = n
  BY NthExists
<1>2. Nth(T, n) \in T /\ Cardinality(Below(T, Nth(T, n))) = n
  BY <1>1 DEF Nth, Below
<1>3. ASSUME NEW u \in T, Cardinality(Below(T, u)) = n PROVE Nth(T, n) = u
  BY <1>2, <1>3, BelowIs
<1> QED
  BY <1>2, <1>3

\* The files of a recording: its frames by the time that names the file.
IsDisk(f) ==
  /\ f = [t \in DOMAIN f |-> f[t]] /\ DOMAIN f \in SUBSET Nat /\ IsFiniteSet(DOMAIN f)
  /\ \A t \in DOMAIN f : f[t] \in Seq(Frame)

InTurn(f, T) == [n \in 1..Cardinality(T) |-> f[Nth(T, n)]]

LEMMA TurnsAre ==
  ASSUME NEW f, IsDisk(f), NEW T \in SUBSET DOMAIN f
  PROVE  /\ T \in SUBSET Nat /\ IsFiniteSet(T) /\ Cardinality(T) \in Nat
         /\ InTurn(f, T) \in Texts(Frame) /\ Len(InTurn(f, T)) = Cardinality(T)
         /\ \A n \in 1..Cardinality(T) : InTurn(f, T)[n] = f[Nth(T, n)] /\ Nth(T, n) \in T
<1>1. T \in SUBSET Nat /\ IsFiniteSet(T) /\ Cardinality(T) \in Nat
  <2>1. T \in SUBSET Nat
    BY DEF IsDisk
  <2>2. IsFiniteSet(T)
    BY FS_Subset DEF IsDisk
  <2> QED
    BY <2>1, <2>2, FS_CardinalityType
<1>2. \A n \in 1..Cardinality(T) : Nth(T, n) \in T
  BY <1>1, NthIs
<1> DEFINE q == InTurn(f, T)  X == Seq(Frame)
<1>3. \A n \in 1..Cardinality(T) : f[Nth(T, n)] \in X
  BY <1>2 DEF IsDisk
<1> HIDE DEF X
<1>4. q \in [1..Cardinality(T) -> X]
  BY <1>3 DEF InTurn
<1>5. q \in Seq(X) /\ Len(q) = Cardinality(T)
  BY <1>1, <1>4, IsASeq, LenProperties
<1>6. \A n \in 1..Cardinality(T) : q[n] = f[Nth(T, n)]
  BY DEF InTurn
<1> QED
  BY <1>1, <1>2, <1>5, <1>6 DEF Texts, X

LEMMA InOrderIs ==
  ASSUME NEW f
  PROVE  InOrder(f) = FlattenSeq(InTurn(f, Filled(f)))
BY DEF InOrder, InTurn

LEMMA InOrderTyped ==
  ASSUME NEW f, IsDisk(f)
  PROVE  InOrder(f) \in Seq(Frame)
<1>1. Filled(f) \in SUBSET DOMAIN f
  BY DEF Filled
<1>2. InTurn(f, Filled(f)) \in Texts(Frame)
  BY <1>1, TurnsAre
<1> QED
  BY <1>2, InOrderIs, FlattenTyped

\* What the files hold is what they hold before the last, and the last.
LEMMA LastFile ==
  ASSUME NEW f, IsDisk(f), NEW c \in DOMAIN f, \A t \in Filled(f) : t =< c
  PROVE  /\ IsDisk([f EXCEPT ![c] = <<>>])
         /\ InOrder([f EXCEPT ![c] = <<>>]) \in Seq(Frame)
         /\ InOrder(f) = InOrder([f EXCEPT ![c] = <<>>]) \o f[c]
<1> DEFINE g == [f EXCEPT ![c] = <<>>]  T == Filled(f)  U == Filled(g)
<1>0. <<>> \in Seq(Frame)
  BY EmptySeq
<1>1. /\ IsDisk(g) /\ DOMAIN g = DOMAIN f /\ g[c] = <<>>
      /\ \A t \in DOMAIN f : t # c => g[t] = f[t]
  BY <1>0 DEF IsDisk
<1> HIDE DEF g
<1>2. U = T \ {c}
  BY <1>1 DEF Filled
<1>3. InOrder(g) \in Seq(Frame)
  BY <1>1, InOrderTyped
<1>4. CASE f[c] = <<>>
  <2>1. g = f
    <3>1. g = [t \in DOMAIN f |-> g[t]] /\ f = [t \in DOMAIN f |-> f[t]]
      BY <1>1 DEF IsDisk
    <3>2. \A t \in DOMAIN f : g[t] = f[t]
      BY <1>1, <1>4
    <3> QED
      BY <3>1, <3>2
  <2>2. InOrder(g) \o <<>> = InOrder(g)
    BY <1>3, ConcatEmptySeq
  <2> QED
    BY <1>1, <1>3, <1>4, <2>1, <2>2 DEF g
<1>5. CASE f[c] # <<>>
  <2>1. c \in T /\ T \in SUBSET DOMAIN f /\ U \in SUBSET DOMAIN g
    BY <1>5 DEF Filled
  <2>2. /\ T \in SUBSET Nat /\ IsFiniteSet(T)
        /\ InTurn(f, T) \in Texts(Frame) /\ Len(InTurn(f, T)) = Cardinality(T)
        /\ \A n \in 1..Cardinality(T) : InTurn(f, T)[n] = f[Nth(T, n)] /\ Nth(T, n) \in T
    BY <2>1, TurnsAre
  <2>3. /\ U \in SUBSET Nat /\ IsFiniteSet(U) /\ Cardinality(U) \in Nat
        /\ InTurn(g, U) \in Texts(Frame) /\ Len(InTurn(g, U)) = Cardinality(U)
        /\ \A n \in 1..Cardinality(U) : InTurn(g, U)[n] = g[Nth(U, n)] /\ Nth(U, n) \in U
    BY <1>1, <2>1, TurnsAre
  <2> DEFINE k == Cardinality(U)  q == InTurn(g, U)  r == InTurn(f, T)  x == f[c]
  <2>4. /\ Cardinality(T) = k + 1 /\ Below(T, c) = T
        /\ \A t \in U : Below(U, t) = Below(T, t)
    <3> HIDE DEF U, T
    <3>1. \A t \in T : t =< c
      BY DEF T
    <3>2. /\ Cardinality(T) = Cardinality(T \ {c}) + 1 /\ Below(T, c) = T
          /\ \A t \in T \ {c} : Below(T \ {c}, t) = Below(T, t)
      BY <2>1, <2>2, <3>1, WithoutTop
    <3> QED
      BY <1>2, <3>2
  <2>5. x \in Seq(Frame)
    BY DEF IsDisk
  <2> HIDE DEF T, U
  <2>6. ASSUME NEW n \in 1..k PROVE r[n] = q[n]
    <3>1. n \in 1..Cardinality(T)
      BY <2>3, <2>4
    <3>2. Nth(U, n) \in U /\ Cardinality(Below(U, Nth(U, n))) = n
      BY <2>3, NthIs
    <3>3. Nth(U, n) \in T /\ Nth(U, n) # c /\ Cardinality(Below(T, Nth(U, n))) = n
      BY <1>2, <2>4, <3>2
    <3>4. Nth(T, n) = Nth(U, n)
      <4> DEFINE t == Nth(U, n)
      <4>1. t \in T /\ Cardinality(Below(T, t)) = n
        BY <3>3
      <4>2. \A u \in T : Cardinality(Below(T, u)) = n => Nth(T, n) = u
        BY <2>2, <3>1, NthIs
      <4> QED
        BY <4>1, <4>2
    <3>5. g[Nth(U, n)] = f[Nth(U, n)]
      BY <1>1, <2>1, <3>3
    <3> QED
      BY <2>2, <2>3, <3>1, <3>4, <3>5
  <2>7. r[k + 1] = x
    <3>1. k + 1 \in 1..Cardinality(T)
      BY <2>3, <2>4
    <3>2. Nth(T, k + 1) = c
      BY <2>1, <2>2, <2>4, <3>1, NthIs
    <3> QED
      BY <2>2, <3>1, <3>2
  <2>8. q \in Texts(Frame) /\ Len(q) = k /\ r \in Texts(Frame) /\ Len(r) = k + 1 /\ k \in Nat
    BY <2>2, <2>3, <2>4
  <2> HIDE DEF q, r, k, x
  <2>9. r = Append(q, x)
    <3> DEFINE X == Seq(Frame)  v == Append(q, x)
    <3>1. q \in Seq(X) /\ r \in Seq(X) /\ x \in X
      BY <2>5, <2>8 DEF Texts
    <3> HIDE DEF X
    <3>2. v \in Seq(X) /\ Len(v) = k + 1 /\ (\A n \in 1..k : v[n] = q[n]) /\ v[k + 1] = x
      BY <2>8, <3>1, AppendProperties
    <3> HIDE DEF v
    <3>3. ASSUME NEW n \in 1..Len(r) PROVE r[n] = v[n]
      <4>1. CASE n = k + 1
        BY <2>7, <3>2, <4>1
      <4>2. CASE n # k + 1
        <5>1. n \in 1..k
          BY <2>8, <4>2
        <5> QED
          BY <5>1, <2>6, <3>2
      <4> QED
        BY <4>1, <4>2
    <3>4. Len(r) = Len(v)
      BY <2>8, <3>2
    <3>5. r = v
      BY <3>1, <3>2, <3>3, <3>4, SeqEqual
    <3> QED
      BY <3>5 DEF v
  <2>10. FlattenSeq(r) = FlattenSeq(q) \o x
    BY <2>5, <2>8, <2>9, FlattenAppend
  <2>11. InOrder(f) = FlattenSeq(r) /\ InOrder(g) = FlattenSeq(q)
    BY InOrderIs DEF r, q, T, U
  <2> QED
    BY <1>1, <1>3, <2>10, <2>11 DEF x, g
<1> QED
  BY <1>4, <1>5

\* Frames written to the last file come last.
LEMMA WrittenLast ==
  ASSUME NEW f, IsDisk(f), NEW c \in DOMAIN f, \A t \in Filled(f) : t =< c, NEW w \in Seq(Frame)
  PROVE  /\ IsDisk([f EXCEPT ![c] = @ \o w])
         /\ InOrder([f EXCEPT ![c] = @ \o w]) = InOrder(f) \o w
         /\ \A t \in Filled([f EXCEPT ![c] = @ \o w]) : t =< c
<1> DEFINE g == [f EXCEPT ![c] = @ \o w]  e == [f EXCEPT ![c] = <<>>]
<1>1. f[c] \in Seq(Frame) /\ f[c] \o w \in Seq(Frame)
  <2>1. f[c] \in Seq(Frame)
    BY DEF IsDisk
  <2> QED
    BY <2>1, ConcatProperties
<1>2. /\ IsDisk(g) /\ DOMAIN g = DOMAIN f /\ g[c] = f[c] \o w
      /\ \A t \in DOMAIN f : t # c => g[t] = f[t]
  <2> DEFINE x == f[c] \o w
  <2>1. x \in Seq(Frame) /\ g = [f EXCEPT ![c] = x]
    BY <1>1
  <2> HIDE DEF x, g
  <2>2. /\ IsDisk(g) /\ DOMAIN g = DOMAIN f /\ g[c] = x
        /\ \A t \in DOMAIN f : t # c => g[t] = f[t]
    BY <2>1 DEF IsDisk
  <2> QED
    BY <2>2 DEF x
<1>3. [g EXCEPT ![c] = <<>>] = e
  <2> HIDE DEF g
  <2>1. g = [t \in DOMAIN f |-> g[t]] /\ f = [t \in DOMAIN f |-> f[t]]
    BY <1>2 DEF IsDisk
  <2>2. [g EXCEPT ![c] = <<>>] = [t \in DOMAIN f |-> IF t = c THEN <<>> ELSE g[t]]
    BY <1>2, <2>1
  <2>3. e = [t \in DOMAIN f |-> IF t = c THEN <<>> ELSE f[t]]
    BY <2>1
  <2>4. \A t \in DOMAIN f : (IF t = c THEN <<>> ELSE g[t]) = (IF t = c THEN <<>> ELSE f[t])
    BY <1>2
  <2> HIDE DEF e
  <2> QED
    BY <2>2, <2>3, <2>4
<1> HIDE DEF g
<1>4. c \in Nat /\ \A t \in Filled(g) : t =< c
  <2>1. c \in Nat
    BY DEF IsDisk
  <2>2. \A t \in Filled(g) : t = c \/ t \in Filled(f)
    BY <1>2 DEF Filled
  <2> QED
    BY <2>1, <2>2
<1>5. InOrder(e) \in Seq(Frame) /\ InOrder(f) = InOrder(e) \o f[c]
  BY LastFile
<1>6. InOrder(g) = InOrder(e) \o g[c]
  <2>1. c \in DOMAIN g
    BY <1>2
  <2>2. InOrder(g) = InOrder([g EXCEPT ![c] = <<>>]) \o g[c]
    BY <1>2, <1>4, <2>1, LastFile
  <2> QED
    BY <1>3, <2>2
<1>7. InOrder(e) \o (f[c] \o w) = (InOrder(e) \o f[c]) \o w
  <2> DEFINE x == InOrder(e)  y == f[c]
  <2>1. x \in Seq(Frame) /\ y \in Seq(Frame)
    BY <1>1, <1>5
  <2> HIDE DEF x, y
  <2>2. (x \o y) \o w = x \o (y \o w)
    BY <2>1, ConcatAssociative
  <2> QED
    BY <2>2 DEF x, y
<1> QED
  BY <1>2, <1>4, <1>5, <1>6, <1>7 DEF g

\* The last frame of the last file may be lost.
LEMMA LostLast ==
  ASSUME NEW f, IsDisk(f), NEW c \in DOMAIN f, \A t \in Filled(f) : t =< c, f[c] # <<>>
  PROVE  /\ IsDisk([f EXCEPT ![c] = Front(@)])
         /\ IsPrefix(InOrder([f EXCEPT ![c] = Front(@)]), InOrder(f))
         /\ \A t \in Filled([f EXCEPT ![c] = Front(@)]) : t =< c
<1>0. f[c] \in Seq(Frame) /\ c \in Nat
  BY DEF IsDisk
<1>1. Front(f[c]) \in Seq(Frame) /\ \E x \in Frame : f[c] = Front(f[c]) \o <<x>>
  <2> DEFINE s == f[c]  l == Len(s)
  <2>1. l \in Nat /\ l # 0
    BY <1>0, EmptySeq
  <2>2. s \in Seq(Frame) /\ \A i \in 1..l : s[i] \in Frame
    BY <1>0, ElementOfSeq
  <2> HIDE DEF s
  <2>3. SubSeq(s, 1, l - 1) \o SubSeq(s, l, l) = s
    <3>1. 1 \in 1..Len(s) + 1 /\ l - 1 \in (1 - 1)..Len(s) /\ l \in (l - 1)..Len(s) /\ (l - 1) + 1 = l
      BY <2>1
    <3> DEFINE k == l - 1
    <3>2. k \in (1 - 1)..Len(s) /\ l \in k..Len(s) /\ k + 1 = l
      BY <3>1
    <3> HIDE DEF k, l
    <3>3. SubSeq(s, 1, k) \o SubSeq(s, k + 1, l) = SubSeq(s, 1, l)
      BY <2>2, <3>1, <3>2, ConcatAdjacentSubSeq
    <3>4. SubSeq(s, 1, l) = s
      BY <2>2, SubSeqFull DEF l
    <3> QED
      BY <3>2, <3>3, <3>4 DEF k
  <2>4. SubSeq(s, 1, l - 1) \in Seq(Frame)
    <3>1. 1 \in Int /\ l - 1 \in Int /\ \A i \in 1..(l - 1) : s[i] \in Frame
      BY <2>1, <2>2
    <3> QED
      BY <3>1, SubSeqProperties
  <2>5. SubSeq(s, l, l) = <<s[l]>> /\ s[l] \in Frame
    <3>1. l \in 1..Len(s) /\ l \in 1..l
      BY <2>1
    <3>2. SubSeq(s, l, l) = <<s[l]>> \o SubSeq(s, l + 1, l)
      <4>1. l \in l..Len(s)
        BY <3>1
      <4> HIDE DEF l
      <4> QED
        BY <2>2, <3>1, <4>1, SubSeqRecursiveFirst
    <3>3. SubSeq(s, l + 1, l) = <<>>
      BY <2>1, SubSeqEmpty
    <3>4. s[l] \in Frame
      BY <2>2, <3>1
    <3>5. <<s[l]>> \o <<>> = <<s[l]>>
      <4>1. <<s[l]>> \in Seq(Frame)
        BY <3>4
      <4> QED
        BY <4>1, ConcatEmptySeq
    <3> QED
      BY <3>2, <3>3, <3>4, <3>5
  <2>6. Front(s) = SubSeq(s, 1, l - 1)
    BY DEF Front
  <2> QED
    BY <2>3, <2>4, <2>5, <2>6 DEF s
<1>2. PICK x \in Frame : f[c] = Front(f[c]) \o <<x>>
  BY <1>1
<1> DEFINE w == Front(f[c])  g == [f EXCEPT ![c] = Front(@)]  e == [f EXCEPT ![c] = w]
<1>3. g = e
  OBVIOUS
<1>4. w \in Seq(Frame) /\ f[c] = w \o <<x>>
  BY <1>1, <1>2
<1> HIDE DEF w, g
<1>5. /\ IsDisk(e) /\ DOMAIN e = DOMAIN f /\ e[c] = w
      /\ \A t \in DOMAIN f : t # c => e[t] = f[t]
  BY <1>4 DEF IsDisk
<1>6. \A t \in Filled(e) : t =< c
  <2>1. \A t \in Filled(e) : t = c \/ t \in Filled(f)
    BY <1>5 DEF Filled
  <2> QED
    BY <1>0, <2>1
<1>7. f = [e EXCEPT ![c] = @ \o <<x>>]
  <2>1. [e EXCEPT ![c] = @ \o <<x>>] = [t \in DOMAIN f |-> IF t = c THEN w \o <<x>> ELSE e[t]]
    BY <1>5 DEF IsDisk
  <2>2. f = [t \in DOMAIN f |-> f[t]]
    BY DEF IsDisk
  <2>3. \A t \in DOMAIN f : f[t] = IF t = c THEN w \o <<x>> ELSE e[t]
    BY <1>4, <1>5
  <2> QED
    BY <2>1, <2>2, <2>3
<1> HIDE DEF e
<1>8. InOrder(f) = InOrder(e) \o <<x>>
  <2>1. c \in DOMAIN e /\ <<x>> \in Seq(Frame)
    BY <1>5
  <2>2. InOrder([e EXCEPT ![c] = @ \o <<x>>]) = InOrder(e) \o <<x>>
    BY <1>5, <1>6, <2>1, WrittenLast
  <2> QED
    BY <1>7, <2>2
<1>9. IsPrefix(InOrder(e), InOrder(f))
  <2>1. InOrder(e) \in Seq(Frame) /\ <<x>> \in Seq(Frame)
    BY <1>5, InOrderTyped
  <2> QED
    BY <1>8, <2>1, PrefixOfConcat
<1> QED
  BY <1>3, <1>5, <1>6, <1>9 DEF g

\* A new file holds nothing.
LEMMA NewFile ==
  ASSUME NEW f, IsDisk(f), NEW c \in Nat, c \notin DOMAIN f
  PROVE  LET g == [time \in DOMAIN f \cup {c} |-> IF time = c THEN <<>> ELSE f[time]] IN
           /\ IsDisk(g) /\ DOMAIN g = DOMAIN f \cup {c}
           /\ InOrder(g) = InOrder(f) /\ Filled(g) = Filled(f)
<1> DEFINE g == [time \in DOMAIN f \cup {c} |-> IF time = c THEN <<>> ELSE f[time]]
<1>0. <<>> \in Seq(Frame)
  BY EmptySeq
<1>1. g = [time \in DOMAIN f \cup {c} |-> IF time = c THEN <<>> ELSE f[time]]
  OBVIOUS
<1> HIDE DEF g
<1>2. /\ DOMAIN g = DOMAIN f \cup {c} /\ g[c] = <<>>
      /\ \A t \in DOMAIN f : g[t] = f[t]
  BY <1>1
<1>3. IsDisk(g)
  <2>1. IsFiniteSet(DOMAIN f \cup {c})
    BY FS_AddElement DEF IsDisk
  <2>2. g = [t \in DOMAIN g |-> g[t]]
    BY <1>1
  <2>3. DOMAIN g = DOMAIN f \cup {c}
    BY <1>2
  <2> QED
    BY <1>0, <1>2, <2>1, <2>2, <2>3 DEF IsDisk
<1>4. Filled(g) = Filled(f)
  BY <1>2 DEF Filled
<1>5. InTurn(g, Filled(g)) = InTurn(f, Filled(f))
  <2> DEFINE T == Filled(f)
  <2>1. T \in SUBSET DOMAIN f
    BY DEF Filled
  <2> HIDE DEF T
  <2>2. \A n \in 1..Cardinality(T) : Nth(T, n) \in T
    BY <2>1, TurnsAre
  <2>3. \A n \in 1..Cardinality(T) : g[Nth(T, n)] = f[Nth(T, n)]
    BY <1>2, <2>1, <2>2
  <2> QED
    BY <1>4, <2>3 DEF InTurn, T
<1> QED
  BY <1>2, <1>3, <1>4, <1>5, InOrderIs DEF g

(***************************************************************************)
(* The inductive invariant.                                                *)
(***************************************************************************)
Stamp == Nat \ {0}
Running == {"check", "read", "consume"}
Stopped == {"stop", "notify", "join", "ended"}

TypeInv ==
  /\ input \in Inputs /\ pc \in Running \cup Stopped
  /\ connected \in BOOLEAN /\ failed \in BOOLEAN
  /\ pos \in 0..Len(input.bytes) /\ start \in 0..pos
  /\ pending_ \in Bytes /\ todo \in Seq(Frame) /\ heard \in Seq(Frame)
  /\ pending \in Seq(Frame) /\ owed \in Seq(Frame)
  /\ timegps \in {None} \cup Stamp /\ last \in {None} \cup Stamp
  /\ output_path \in {None} \cup Stamp /\ output_path =< last
  /\ output_path = None => last = None

\* The frames of this chunk and those before are what feed() finds in all the
\* bytes since the last break.
DecodeInv ==
  /\ failed => pc \in Stopped
  /\ pc = "consume" => todo # <<>>
  /\ (~failed /\ pc # "consume") => todo = <<>>
  /\ (~failed /\ connected) =>
        heard \o todo = Decoded(Since).frames /\ pending_ = Decoded(Since).pending
  /\ ~connected => heard = <<>> /\ todo = <<>> /\ pending_ = <<>>

\* The interval is what the stream has after its last whole one; a file knows
\* no break, and ends well with nothing left.
IntervalInv ==
  /\ ~failed => Own(heard) = Whole(Own(heard)) \o pending
  /\ input.source = "file" => connected /\ start = 0 /\ owed = <<>>
  /\ (pc \in Stopped /\ ~failed) =>
        /\ input.source = "file" /\ pos = Len(input.bytes)
        /\ pending_ = <<>> /\ pending = <<>>

Job == [path : Int, frames : Seq(Frame), capacity : Int]

WriterInv ==
  /\ queue \in Seq(Job) /\ job \in Job /\ error \in BOOLEAN /\ stopping \in BOOLEAN
  /\ writer \in {"test", "asleep", "open", "write", "account", "ended"}
  /\ current \in {None} \cup Stamp /\ IsDisk(files)
  /\ error => writer = "ended"
  /\ stopping => pc \in {"notify", "join", "ended"}
  /\ (writer = "ended" /\ ~error) => stopping /\ queue = <<>>
  /\ (pc = "ended" /\ ~failed) => ~error /\ writer = "ended"

\* The files are begun in the order of their times, and only the last is open:
\* from the disk to the producer the paths never fall.
Reached == IF writer \in {"open", "write"} THEN job.path ELSE current

PathInv ==
  /\ \A n \in 1..Len(queue) : /\ queue[n].path \in Stamp
                              /\ Reached =< queue[n].path /\ queue[n].path =< output_path
  /\ \A m, n \in 1..Len(queue) : m =< n => queue[m].path =< queue[n].path
  /\ current =< Reached /\ Reached =< output_path
  /\ current # None => current \in DOMAIN files
  /\ \A time \in Filled(files) : time =< current
  /\ writer = "open" => job.path \in Stamp
  /\ writer = "write" => job.path = current /\ current # None

IInv ==
  TypeInv /\ DecodeInv /\ IntervalInv /\ WriterInv /\ PathInv /\ FilesAreStream

LEMMA InputsAre ==
  ASSUME TypeInv
  PROVE  /\ input.bytes \in Bytes /\ Len(input.bytes) \in Nat
         /\ pos \in Nat /\ start \in Nat /\ start =< pos /\ pos =< Len(input.bytes)
         /\ Since \in Bytes /\ input.source \in {"file", "tcp"}
<1>1. input.bytes \in Bytes /\ input.source \in {"file", "tcp"}
  BY InputsAssumption DEF TypeInv, Bytes
<1>2. Len(input.bytes) \in Nat
  BY <1>1, BytesAre
<1>3. pos \in Nat /\ start \in Nat /\ start =< pos /\ pos =< Len(input.bytes)
  BY <1>2 DEF TypeInv
<1>4. SubSeq(input.bytes, start + 1, pos) \in Bytes
  <2>1. start + 1 \in Nat \ {0} /\ start + 1 =< pos + 1
    BY <1>3
  <2> QED
    BY <1>1, <1>3, <2>1, PartIs
<1> QED
  BY <1>1, <1>2, <1>3, <1>4 DEF Since

LEMMA NothingDecoded ==
  Decoded(<<>>) = [frames |-> <<>>, pending |-> <<>>]
<1>1. <<>> \in Bytes
  BY EmptySeq DEF Bytes
<1>2. Decoded(<<>>) = Joined(Act(<<>>), <<>>, Decoded(Rest(<<>>, Act(<<>>).take)))
  BY <1>1, DecodedStep
<1> QED
  BY <1>2 DEF Joined, Act, Wait

LEMMA NothingSince ==
  ASSUME NEW b, NEW p \in Nat
  PROVE  SubSeq(b, p + 1, p) = <<>>
BY SubSeqEmpty

LEMMA InitHolds ==
  ASSUME Init PROVE IInv
<1> USE DEF Init
<1>0. /\ <<>> \in Bytes /\ <<>> \in Seq(Frame) /\ <<>> \in Seq(Job) /\ Len(<<>>) = 0
  BY EmptySeq DEF Bytes
<1>1. TypeInv
  <2>1. input.bytes \in Bytes
    BY InputsAssumption DEF Bytes
  <2>2. Len(input.bytes) \in Nat
    BY <2>1, BytesAre
  <2>3. pos \in 0..Len(input.bytes) /\ start \in 0..pos
    BY <2>2
  <2>4. timegps = None /\ last = None /\ output_path = None /\ None =< None
    BY DEF None
  <2>5. pending_ \in Bytes /\ todo \in Seq(Frame) /\ heard \in Seq(Frame)
        /\ pending \in Seq(Frame) /\ owed \in Seq(Frame)
    BY <1>0
  <2>6. input \in Inputs /\ pc \in Running \cup Stopped /\ connected \in BOOLEAN /\ failed \in BOOLEAN
    BY DEF Running
  <2> QED
    BY <2>3, <2>4, <2>5, <2>6 DEF TypeInv
<1>2. DecodeInv
  <2>1. Since = <<>>
    <3>1. SubSeq(input.bytes, 0 + 1, 0) = <<>>
      BY NothingSince
    <3> QED
      BY <3>1 DEF Since
  <2>2. <<>> \o <<>> = <<>>
    BY <1>0, ConcatEmptySeq
  <2> QED
    BY <2>1, <2>2, NothingDecoded DEF DecodeInv
<1>3. Own(heard) = <<>> /\ Whole(Own(heard)) = <<>> /\ <<>> \o <<>> = <<>>
  <2>1. Own(<<>>) = OwnOf(input.protocol, <<>>)
    BY DEF Own, OwnOf
  <2> QED
    BY <1>0, <2>1, OwnTyped, WholeEmpty, ConcatEmptySeq
<1>4. IntervalInv
  BY <1>3 DEF IntervalInv, Stopped
<1> DEFINE f == [t \in input.existing |-> <<>>]
<1>5. IsDisk(f) /\ Filled(f) = {}
  <2>1. IsFiniteSet(input.existing) /\ input.existing \in SUBSET Nat
    BY InputsAssumption
  <2>2. DOMAIN f = input.existing /\ \A t \in input.existing : f[t] = <<>>
    OBVIOUS
  <2>3. f = [t \in DOMAIN f |-> f[t]]
    OBVIOUS
  <2> HIDE DEF f
  <2> QED
    BY <1>0, <2>1, <2>2, <2>3 DEF IsDisk, Filled
<1>6. files = f
  BY DEF OutputInit
<1> HIDE DEF f
<1>7. WriterInv
  <2>1. NoJob \in Job
    BY <1>0 DEF NoJob, Job, None
  <2> QED
    BY <1>0, <1>5, <1>6, <2>1 DEF OutputInit, WriterInv
<1>8. PathInv
  <2>1. 1..Len(queue) = {}
    BY <1>0 DEF OutputInit
  <2> QED
    BY <1>5, <1>6, <2>1 DEF OutputInit, PathInv, Reached, None
<1>9. FilesAreStream
  <2>1. OnDisk = <<>>
    <3>1. Cardinality({}) = 0
      BY FS_EmptySet
    <3>2. InTurn(f, {}) \in Texts(Frame) /\ Len(InTurn(f, {})) = 0
      BY <1>5, <3>1, TurnsAre
    <3>3. FlattenSeq(InTurn(f, {})) = <<>>
      BY <3>2, FlattenOne
    <3> QED
      BY <1>5, <1>6, <3>3, InOrderIs DEF OnDisk
  <2>2. OnTheWay = <<>>
    <3> DEFINE q == [n \in DOMAIN queue |-> queue[n].frames]
    <3>1. q = <<>>
      BY DEF OutputInit
    <3>2. q \in Texts(Frame) /\ Len(q) = 0
      BY <3>1, EmptySeq DEF Texts
    <3> HIDE DEF q
    <3>3. FlattenSeq(q) = <<>>
      BY <3>2, FlattenOne
    <3> QED
      BY <1>0, <3>3, ConcatEmptySeq DEF OnTheWay, OutputInit, q
  <2>3. IsPrefix(<<>>, <<>>)
    BY <1>0, PrefixSelf
  <2> QED
    BY <1>3, <2>1, <2>2, <2>3 DEF FilesAreStream
<1> QED
  BY <1>1, <1>2, <1>4, <1>7, <1>8, <1>9 DEF IInv

(***************************************************************************)
(* The main thread: decoding and intervals.                                *)
(***************************************************************************)
LoggerInv == TypeInv /\ DecodeInv /\ IntervalInv

\* A step that only goes on to another place, or fails.
LEMMA OnwardKeeps ==
  ASSUME LoggerInv, UNCHANGED <<inputVars, pending_, todo, heard, intervalVars>>,
         pc' \in Running \cup Stopped, failed' \in BOOLEAN, failed => failed',
         failed' => pc' \in Stopped, pc' # "consume", failed' \/ pc # "consume",
         (pc' \in Stopped /\ ~failed') =>
            /\ input.source = "file" /\ pos = Len(input.bytes)
            /\ pending_ = <<>> /\ pending = <<>>
  PROVE  LoggerInv'
<1>1. TypeInv'
  BY DEF LoggerInv, TypeInv, inputVars, intervalVars
<1>2. Since' = Since
  BY DEF Since, inputVars
<1>3. DecodeInv'
  BY <1>2 DEF LoggerInv, DecodeInv, inputVars
<1>4. Own(heard)' = Own(heard)
  <2>1. Own(heard) = OwnOf(input.protocol, heard) /\ Own(heard)' = OwnOf(input'.protocol, heard')
    BY DEF Own, OwnOf
  <2> QED
    BY <2>1 DEF inputVars
<1>5. Whole(Own(heard))' = Whole(Own(heard))
  <2>1. Whole(Own(heard))' = Whole(Own(heard)')
    OBVIOUS
  <2> QED
    BY <1>4, <2>1
<1>6. IntervalInv'
  BY <1>4, <1>5 DEF LoggerInv, IntervalInv, inputVars, intervalVars
<1> QED
  BY <1>1, <1>3, <1>6 DEF LoggerInv

LEMMA OnwardSteps ==
  ASSUME LoggerInv, Check \/ EndOfFile \/ Stop \/ Notify \/ Join
  PROVE  LoggerInv'
<1> USE DEF Running, Stopped
<1>0. pc \in Running \cup Stopped /\ failed \in BOOLEAN /\ (failed => pc \in Stopped)
  BY DEF LoggerInv, TypeInv, DecodeInv
<1>1. CASE Check
  <2>1. /\ pc = "check" /\ UNCHANGED <<inputVars, pending_, todo, heard, intervalVars>>
        /\ \/ failed' = TRUE /\ pc' = "stop"
           \/ failed' = failed /\ pc' = "read"
    BY <1>1 DEF Check, Fail
  <2>2. ~failed /\ pc # "consume"
    BY <1>0, <2>1
  <2>3. CASE failed' = TRUE /\ pc' = "stop"
    BY <2>1, <2>2, <2>3, OnwardKeeps
  <2>4. CASE failed' = failed /\ pc' = "read"
    <3>1. failed' \in BOOLEAN /\ ~failed'
      BY <1>0, <2>2, <2>4
    <3> QED
      BY <2>1, <2>2, <2>4, <3>1, OnwardKeeps
  <2> QED
    BY <2>1, <2>3, <2>4
<1>2. CASE EndOfFile
  <2>1. /\ pc = "read" /\ UNCHANGED <<inputVars, pending_, todo, heard, intervalVars>>
        /\ pc' = "stop" /\ failed' \in BOOLEAN
        /\ input.source = "file" /\ pos = Len(input.bytes)
        /\ ~failed' => pending_ = <<>> /\ pending = <<>>
    BY <1>2 DEF EndOfFile, CutShort
  <2>2. ~failed
    BY <1>0, <2>1
  <2> QED
    BY <1>0, <2>1, <2>2, OnwardKeeps
<1>3. ASSUME Stop \/ Notify PROVE LoggerInv'
  <2>1. /\ pc \in {"stop", "notify"} /\ pc' \in {"notify", "join"}
        /\ UNCHANGED <<inputVars, pending_, todo, heard, intervalVars, failed>>
    BY <1>3 DEF Stop, Notify
  <2>2. ~failed => /\ input.source = "file" /\ pos = Len(input.bytes)
                   /\ pending_ = <<>> /\ pending = <<>>
    BY <2>1 DEF LoggerInv, IntervalInv
  <2> QED
    BY <1>0, <2>1, <2>2, OnwardKeeps
<1>4. CASE Join
  <2>1. /\ pc = "join" /\ pc' = "ended" /\ failed' = (failed \/ error)
        /\ UNCHANGED <<inputVars, pending_, todo, heard, intervalVars>>
    BY <1>4 DEF Join
  <2>2. ~failed => /\ input.source = "file" /\ pos = Len(input.bytes)
                   /\ pending_ = <<>> /\ pending = <<>>
    BY <2>1 DEF LoggerInv, IntervalInv
  <2>3. failed' \in BOOLEAN /\ (failed => failed')
    BY <2>1
  <2> QED
    BY <1>0, <2>1, <2>2, <2>3, OnwardKeeps
<1> QED
  BY <1>1, <1>2, <1>3, <1>4

LEMMA ReadKeeps ==
  ASSUME NoLongestLine, LoggerInv, Read
  PROVE  LoggerInv'
<1>0. /\ pc = "read" /\ connected /\ ~failed /\ todo = <<>>
      /\ pos < Len(input.bytes)
      /\ UNCHANGED <<input, connected, start, breaks, owed, heard, intervalVars, failed>>
  BY DEF Read, LoggerInv, DecodeInv, Stopped
<1>1. PICK most \in Chunks : \E d \in {Decoded(pending_ \o SubSeq(input.bytes, pos + 1, pos + Min({most, Len(input.bytes) - pos})))} :
             /\ pos' = pos + Min({most, Len(input.bytes) - pos}) /\ pending_' = d.pending /\ todo' = d.frames
             /\ pc' = IF d.frames = <<>> THEN "check" ELSE "consume"
  BY DEF Read
<1> DEFINE b == input.bytes  n == Min({most, Len(b) - pos})
           chunk == SubSeq(b, pos + 1, pos + n)  d == Decoded(pending_ \o chunk)
<1>2. b \in Bytes /\ Len(b) \in Nat /\ pos \in Nat /\ start \in Nat /\ start =< pos /\ pos =< Len(b)
      /\ Since \in Bytes
  BY InputsAre DEF LoggerInv
<1>3. n \in Nat /\ pos + n =< Len(b)
  <2> DEFINE l == Len(b) - pos
  <2>1. most \in Nat /\ l \in Nat
    BY <1>0, <1>2, InputsAssumption
  <2> HIDE DEF l
  <2>2. Min({most, l}) \in {most, l} /\ Min({most, l}) =< l
    <3>1. \E x \in {most, l} : \A y \in {most, l} : x =< y
      BY <2>1
    <3> QED
      BY <3>1 DEF Min
  <2>3. n \in Nat /\ n =< l
    BY <2>1, <2>2 DEF l
  <2> HIDE DEF n
  <2> QED
    BY <1>2, <2>3 DEF l
<1>4. pos' = pos + n /\ pending_' = d.pending /\ todo' = d.frames
      /\ pc' = IF d.frames = <<>> THEN "check" ELSE "consume"
  BY <1>1
<1> HIDE DEF n, b
<1>5. chunk \in Bytes /\ Since' = Since \o chunk
  <2>1. pos + 1 \in Nat \ {0} /\ pos + n \in Nat /\ pos + 1 =< pos + n + 1
    BY <1>2, <1>3
  <2>2. SubSeq(b, pos + 1, pos + n) \in Bytes
    BY <1>2, <1>3, <2>1, PartIs
  <2>3. SubSeq(b, start + 1, pos) \o SubSeq(b, pos + 1, pos + n) = SubSeq(b, start + 1, pos + n)
    <3> DEFINE m == start + 1  k == pos + n
    <3>1. m \in 1..Len(b) + 1 /\ pos \in (m - 1)..Len(b) /\ k \in pos..Len(b)
      BY <1>2, <1>3
    <3> HIDE DEF m, k
    <3>2. SubSeq(b, m, pos) \o SubSeq(b, pos + 1, k) = SubSeq(b, m, k)
      BY <1>2, <3>1, ConcatAdjacentSubSeq DEF Bytes
    <3> QED
      BY <3>2 DEF m, k
  <2>4. Since' = SubSeq(b, start + 1, pos + n) /\ Since = SubSeq(b, start + 1, pos)
    BY <1>0, <1>4 DEF Since, b
  <2> QED
    BY <2>2, <2>3, <2>4
<1>6. heard = Decoded(Since).frames /\ pending_ = Decoded(Since).pending
  <2>1. heard \o todo = Decoded(Since).frames /\ pending_ = Decoded(Since).pending /\ heard \in Seq(Frame)
    BY <1>0 DEF LoggerInv, DecodeInv, TypeInv
  <2>2. heard \o todo = heard
    BY <1>0, <2>1, ConcatEmptySeq
  <2> QED
    BY <2>1, <2>2
<1> HIDE DEF chunk
<1>7. /\ Decoded(Since \o chunk).frames = Decoded(Since).frames \o d.frames
      /\ Decoded(Since \o chunk).pending = d.pending
  BY <1>2, <1>5, <1>6, ChunkCut
<1>8. d \in Outcome
  <2>1. pending_ \in Bytes
    BY DEF LoggerInv, TypeInv
  <2>2. pending_ \o chunk \in Bytes
    BY <1>5, <2>1, Behind
  <2> QED
    BY <2>2, DecodedTyped
<1> HIDE DEF d
<1>9. d.frames \in Seq(Frame) /\ d.pending \in Bytes
  BY <1>8 DEF Outcome
<1>10. TypeInv'
  <2>1. pos' \in 0..Len(input'.bytes) /\ start' \in 0..pos'
    BY <1>0, <1>2, <1>3, <1>4 DEF b
  <2>2. pc' \in Running
    BY <1>4 DEF Running
  <2> QED
    BY <1>0, <1>4, <1>9, <2>1, <2>2 DEF LoggerInv, TypeInv, intervalVars
<1>11. DecodeInv'
  <2>1. ~failed' /\ connected'
    BY <1>0
  <2>2. heard' \o todo' = Decoded(Since').frames /\ pending_' = Decoded(Since').pending
    BY <1>0, <1>4, <1>5, <1>6, <1>7
  <2>3. (pc' = "consume" => todo' # <<>>) /\ (pc' # "consume" => todo' = <<>>)
    BY <1>4
  <2> QED
    BY <2>1, <2>2, <2>3 DEF DecodeInv
<1>12. IntervalInv'
  <2>1. Own(heard) = OwnOf(input.protocol, heard) /\ Own(heard)' = OwnOf(input'.protocol, heard')
    BY DEF Own, OwnOf
  <2>2. Own(heard)' = Own(heard)
    BY <1>0, <2>1
  <2>3. Whole(Own(heard))' = Whole(Own(heard))
    <3>1. Whole(Own(heard))' = Whole(Own(heard)')
      OBVIOUS
    <3> QED
      BY <2>2, <3>1
  <2>4. pc' \notin Stopped
    BY <1>4 DEF Stopped
  <2> QED
    BY <1>0, <2>2, <2>3, <2>4 DEF LoggerInv, IntervalInv, intervalVars
<1> QED
  BY <1>10, <1>11, <1>12 DEF LoggerInv

\* What the logger starts afresh after a break.
LEMMA AfreshKeeps ==
  ASSUME LoggerInv, ~failed, input' = input, pc' = "check", failed' = failed,
         connected' \in BOOLEAN, input.source # "file",
         pos' \in Nat, pos' =< Len(input.bytes), start' \in 0..pos',
         connected' => start' = pos',
         pending_' = <<>>, todo' = <<>>, heard' = <<>>, pending' = <<>>,
         timegps' \in {None} \cup Stamp, owed' \in Seq(Frame),
         UNCHANGED <<last, output_path>>
  PROVE  LoggerInv'
<1>0. <<>> \in Bytes /\ <<>> \in Seq(Frame)
  BY EmptySeq DEF Bytes
<1>1. TypeInv'
  <2>1. Len(input.bytes) \in Nat
    BY InputsAre DEF LoggerInv
  <2>2. pos' \in 0..Len(input'.bytes)
    BY <2>1
  <2> QED
    BY <1>0, <2>2 DEF LoggerInv, TypeInv, Running
<1>2. DecodeInv'
  <2>1. connected' => Since' = <<>>
    <3> SUFFICES ASSUME connected' PROVE Since' = <<>>
      OBVIOUS
    <3> DEFINE p == pos'
    <3>1. Since' = SubSeq(input'.bytes, p + 1, p) /\ p \in Nat
      BY DEF Since
    <3> HIDE DEF p
    <3> QED
      BY <3>1, NothingSince
  <2>2. <<>> \o <<>> = <<>>
    BY <1>0, ConcatEmptySeq
  <2> QED
    BY <2>1, <2>2, NothingDecoded DEF DecodeInv
<1>3. IntervalInv'
  <2>1. Own(heard)' = OwnOf(input'.protocol, heard')
    BY DEF Own, OwnOf
  <2>2. Own(heard)' = <<>>
    BY <1>0, <2>1, OwnTyped
  <2>3. Whole(Own(heard))' = <<>>
    <3>1. Whole(Own(heard))' = Whole(Own(heard)')
      OBVIOUS
    <3> QED
      BY <2>2, <3>1, WholeEmpty
  <2>4. <<>> \o <<>> = <<>>
    BY <1>0, ConcatEmptySeq
  <2> QED
    BY <2>2, <2>3, <2>4 DEF IntervalInv, Stopped
<1> QED
  BY <1>1, <1>2, <1>3 DEF LoggerInv

LEMMA OwnIs ==
  ASSUME TypeInv, NEW h \in Seq(Frame)
  PROVE  /\ Own(h) \in Seq(Frame) /\ Whole(Own(h)) \in Seq(Frame)
         /\ Own(h) = OwnOf(input.protocol, h)
<1>1. Own(h) = OwnOf(input.protocol, h)
  BY DEF Own, OwnOf
<1> QED
  BY <1>1, OwnTyped, WholeTyped

\* A break settles what the bytes before it were worth.
LEMMA BreakKeeps ==
  ASSUME LoggerInv, Break, connected' \in BOOLEAN
  PROVE  LoggerInv' /\ owed' = owed \o Whole(Own(heard)) /\ heard' = <<>>
<1>0. /\ pc = "read" /\ input.source = "tcp" /\ connected /\ pc' = "check" /\ ~failed
      /\ pending_' = <<>> /\ pending' = <<>> /\ timegps' = None
      /\ start' = pos /\ heard' = <<>> /\ todo = <<>>
      /\ UNCHANGED <<input, pos, todo, last, output_path, failed>>
  BY DEF Break, Discard, LoggerInv, DecodeInv, Stopped
<1>1. owed' = owed \o Whole(Own(Decoded(Since).frames))
  BY DEF Break
<1>2. heard = Decoded(Since).frames
  <2>1. heard \o todo = Decoded(Since).frames /\ heard \in Seq(Frame)
    BY <1>0 DEF LoggerInv, DecodeInv, TypeInv
  <2>2. heard \o todo = heard
    BY <1>0, <2>1, ConcatEmptySeq
  <2> QED
    BY <2>1, <2>2
<1>3. owed' = owed \o Whole(Own(heard))
  BY <1>1, <1>2
<1>4. owed' \in Seq(Frame)
  <2>1. heard \in Seq(Frame) /\ owed \in Seq(Frame)
    BY DEF LoggerInv, TypeInv
  <2>2. Whole(Own(heard)) \in Seq(Frame)
    BY <2>1, OwnIs DEF LoggerInv
  <2> QED
    BY <1>3, <2>1, <2>2, ConcatProperties
<1>5. pos \in Nat /\ pos =< Len(input.bytes) /\ pos \in 0..pos
  BY InputsAre DEF LoggerInv
<1> QED
  BY <1>0, <1>3, <1>4, <1>5, AfreshKeeps

LEMMA ReconnectKeeps ==
  ASSUME LoggerInv, Reconnect
  PROVE  LoggerInv'
<1>0. /\ pc = "read" /\ ~connected /\ pc' = "check" /\ ~failed
      /\ heard = <<>> /\ todo = <<>> /\ pending_ = <<>>
      /\ UNCHANGED <<input, breaks, owed, pending_, todo, heard, intervalVars, failed>>
  BY DEF Reconnect, LoggerInv, DecodeInv, Stopped
<1>1. Own(heard) = OwnOf(input.protocol, heard)
  BY DEF Own, OwnOf
<1>2. <<>> \in Seq(Frame)
  BY EmptySeq
<1>3. pending = <<>>
  <2>1. Own(heard) = <<>>
    BY <1>0, <1>1, <1>2, OwnTyped
  <2>2. Own(heard) = Whole(Own(heard)) \o pending
    BY <1>0 DEF LoggerInv, IntervalInv
  <2>3. <<>> \o pending = pending
    <3>1. pending \in Seq(Frame)
      BY DEF LoggerInv, TypeInv
    <3> QED
      BY <3>1, ConcatEmptySeq
  <2> QED
    BY <2>1, <2>2, <2>3, WholeEmpty
<1>4. input.source # "file" /\ owed \in Seq(Frame) /\ timegps \in {None} \cup Stamp
  BY <1>0 DEF LoggerInv, IntervalInv, TypeInv
<1>5. pos \in Nat /\ start \in 0..pos /\ pos =< Len(input.bytes) /\ Len(input.bytes) \in Nat
  BY InputsAre DEF LoggerInv
<1>6. CASE connected' = TRUE
  <2>1. CASE UNCHANGED <<connected, pos, start>>
    BY <1>0, <1>6, <2>1
  <2>2. CASE ~UNCHANGED <<connected, pos, start>>
    <3>1. PICK lost \in {0} \cup Chunks : pos' = Min({pos + lost, Len(input.bytes)}) /\ start' = pos'
      BY <2>2 DEF Reconnect
    <3> DEFINE l == Len(input.bytes)  p == pos + lost
    <3>2. p \in Nat /\ l \in Nat
      BY <1>5, InputsAssumption
    <3>3. pos' = Min({p, l})
      BY <3>1
    <3> HIDE DEF l, p
    <3>4. Min({p, l}) \in {p, l} /\ Min({p, l}) =< l
      <4>1. \E x \in {p, l} : \A y \in {p, l} : x =< y
        BY <3>2
      <4> QED
        BY <4>1 DEF Min
    <3>5. pos' \in Nat /\ pos' =< l /\ start' = pos' /\ start' \in 0..pos'
      BY <3>1, <3>2, <3>3, <3>4
    <3> QED
      BY <1>0, <1>3, <1>4, <1>6, <3>5, AfreshKeeps DEF l, intervalVars
  <2> QED
    BY <2>1, <2>2
<1>7. CASE connected' # TRUE
  <2>1. UNCHANGED <<connected, pos, start>>
    BY <1>7 DEF Reconnect
  <2>2. connected' \in BOOLEAN /\ ~connected'
    BY <1>0, <1>7, <2>1 DEF LoggerInv, TypeInv
  <2>3. pos' \in Nat /\ pos' =< Len(input.bytes) /\ start' \in 0..pos'
    BY <1>5, <2>1
  <2> QED
    BY <1>0, <1>3, <1>4, <2>2, <2>3, AfreshKeeps DEF intervalVars
<1> QED
  BY <1>6, <1>7

(***************************************************************************)
(* consume().                                                              *)
(***************************************************************************)
LEMMA FrameMeans ==
  ASSUME NEW f \in Frame, Meaning[f].kind \in {"time", "end"}
  PROVE  Meaning[f].time \in Stamp
BY InputsAssumption DEF Frame, Stamp

\* What one call of consume() does: it refuses, keeps the frame or, at the end
\* of an interval, hands the interval over.
Refuses == Refuse
Keeps(f) ==
  \E frames, time : /\ Keep(frames, time) /\ time \in {None} \cup Stamp
                    /\ \/ ProtocolOf(f) # input.protocol /\ frames = pending
                       \/ ProtocolOf(f) = input.protocol /\ ~Ends(f) /\ frames = Append(pending, f)
Records(f) ==
  \E time \in Stamp : /\ Record(time, Append(pending, f))
                      /\ ProtocolOf(f) = input.protocol /\ Ends(f)

LEMMA ConsumeDoes ==
  ASSUME LoggerInv, Consume
  PROVE  LET f == Head(todo) IN
           /\ pc = "consume" /\ ~failed /\ todo # <<>> /\ f \in Frame
           /\ todo' = Tail(todo) /\ heard' = Append(heard, f)
           /\ UNCHANGED <<inputVars, pending_>>
           /\ Refuses \/ Keeps(f) \/ Records(f)
<1> DEFINE f == Head(todo)  frames == Append(pending, f)  m == Meaning[f]
<1>1. /\ pc = "consume" /\ ~failed /\ todo # <<>> /\ todo \in Seq(Frame)
      /\ todo' = Tail(todo) /\ heard' = Append(heard, f)
      /\ UNCHANGED <<inputVars, pending_>> /\ timegps \in {None} \cup Stamp
  BY DEF Consume, LoggerInv, DecodeInv, TypeInv, Stopped
<1>2. f \in Frame
  BY <1>1, HeadTailProperties
<1> SUFFICES Refuses \/ Keeps(f) \/ Records(f)
  BY <1>1, <1>2
<1>3. m.kind \in {"time", "end"} => m.time \in Stamp
  BY <1>2, FrameMeans
<1>4. \/ ProtocolOf(f) # input.protocol /\ Keep(pending, timegps)
      \/ Refuse
      \/ ProtocolOf(f) = input.protocol /\ ConsumeSbf(m, frames)
      \/ ProtocolOf(f) = input.protocol /\ ConsumeUbx(m, frames)
  BY DEF Consume
<1> HIDE DEF f, frames, m
<1>5. CASE ProtocolOf(f) # input.protocol /\ Keep(pending, timegps)
  BY <1>1, <1>5 DEF Keeps
<1>6. CASE Refuse
  BY <1>6 DEF Refuses
<1>7. CASE ProtocolOf(f) = input.protocol /\ ConsumeSbf(m, frames)
  <2>1. CASE m.kind = "end" /\ m.ok
    <3>1. Record(m.time, frames)
      BY <1>7, <2>1 DEF ConsumeSbf
    <3>2. Ends(f) /\ m.time \in Stamp
      BY <1>3, <2>1 DEF Ends, m
    <3> QED
      BY <1>7, <3>1, <3>2 DEF Records, frames
  <2>2. CASE m.kind = "end" /\ ~m.ok
    BY <1>7, <2>2 DEF ConsumeSbf, Refuses
  <2>3. CASE m.kind # "end"
    <3>1. Keep(frames, None)
      BY <1>7, <2>3 DEF ConsumeSbf
    <3>2. ~Ends(f)
      BY <2>3 DEF Ends, m
    <3> QED
      BY <1>7, <3>1, <3>2 DEF Keeps, frames
  <2> QED
    BY <2>1, <2>2, <2>3
<1>8. CASE ProtocolOf(f) = input.protocol /\ ConsumeUbx(m, frames)
  <2>1. CASE m.kind = "time"
    <3>1. Keep(frames, m.time) \/ Refuse
      BY <1>8, <2>1 DEF ConsumeUbx
    <3>2. ~Ends(f) /\ m.time \in Stamp
      BY <1>3, <2>1 DEF Ends, m
    <3> QED
      BY <1>8, <3>1, <3>2 DEF Keeps, Refuses, frames
  <2>2. CASE m.kind = "end"
    <3>1. (timegps # None /\ Record(timegps, frames)) \/ Refuse
      BY <1>8, <2>2 DEF ConsumeUbx
    <3>2. Ends(f)
      BY <2>2 DEF Ends, m
    <3> QED
      BY <1>1, <1>8, <3>1, <3>2 DEF Records, Refuses, frames
  <2>3. CASE m.kind \notin {"time", "end"}
    <3>1. Keep(frames, timegps)
      BY <1>8, <2>3 DEF ConsumeUbx
    <3>2. ~Ends(f)
      BY <2>3 DEF Ends, m
    <3> QED
      BY <1>1, <1>8, <3>1, <3>2 DEF Keeps, frames
  <2> QED
    BY <2>1, <2>2, <2>3
<1> QED
  BY <1>4, <1>5, <1>6, <1>7, <1>8

\* What record() does: it refuses too, or submits the interval.
Submits(f) ==
  \E time \in Stamp, capacity \in Int :
    LET path == IF last = None \/ time \div Day # last \div Day THEN time ELSE output_path IN
      /\ ProtocolOf(f) = input.protocol /\ Ends(f)
      /\ ~(time =< last) /\ ~error
      /\ Push(path, Append(pending, f), capacity)
      /\ pending' = <<>> /\ timegps' = None /\ last' = time /\ output_path' = path
      /\ UNCHANGED failed
      /\ pc' = IF Len(todo) = 1 THEN "check" ELSE "consume"

LEMMA RecordDoes ==
  ASSUME LoggerInv, NEW f \in Frame, Records(f)
  PROVE  Refuses \/ Submits(f)
<1>1. PICK time \in Stamp : /\ Record(time, Append(pending, f))
                            /\ ProtocolOf(f) = input.protocol /\ Ends(f)
  BY DEF Records
<1> DEFINE frames == Append(pending, f)
           path == IF last = None \/ time \div Day # last \div Day THEN time ELSE output_path
<1>2. frames \in Seq(Frame)
  BY AppendProperties DEF LoggerInv, TypeInv
<1>3. Len(frames) \in Int /\ 2 * Len(frames) \in Int
  <2>1. Len(frames) \in Nat
    BY <1>2, LenProperties
  <2> HIDE DEF frames
  <2> QED
    BY <2>1
<1>4. PICK capacity \in {Len(frames), 2 * Len(frames)} :
        IF time =< last \/ Refused(capacity)
          THEN Fail /\ UNCHANGED <<intervalVars, outputVars>>
          ELSE /\ Push(path, frames, capacity)
               /\ pending' = <<>> /\ timegps' = None /\ last' = time /\ output_path' = path
               /\ UNCHANGED failed
               /\ pc' = IF Len(todo) = 1 THEN "check" ELSE "consume"
  BY <1>1 DEF Record
<1>5. capacity \in Int
  BY <1>3
<1> HIDE DEF frames, path
<1>6. CASE time =< last \/ Refused(capacity)
  BY <1>4, <1>6 DEF Refuses, Refuse
<1>7. CASE ~(time =< last \/ Refused(capacity))
  <2>1. ~error
    BY <1>7 DEF Refused
  <2> QED
    BY <1>1, <1>4, <1>5, <1>7, <2>1 DEF Submits, frames, path
<1> QED
  BY <1>6, <1>7

LEMMA FramesAssociate ==
  ASSUME NEW s \in Seq(Frame), NEW t \in Seq(Frame), NEW u \in Seq(Frame)
  PROVE  (s \o t) \o u = s \o (t \o u) /\ s \o t \in Seq(Frame)
BY ConcatAssociative, ConcatProperties

\* The frame gone by, whatever becomes of it.
LEMMA FrameGoesBy ==
  ASSUME TypeInv, todo # <<>>
  PROVE  /\ Head(todo) \in Frame /\ Tail(todo) \in Seq(Frame)
         /\ Append(heard, Head(todo)) \in Seq(Frame)
         /\ Append(heard, Head(todo)) \o Tail(todo) = heard \o todo
         /\ Len(todo) = 1 <=> Tail(todo) = <<>>
<1> DEFINE x == Head(todo)  r == Tail(todo)
<1>1. todo \in Seq(Frame) /\ heard \in Seq(Frame)
  BY DEF TypeInv
<1>2. x \in Frame /\ r \in Seq(Frame) /\ Len(r) = Len(todo) - 1
  BY <1>1, HeadTailProperties
<1>3. Append(heard, x) \in Seq(Frame) /\ Append(heard, x) = heard \o <<x>> /\ <<x>> \in Seq(Frame)
  BY <1>1, <1>2, AppendProperties, AppendIsConcat
<1>4. todo = <<x>> \o r
  <2>1. Len(todo) \in Nat /\ Len(todo) # 0
    BY <1>1, EmptySeq
  <2>2. 1 \in 1..Len(todo) /\ Len(todo) \in 1..Len(todo)
    BY <2>1
  <2>3. SubSeq(todo, 1, Len(todo)) = <<todo[1]>> \o SubSeq(todo, 1 + 1, Len(todo))
    BY <1>1, <2>2, SubSeqRecursiveFirst
  <2>4. SubSeq(todo, 1, Len(todo)) = todo /\ r = SubSeq(todo, 2, Len(todo)) /\ x = todo[1]
    BY <1>1, SubSeqFull, TailIsSubSeq
  <2> QED
    BY <2>3, <2>4
<1>5. (heard \o <<x>>) \o r = heard \o (<<x>> \o r)
  <2> DEFINE y == <<x>>
  <2>1. y \in Seq(Frame)
    BY <1>3
  <2> HIDE DEF y, r
  <2>2. heard \in Seq(Frame) /\ y \in Seq(Frame) /\ r \in Seq(Frame)
    BY <1>1, <1>2, <2>1
  <2>3. (heard \o y) \o r = heard \o (y \o r)
    BY ONLY <2>2, FramesAssociate
  <2> QED
    BY <2>3 DEF y
<1>6. Len(todo) = 1 <=> r = <<>>
  <2>1. Len(todo) \in Nat /\ (Len(r) = 0 <=> r = <<>>)
    BY <1>1, <1>2, EmptySeq
  <2> QED
    BY <1>2, <2>1
<1> QED
  BY <1>2, <1>3, <1>4, <1>5, <1>6

\* What a frame adds to the stream's intervals.
LEMMA FrameCounts ==
  ASSUME TypeInv, NEW f \in Frame
  PROVE  /\ ProtocolOf(f) # input.protocol => Own(Append(heard, f)) = Own(heard)
         /\ ProtocolOf(f) = input.protocol => Own(Append(heard, f)) = Append(Own(heard), f)
         /\ IsPrefix(Whole(Own(heard)), Whole(Own(Append(heard, f))))
         /\ Append(heard, f) \in Seq(Frame)
<1>1. heard \in Seq(Frame) /\ Append(heard, f) \in Seq(Frame)
  BY AppendProperties DEF TypeInv
<1>2. /\ Own(heard) \in Seq(Frame) /\ Whole(Own(heard)) \in Seq(Frame)
      /\ Own(heard) = OwnOf(input.protocol, heard)
      /\ Own(Append(heard, f)) = OwnOf(input.protocol, Append(heard, f))
  BY <1>1, OwnIs
<1>3. OwnOf(input.protocol, Append(heard, f)) =
        IF ProtocolOf(f) = input.protocol THEN Append(OwnOf(input.protocol, heard), f)
        ELSE OwnOf(input.protocol, heard)
  BY <1>1, OwnTyped
<1>4. IsPrefix(Whole(Own(heard)), Whole(Append(Own(heard), f)))
  BY <1>2, WholeGrows
<1>5. IsPrefix(Whole(Own(heard)), Whole(Own(heard)))
  BY <1>2, PrefixSelf
<1> QED
  BY <1>1, <1>2, <1>3, <1>4, <1>5

LEMMA AppendConcat ==
  ASSUME NEW s \in Seq(Frame), NEW t \in Seq(Frame), NEW x \in Frame
  PROVE  Append(s \o t, x) = s \o Append(t, x) /\ Append(t, x) \in Seq(Frame)
<1>1. s \o t \in Seq(Frame) /\ <<x>> \in Seq(Frame)
  BY ConcatProperties
<1>2. Append(s \o t, x) = (s \o t) \o <<x>> /\ Append(t, x) = t \o <<x>>
  BY <1>1, AppendIsConcat
<1> DEFINE y == <<x>>
<1>3. y \in Seq(Frame)
  BY <1>1
<1> HIDE DEF y
<1>4. (s \o t) \o y = s \o (t \o y)
  BY <1>3, ConcatAssociative
<1> QED
  BY <1>2, <1>4, AppendProperties DEF y

LEMMA FramesJoin ==
  /\ \A s, t \in Seq(Frame) : s \o t \in Seq(Frame)
  /\ \A s, t, u \in Seq(Frame) : (s \o t) \o u = s \o (t \o u)
  /\ \A s \in Seq(Frame), x \in Frame : Append(s, x) \in Seq(Frame)
  /\ \A s, t \in Seq(Frame), x \in Frame : Append(s \o t, x) = s \o Append(t, x)
<1>1. ASSUME NEW s \in Seq(Frame), NEW t \in Seq(Frame) PROVE s \o t \in Seq(Frame)
  BY ConcatProperties
<1>2. ASSUME NEW s \in Seq(Frame), NEW t \in Seq(Frame), NEW u \in Seq(Frame)
      PROVE (s \o t) \o u = s \o (t \o u)
  BY ConcatAssociative
<1>3. ASSUME NEW s \in Seq(Frame), NEW x \in Frame PROVE Append(s, x) \in Seq(Frame)
  BY AppendProperties
<1>4. ASSUME NEW s \in Seq(Frame), NEW t \in Seq(Frame), NEW x \in Frame
      PROVE Append(s \o t, x) = s \o Append(t, x)
  BY AppendConcat
<1> QED
  BY <1>1, <1>2, <1>3, <1>4

\* What the stream so far is worth: whole intervals, break by break.
Due == owed \o Whole(Own(heard))

LEMMA DueTyped ==
  ASSUME TypeInv
  PROVE  Due \in Seq(Frame)
<1>1. owed \in Seq(Frame) /\ Whole(Own(heard)) \in Seq(Frame)
  BY OwnIs DEF TypeInv
<1> QED
  BY <1>1, ConcatProperties DEF Due

\* The decoder's part of the invariant, for every outcome of consume().
LEMMA ConsumeDecodes ==
  ASSUME LoggerInv, pc = "consume", ~failed, todo # <<>>,
         todo' = Tail(todo), heard' = Append(heard, Head(todo)),
         UNCHANGED <<inputVars, pending_>>,
         \/ failed' = TRUE /\ pc' = "stop"
         \/ failed' = failed /\ pc' = IF Len(todo) = 1 THEN "check" ELSE "consume"
  PROVE  DecodeInv' /\ connected
<1>1. /\ Append(heard, Head(todo)) \o Tail(todo) = heard \o todo
      /\ Len(todo) = 1 <=> Tail(todo) = <<>>
  BY FrameGoesBy DEF LoggerInv
<1>2. connected /\ connected' = connected
  BY DEF LoggerInv, DecodeInv, inputVars
<1>3. Since' = Since
  BY DEF Since, inputVars
<1>4. heard' \o todo' = Decoded(Since').frames /\ pending_' = Decoded(Since').pending
  BY <1>1, <1>2, <1>3 DEF LoggerInv, DecodeInv
<1>5. CASE failed' = TRUE /\ pc' = "stop"
  BY <1>2, <1>4, <1>5 DEF DecodeInv, Stopped
<1>6. CASE failed' = failed /\ pc' = IF Len(todo) = 1 THEN "check" ELSE "consume"
  <2>1. ~failed' /\ (pc' = "consume" => todo' # <<>>) /\ (pc' # "consume" => todo' = <<>>)
    BY <1>1, <1>6
  <2> QED
    BY <1>2, <1>4, <2>1 DEF DecodeInv
<1> QED
  BY <1>2, <1>5, <1>6

LEMMA RefuseKeeps ==
  ASSUME LoggerInv, Consume, Refuses
  PROVE  LoggerInv' /\ failed' /\ IsPrefix(Due, Due')
<1> DEFINE f == Head(todo)
<1>1. /\ pc = "consume" /\ ~failed /\ todo # <<>> /\ f \in Frame
      /\ todo' = Tail(todo) /\ heard' = Append(heard, f)
      /\ UNCHANGED <<inputVars, pending_>>
  BY ConsumeDoes
<1>2. failed' = TRUE /\ pc' = "stop" /\ UNCHANGED intervalVars
  BY DEF Refuses, Refuse, Fail
<1>3. Tail(todo) \in Seq(Frame) /\ Append(heard, f) \in Seq(Frame)
  BY <1>1, FrameGoesBy DEF LoggerInv
<1>4. TypeInv'
  BY <1>1, <1>2, <1>3 DEF LoggerInv, TypeInv, inputVars, intervalVars, Stopped
<1>5. DecodeInv'
  BY <1>1, <1>2, ConsumeDecodes
<1>6. IntervalInv'
  BY <1>1, <1>2 DEF LoggerInv, IntervalInv, inputVars
<1>7. IsPrefix(Due, Due')
  <2> DEFINE w == Whole(Own(heard))  v == Whole(Own(Append(heard, f)))
  <2>1. IsPrefix(w, v)
    BY <1>1, FrameCounts DEF LoggerInv
  <2>2. w \in Seq(Frame) /\ v \in Seq(Frame) /\ owed \in Seq(Frame)
    BY <1>3, OwnIs DEF LoggerInv, TypeInv
  <2>3. Due = owed \o w
    BY DEF Due
  <2>4. Due' = owed \o v
    <3>1. Due' = owed' \o Whole(Own(heard)')
      BY DEF Due
    <3>2. Own(heard)' = OwnOf(input'.protocol, heard')
      BY DEF Own, OwnOf
    <3>3. Own(Append(heard, f)) = OwnOf(input.protocol, Append(heard, f))
      BY <1>3, OwnIs DEF LoggerInv
    <3> QED
      BY <1>1, <3>1, <3>2, <3>3 DEF inputVars
  <2> HIDE DEF w, v
  <2>5. PICK u \in Seq(Frame) : v = w \o u
    BY <2>1, <2>2, PrefixIs
  <2>6. owed \o (w \o u) = (owed \o w) \o u /\ owed \o w \in Seq(Frame)
    BY <2>2, FramesJoin
  <2> QED
    BY <2>3, <2>4, <2>5, <2>6, PrefixOfConcat
<1> QED
  BY <1>2, <1>4, <1>5, <1>6, <1>7 DEF LoggerInv

\* A frame kept and an interval handed over: what follows the last whole
\* interval of the stream stays in hand.
LEMMA GoesOn ==
  ASSUME LoggerInv, Consume, ~failed', pending' \in Seq(Frame),
         LET f == Head(todo) IN
           \/ /\ ProtocolOf(f) # input.protocol /\ pending' = pending
           \/ /\ ProtocolOf(f) = input.protocol /\ ~Ends(f) /\ pending' = Append(pending, f)
           \/ /\ ProtocolOf(f) = input.protocol /\ Ends(f) /\ pending' = <<>>
  PROVE  /\ Own(heard)' = Whole(Own(heard))' \o pending'
         /\ LET f == Head(todo) IN
              Due' = IF ProtocolOf(f) = input.protocol /\ Ends(f)
                       THEN Due \o Append(pending, f) ELSE Due
<1> DEFINE f == Head(todo)  o == Own(heard)  w == Whole(Own(heard))
<1>1. /\ ~failed /\ todo # <<>> /\ f \in Frame
      /\ heard' = Append(heard, f) /\ UNCHANGED <<inputVars, pending_>>
  BY ConsumeDoes
<1>2. o \in Seq(Frame) /\ w \in Seq(Frame) /\ owed \in Seq(Frame) /\ pending \in Seq(Frame)
  BY OwnIs DEF LoggerInv, TypeInv
<1>3. o = w \o pending
  BY <1>1 DEF LoggerInv, IntervalInv
<1>4. Own(heard)' = IF ProtocolOf(f) = input.protocol THEN Append(o, f) ELSE o
  <2>1. Own(heard)' = OwnOf(input'.protocol, heard')
    BY DEF Own, OwnOf
  <2>2. Append(heard, f) \in Seq(Frame)
    BY <1>1, FrameCounts DEF LoggerInv
  <2>3. Own(Append(heard, f)) = OwnOf(input.protocol, Append(heard, f))
    BY <2>2, OwnIs DEF LoggerInv
  <2>4. Own(heard)' = Own(Append(heard, f))
    BY <1>1, <2>1, <2>3 DEF inputVars
  <2> QED
    BY <1>1, <2>4, FrameCounts DEF LoggerInv
<1>5. Whole(Own(heard))' = Whole(Own(heard)') /\ Due' = owed \o Whole(Own(heard)') /\ Due = owed \o w
  BY <1>1 DEF Due, inputVars
<1>6. w = Whole(o)
  OBVIOUS
<1> HIDE DEF f, o, w
<1>7. CASE ProtocolOf(f) # input.protocol /\ pending' = pending
  BY <1>3, <1>4, <1>5, <1>6, <1>7 DEF f
<1>8. CASE ProtocolOf(f) = input.protocol /\ ~Ends(f) /\ pending' = Append(pending, f)
  <2>1. Whole(Append(o, f)) = w
    BY <1>1, <1>2, <1>6, <1>8, WholeGrows
  <2>2. Append(o, f) = w \o Append(pending, f)
    BY <1>1, <1>2, <1>3, AppendConcat
  <2> QED
    BY <1>4, <1>5, <1>8, <2>1, <2>2 DEF f
<1>9. CASE ProtocolOf(f) = input.protocol /\ Ends(f) /\ pending' = <<>>
  <2>1. Whole(Append(o, f)) = Append(o, f)
    BY <1>1, <1>2, <1>9, WholeGrows
  <2>2. Append(o, f) = w \o Append(pending, f) /\ Append(o, f) \in Seq(Frame)
    <3>1. Append(o, f) = w \o Append(pending, f)
      BY <1>1, <1>2, <1>3, AppendConcat
    <3> QED
      BY <1>1, <1>2, <3>1, AppendProperties
  <2>3. Append(o, f) \o <<>> = Append(o, f)
    BY <2>2, ConcatEmptySeq
  <2>4. owed \o (w \o Append(pending, f)) = (owed \o w) \o Append(pending, f)
    <3> DEFINE v == Append(pending, f)
    <3>1. v \in Seq(Frame) /\ owed \in Seq(Frame) /\ w \in Seq(Frame)
      BY <1>1, <1>2, AppendProperties
    <3> HIDE DEF v
    <3>2. (owed \o w) \o v = owed \o (w \o v)
      BY ONLY <3>1, FramesAssociate
    <3> QED
      BY <3>2 DEF v
  <2> QED
    BY <1>4, <1>5, <1>9, <2>1, <2>2, <2>3, <2>4 DEF f
<1>10. \/ ProtocolOf(f) # input.protocol /\ pending' = pending
       \/ ProtocolOf(f) = input.protocol /\ ~Ends(f) /\ pending' = Append(pending, f)
       \/ ProtocolOf(f) = input.protocol /\ Ends(f) /\ pending' = <<>>
  BY DEF f
<1> QED
  BY <1>7, <1>8, <1>9, <1>10

LEMMA KeepKeeps ==
  ASSUME LoggerInv, Consume, Keeps(Head(todo))
  PROVE  LoggerInv' /\ ~failed' /\ Due' = Due
<1> DEFINE f == Head(todo)
<1>1. /\ pc = "consume" /\ ~failed /\ todo # <<>> /\ f \in Frame
      /\ todo' = Tail(todo) /\ heard' = Append(heard, f)
      /\ UNCHANGED <<inputVars, pending_>>
  BY ConsumeDoes
<1>2. /\ \/ ProtocolOf(f) # input.protocol /\ pending' = pending
         \/ ProtocolOf(f) = input.protocol /\ ~Ends(f) /\ pending' = Append(pending, f)
      /\ timegps' \in {None} \cup Stamp
      /\ pc' = IF Len(todo) = 1 THEN "check" ELSE "consume"
      /\ UNCHANGED <<last, output_path, failed>>
  BY DEF Keeps, Keep
<1>3. Tail(todo) \in Seq(Frame) /\ Append(heard, f) \in Seq(Frame)
  BY <1>1, FrameGoesBy DEF LoggerInv
<1>4. pending' \in Seq(Frame)
  <2>1. pending \in Seq(Frame)
    BY DEF LoggerInv, TypeInv
  <2>2. Append(pending, f) \in Seq(Frame)
    BY <1>1, <2>1, FramesJoin
  <2> QED
    BY <1>2, <2>1, <2>2
<1>5. TypeInv'
  <2>1. pc' \in Running
    BY <1>2 DEF Running
  <2> QED
    BY <1>1, <1>2, <1>3, <1>4, <2>1 DEF LoggerInv, TypeInv, inputVars
<1>6. DecodeInv'
  BY <1>1, <1>2, ConsumeDecodes
<1>7. /\ Own(heard)' = Whole(Own(heard))' \o pending'
      /\ Due' = IF ProtocolOf(f) = input.protocol /\ Ends(f) THEN Due \o Append(pending, f) ELSE Due
  BY <1>1, <1>2, <1>4, GoesOn
<1>8. IntervalInv'
  <2>1. pc' \notin Stopped
    BY <1>2 DEF Stopped
  <2> QED
    BY <1>1, <1>7, <2>1 DEF LoggerInv, IntervalInv, inputVars
<1> QED
  BY <1>1, <1>2, <1>5, <1>6, <1>7, <1>8 DEF LoggerInv

LEMMA SubmitKeeps ==
  ASSUME LoggerInv, Consume, Submits(Head(todo))
  PROVE  LoggerInv' /\ ~failed' /\ Due' = Due \o Append(pending, Head(todo))
<1> DEFINE f == Head(todo)
<1>1. /\ pc = "consume" /\ ~failed /\ todo # <<>> /\ f \in Frame
      /\ todo' = Tail(todo) /\ heard' = Append(heard, f)
      /\ UNCHANGED <<inputVars, pending_>>
  BY ConsumeDoes
<1>2. PICK time \in Stamp : /\ ProtocolOf(f) = input.protocol /\ Ends(f) /\ ~(time =< last)
                            /\ pending' = <<>> /\ timegps' = None /\ last' = time
                            /\ output_path' \in {time, output_path}
                            /\ last = None => output_path' = time
                            /\ UNCHANGED failed
                            /\ pc' = IF Len(todo) = 1 THEN "check" ELSE "consume"
  BY DEF Submits
<1>3. Tail(todo) \in Seq(Frame) /\ Append(heard, f) \in Seq(Frame) /\ <<>> \in Seq(Frame)
  BY <1>1, FrameGoesBy, EmptySeq DEF LoggerInv
<1>4. TypeInv'
  <2>1. pc' \in Running
    BY <1>2 DEF Running
  <2>2. /\ last' \in {None} \cup Stamp /\ output_path' \in {None} \cup Stamp
        /\ output_path' =< last' /\ output_path' # None
    BY <1>2 DEF LoggerInv, TypeInv, Stamp, None
  <2> QED
    BY <1>1, <1>2, <1>3, <2>1, <2>2 DEF LoggerInv, TypeInv, inputVars
<1>5. DecodeInv'
  BY <1>1, <1>2, ConsumeDecodes
<1>6. /\ Own(heard)' = Whole(Own(heard))' \o pending'
      /\ Due' = IF ProtocolOf(f) = input.protocol /\ Ends(f) THEN Due \o Append(pending, f) ELSE Due
  BY <1>1, <1>2, <1>3, GoesOn
<1>7. IntervalInv'
  <2>1. pc' \notin Stopped
    BY <1>2 DEF Stopped
  <2> QED
    BY <1>1, <1>6, <2>1 DEF LoggerInv, IntervalInv, inputVars
<1> QED
  BY <1>1, <1>2, <1>4, <1>5, <1>6, <1>7 DEF LoggerInv

(***************************************************************************)
(* The queue, the worker and the files.                                    *)
(***************************************************************************)
OutputInv == WriterInv /\ PathInv /\ FilesAreStream

InHand == IF writer \in {"open", "write"} THEN job.frames ELSE <<>>
QueuedIn(q) == FlattenSeq([n \in DOMAIN q |-> q[n].frames])

LEMMA QueuedIs ==
  /\ QueuedIn(<<>>) = <<>>
  /\ \A q \in Seq(Job) : QueuedIn(q) \in Seq(Frame)
  /\ \A q \in Seq(Job), j \in Job :
        QueuedIn(Append(q, j)) = QueuedIn(q) \o j.frames /\ Append(q, j) \in Seq(Job)
  /\ \A q \in Seq(Job) : q # <<>> =>
        /\ Head(q) \in Job /\ Tail(q) \in Seq(Job)
        /\ QueuedIn(q) = Head(q).frames \o QueuedIn(Tail(q))
<1> DEFINE parts(q) == [n \in DOMAIN q |-> q[n].frames]  X == Seq(Frame)
<1>1. ASSUME NEW q \in Seq(Job)
      PROVE  /\ parts(q) \in Texts(Frame) /\ parts(q) \in Seq(X) /\ Len(parts(q)) = Len(q)
             /\ \A i \in 1..Len(q) : parts(q)[i] = q[i].frames
  <2>1. DOMAIN q = 1..Len(q) /\ Len(q) \in Nat /\ \A i \in 1..Len(q) : q[i] \in Job
    BY LenProperties, ElementOfSeq
  <2>2. \A i \in 1..Len(q) : q[i].frames \in X
    BY <2>1 DEF Job
  <2> HIDE DEF X
  <2>3. parts(q) = [n \in 1..Len(q) |-> q[n].frames]
    BY <2>1
  <2>4. parts(q) \in [1..Len(q) -> X]
    BY <2>2, <2>3
  <2>5. parts(q) \in Seq(X) /\ Len(parts(q)) = Len(q)
    BY <2>1, <2>3, <2>4, IsASeq, LenProperties
  <2> QED
    BY <2>3, <2>5 DEF Texts, X
<1>2. \A q : QueuedIn(q) = FlattenSeq(parts(q))
  BY DEF QueuedIn
<1> HIDE DEF parts, X
<1>3. QueuedIn(<<>>) = <<>>
  <2>1. <<>> \in Seq(Job) /\ Len(<<>>) = 0
    BY EmptySeq
  <2>2. parts(<<>>) \in Texts(Frame) /\ Len(parts(<<>>)) = 0
    BY <1>1, <2>1
  <2> QED
    BY <1>2, <2>2, FlattenOne
<1>4. ASSUME NEW q \in Seq(Job) PROVE QueuedIn(q) \in Seq(Frame)
  BY <1>1, <1>2, FlattenTyped
<1>5. ASSUME NEW q \in Seq(Job), NEW j \in Job
      PROVE  QueuedIn(Append(q, j)) = QueuedIn(q) \o j.frames /\ Append(q, j) \in Seq(Job)
  <2> DEFINE r == Append(q, j)  x == j.frames  p == parts(q)  v == Append(p, x)  s == parts(r)
  <2>1. /\ r \in Seq(Job) /\ Len(r) = Len(q) + 1 /\ r[Len(q) + 1] = j
        /\ \A i \in 1..Len(q) : r[i] = q[i]
    BY AppendProperties
  <2>2. x \in Seq(Frame) /\ x \in X
    BY DEF Job, X
  <2>3. p \in Texts(Frame) /\ p \in Seq(X) /\ Len(p) = Len(q) /\ \A i \in 1..Len(q) : p[i] = q[i].frames
    BY <1>1
  <2> HIDE DEF r
  <2>4. s \in Seq(X) /\ Len(s) = Len(r) /\ \A i \in 1..Len(r) : s[i] = r[i].frames
    BY <1>1, <2>1
  <2>5. j.frames = x
    OBVIOUS
  <2> HIDE DEF p, s, x
  <2>6. /\ v \in Seq(X) /\ Len(v) = Len(p) + 1 /\ v[Len(p) + 1] = x
        /\ \A i \in 1..Len(p) : v[i] = p[i]
    BY <2>2, <2>3, AppendProperties
  <2>7. FlattenSeq(v) = FlattenSeq(p) \o x
    BY <2>2, <2>3, FlattenAppend
  <2> HIDE DEF v
  <2>8. Len(q) \in Nat /\ Len(s) = Len(v)
    BY <2>1, <2>3, <2>4, <2>6, LenProperties
  <2>9. ASSUME NEW i \in 1..Len(s) PROVE s[i] = v[i]
    <3>1. CASE i = Len(q) + 1
      BY <2>1, <2>3, <2>4, <2>5, <2>6, <3>1
    <3>2. CASE i # Len(q) + 1
      <4>1. i \in 1..Len(q) /\ i \in 1..Len(r) /\ i \in 1..Len(p)
        BY <2>1, <2>3, <2>4, <2>8, <3>2
      <4> QED
        BY <4>1, <2>1, <2>3, <2>4, <2>6
    <3> QED
      BY <3>1, <3>2
  <2>10. s = v
    BY <2>4, <2>6, <2>8, <2>9, SeqEqual
  <2>11. QueuedIn(r) = FlattenSeq(s) /\ QueuedIn(q) = FlattenSeq(p)
    BY <1>2 DEF s, p
  <2> QED
    BY <2>1, <2>7, <2>10, <2>11 DEF r, x
<1>6. ASSUME NEW q \in Seq(Job), q # <<>>
      PROVE  /\ Head(q) \in Job /\ Tail(q) \in Seq(Job)
             /\ QueuedIn(q) = Head(q).frames \o QueuedIn(Tail(q))
  <2> DEFINE r == Tail(q)  p == parts(q)  s == parts(r)
  <2>1. /\ Head(q) \in Job /\ r \in Seq(Job) /\ Len(r) = Len(q) - 1 /\ Head(q) = q[1]
        /\ \A i \in 1..Len(r) : r[i] = q[i + 1]
    BY <1>6, HeadTailProperties
  <2> HIDE DEF r
  <2>2. p \in Texts(Frame) /\ p \in Seq(X) /\ Len(p) = Len(q) /\ \A i \in 1..Len(q) : p[i] = q[i].frames
    BY <1>1
  <2>3. s \in Seq(X) /\ Len(s) = Len(r) /\ \A i \in 1..Len(r) : s[i] = r[i].frames
    BY <1>1, <2>1
  <2> HIDE DEF p, s
  <2>4. Len(q) \in Nat /\ Len(q) # 0 /\ p # <<>>
    BY <1>6, <2>2, EmptySeq
  <2>5. /\ Head(p) = p[1] /\ Tail(p) \in Seq(X) /\ Len(Tail(p)) = Len(p) - 1
        /\ \A i \in 1..Len(Tail(p)) : Tail(p)[i] = p[i + 1]
    BY <2>2, <2>4, HeadTailProperties
  <2> DEFINE t == Tail(p)
  <2>6. t \in Seq(X) /\ Len(t) = Len(p) - 1 /\ \A i \in 1..Len(t) : t[i] = p[i + 1]
    BY <2>5
  <2> HIDE DEF t
  <2>7. Len(s) = Len(t)
    BY <2>1, <2>2, <2>3, <2>6
  <2>8. ASSUME NEW i \in 1..Len(s) PROVE s[i] = t[i]
    <3>1. i \in 1..Len(r) /\ i \in 1..Len(t) /\ i + 1 \in 1..Len(q)
      BY <2>1, <2>2, <2>3, <2>4, <2>7
    <3> QED
      BY <3>1, <2>1, <2>2, <2>3, <2>6
  <2>9. s = t
    BY <2>3, <2>6, <2>7, <2>8, SeqEqual
  <2>10. FlattenSeq(p) = Head(p) \o FlattenSeq(t)
    BY <2>2, <2>4, FlattenHead DEF t
  <2>11. Head(p) = Head(q).frames
    <3>1. 1 \in 1..Len(q)
      BY <2>4
    <3> QED
      BY <3>1, <2>1, <2>2, <2>5
  <2>12. QueuedIn(r) = FlattenSeq(s) /\ QueuedIn(q) = FlattenSeq(p)
    BY <1>2 DEF s, p
  <2> QED
    BY <2>1, <2>9, <2>10, <2>11, <2>12 DEF r
<1> QED
  BY <1>3, <1>4, <1>5, <1>6

LEMMA WayIs ==
  ASSUME WriterInv
  PROVE  /\ OnTheWay = InHand \o QueuedIn(queue)
         /\ InHand \in Seq(Frame) /\ QueuedIn(queue) \in Seq(Frame)
         /\ OnTheWay \in Seq(Frame) /\ OnDisk \in Seq(Frame)
<1>1. job.frames \in Seq(Frame) /\ <<>> \in Seq(Frame)
  BY EmptySeq DEF WriterInv, Job
<1>2. InHand \in Seq(Frame) /\ QueuedIn(queue) \in Seq(Frame)
  BY <1>1, QueuedIs DEF WriterInv, InHand
<1>3. OnTheWay = InHand \o QueuedIn(queue)
  BY DEF OnTheWay, InHand, QueuedIn
<1>4. OnDisk \in Seq(Frame)
  BY InOrderTyped DEF WriterInv, OnDisk
<1> QED
  BY <1>2, <1>3, <1>4, FramesJoin

LEMMA StreamIs ==
  FilesAreStream <=> /\ IsPrefix(OnDisk, Due)
                     /\ ~error => IsPrefix(OnDisk \o OnTheWay, Due)
                     /\ (~error /\ ~failed) => OnDisk \o OnTheWay = Due
BY DEF FilesAreStream, Due

LEMMA DueSame ==
  ASSUME UNCHANGED <<input, owed, heard>>
  PROVE  Due' = Due
<1>1. Own(heard) = OwnOf(input.protocol, heard) /\ Own(heard)' = OwnOf(input'.protocol, heard')
  BY DEF Own, OwnOf
<1>2. Due' = owed' \o Whole(Own(heard)') /\ Due = owed \o Whole(Own(heard))
  BY DEF Due
<1> QED
  BY <1>1, <1>2

LEMMA DuePrimed ==
  ASSUME TypeInv'
  PROVE  Due' \in Seq(Frame)
<1>1. owed' \in Seq(Frame) /\ heard' \in Seq(Frame)
  BY DEF TypeInv
<1>2. Own(heard)' = OwnOf(input'.protocol, heard')
  BY DEF Own, OwnOf
<1>3. Own(heard)' \in Seq(Frame)
  BY <1>1, <1>2, OwnTyped
<1>4. Whole(Own(heard)') \in Seq(Frame)
  BY <1>3, WholeTyped
<1>5. Due' = owed' \o Whole(Own(heard)')
  BY DEF Due
<1> QED
  BY <1>1, <1>4, <1>5, FramesJoin

\* Steps of the main thread that submit nothing.
LEMMA QuietKeeps ==
  ASSUME TypeInv, TypeInv', OutputInv, UNCHANGED outputVars, output_path' = output_path,
         failed => failed',
         stopping => pc' \in {"notify", "join", "ended"},
         (pc' = "ended" /\ ~failed') => ~error /\ writer = "ended",
         Due' = Due \/ (failed' /\ IsPrefix(Due, Due'))
  PROVE  OutputInv'
<1>1. WriterInv'
  BY DEF OutputInv, WriterInv, outputVars
<1>2. PathInv'
  BY DEF OutputInv, PathInv, Reached, outputVars
<1>3. FilesAreStream'
  <2>1. OnDisk' = OnDisk
    BY DEF OnDisk, outputVars
  <2>2. OnTheWay' = OnTheWay
    BY DEF OnTheWay, outputVars
  <2>3. error' = error
    BY DEF outputVars
  <2>4. OnDisk \in Seq(Frame) /\ OnTheWay \in Seq(Frame) /\ OnDisk \o OnTheWay \in Seq(Frame)
    BY WayIs, FramesJoin DEF OutputInv
  <2>5. Due \in Seq(Frame) /\ Due' \in Seq(Frame)
    BY DueTyped, DuePrimed
  <2>6. IsPrefix(OnDisk, Due) /\ (~error => IsPrefix(OnDisk \o OnTheWay, Due))
        /\ ((~error /\ ~failed) => OnDisk \o OnTheWay = Due)
    BY StreamIs DEF OutputInv
  <2>7. IsPrefix(OnDisk, Due') /\ (~error => IsPrefix(OnDisk \o OnTheWay, Due'))
    <3>1. CASE Due' = Due
      BY <2>6, <3>1
    <3>2. CASE failed' /\ IsPrefix(Due, Due')
      BY <2>4, <2>5, <2>6, <3>2, PrefixTrans
    <3> QED
      BY <3>1, <3>2
  <2>8. (~error /\ ~failed') => OnDisk \o OnTheWay = Due'
    BY <2>6
  <2> DEFINE D == OnDisk'  W == OnTheWay'  E == Due'
  <2>9. FilesAreStream' <=> /\ IsPrefix(D, E)
                            /\ ~error' => IsPrefix(D \o W, E)
                            /\ (~error' /\ ~failed') => D \o W = E
    BY DEF FilesAreStream, Due
  <2> QED
    BY <2>1, <2>2, <2>3, <2>7, <2>8, <2>9
<1> QED
  BY <1>1, <1>2, <1>3 DEF OutputInv

\* stop() and the destructor.
LEMMA StopKeeps ==
  ASSUME TypeInv, OutputInv, Stop \/ Notify
  PROVE  OutputInv'
<1>1. /\ UNCHANGED <<input, owed, heard, output_path, failed, queue, error, job, current, files>>
      /\ \/ pc' = "notify" /\ writer' = writer /\ stopping' = TRUE
         \/ pc' = "join" /\ stopping' = stopping /\ writer' = IF writer = "asleep" THEN "test" ELSE writer
      /\ pc \in {"stop", "notify"}
  BY DEF Stop, Notify, SetStopping, NotifyWriter, Notified, inputVars, intervalVars
<1>2. /\ writer' \in {writer, "test"} /\ (writer' # writer => writer = "asleep")
      /\ writer \in {"test", "asleep", "open", "write", "account", "ended"}
      /\ stopping \in BOOLEAN
  BY <1>1 DEF OutputInv, WriterInv
<1>3. WriterInv'
  <2>1. queue' \in Seq(Job) /\ job' \in Job /\ error' \in BOOLEAN /\ stopping' \in BOOLEAN
        /\ current' \in {None} \cup Stamp /\ IsDisk(files')
    BY <1>1, <1>2 DEF OutputInv, WriterInv
  <2>2. /\ writer' \in {"test", "asleep", "open", "write", "account", "ended"}
        /\ error' => writer' = "ended"
        /\ stopping' => pc' \in {"notify", "join", "ended"}
        /\ (writer' = "ended" /\ ~error') => stopping' /\ queue' = <<>>
        /\ pc' # "ended"
    BY <1>1, <1>2 DEF OutputInv, WriterInv
  <2> QED
    BY <2>1, <2>2 DEF WriterInv
<1>4. Reached' = Reached
  BY <1>1, <1>2 DEF Reached
<1>5. PathInv'
  BY <1>1, <1>2, <1>4 DEF OutputInv, PathInv
<1>6. FilesAreStream'
  <2>1. OnDisk' = OnDisk /\ OnTheWay' = OnTheWay
    BY <1>1, <1>2 DEF OnDisk, OnTheWay
  <2>2. Due' = Due
    BY <1>1, DueSame
  <2> DEFINE D == OnDisk'  W == OnTheWay'  E == Due'
  <2>3. FilesAreStream' <=> /\ IsPrefix(D, E)
                            /\ ~error' => IsPrefix(D \o W, E)
                            /\ (~error' /\ ~failed') => D \o W = E
    BY DEF FilesAreStream, Due
  <2> QED
    BY <1>1, <2>1, <2>2, <2>3, StreamIs DEF OutputInv
<1> QED
  BY <1>3, <1>5, <1>6 DEF OutputInv

LEMMA DiskPaths ==
  ASSUME TypeInv, OutputInv
  PROVE  /\ current \in Int /\ Reached \in Int /\ output_path \in Int
         /\ last \in Int /\ output_path =< last
         /\ \A n \in 1..Len(queue) : queue[n] \in Job /\ queue[n].path \in Int
         /\ Len(queue) \in Nat
         /\ \A time \in Filled(files) : time \in Nat
<1>1. current \in Int /\ output_path \in Int /\ last \in Int
  BY DEF TypeInv, OutputInv, WriterInv, Stamp, None
<1>2. job.path \in Int
  BY DEF OutputInv, WriterInv, Job
<1>3. Reached \in Int
  BY <1>1, <1>2 DEF Reached
<1>4. Len(queue) \in Nat /\ \A n \in 1..Len(queue) : queue[n] \in Job
  BY LenProperties, ElementOfSeq DEF OutputInv, WriterInv
<1>5. \A n \in 1..Len(queue) : queue[n].path \in Int
  BY <1>4 DEF Job
<1>6. \A time \in Filled(files) : time \in Nat
  BY DEF OutputInv, WriterInv, IsDisk, Filled
<1> QED
  BY <1>1, <1>3, <1>4, <1>5, <1>6 DEF TypeInv

\* submit(): the interval goes to the end of the queue, and its path is not
\* before those on the way.
LEMMA PushKeeps ==
  ASSUME LoggerInv, OutputInv, Consume, Submits(Head(todo))
  PROVE  OutputInv'
<1> DEFINE f == Head(todo)  frames == Append(pending, f)
<1>1. /\ pc = "consume" /\ ~failed /\ f \in Frame
      /\ UNCHANGED <<inputVars, pending_>>
  BY ConsumeDoes
<1>2. ~failed' /\ Due' = Due \o frames /\ TypeInv'
  BY SubmitKeeps DEF LoggerInv
<1>3. PICK time \in Stamp, capacity \in Int :
         /\ ~(time =< last) /\ ~error
         /\ Push(output_path', frames, capacity)
         /\ output_path' \in {time, output_path}
         /\ last = None => output_path' = time
         /\ UNCHANGED failed
         /\ pc' \in {"check", "consume"}
  BY DEF Submits
<1>4. frames \in Seq(Frame)
  BY <1>1, FramesJoin DEF LoggerInv, TypeInv
<1> HIDE DEF f, frames
<1> DEFINE j == [path |-> output_path', frames |-> frames, capacity |-> capacity]
<1>5. /\ queue' = Append(queue, j)
      /\ writer' = IF writer = "asleep" THEN "test" ELSE writer
      /\ UNCHANGED <<stopping, error, job, current, files>>
  BY <1>3 DEF Push, Notified
<1>6. /\ current \in Int /\ Reached \in Int /\ output_path \in Int
      /\ last \in Int /\ output_path =< last
      /\ \A n \in 1..Len(queue) : queue[n] \in Job /\ queue[n].path \in Int
      /\ Len(queue) \in Nat
  BY DiskPaths DEF LoggerInv
<1>7. output_path' \in Stamp /\ output_path =< output_path'
  <2>1. CASE output_path' = time
    BY <1>3, <1>6, <2>1 DEF Stamp
  <2>2. CASE output_path' = output_path
    <3>1. output_path # None
      BY <1>3, <2>2 DEF LoggerInv, TypeInv, Stamp, None
    <3>2. output_path \in Stamp
      BY <3>1 DEF LoggerInv, TypeInv
    <3> QED
      BY <1>6, <2>2, <3>2
  <2> QED
    BY <1>3, <2>1, <2>2
<1>8. j \in Job /\ j.path = output_path' /\ j.frames = frames
  BY <1>4, <1>7 DEF Job, Stamp
<1> HIDE DEF j
<1> DEFINE l == Len(queue)
<1>9. /\ queue' \in Seq(Job) /\ Len(queue') = l + 1 /\ queue'[l + 1] = j
      /\ \A i \in 1..l : queue'[i] = queue[i]
  BY <1>5, <1>8, AppendProperties DEF OutputInv, WriterInv
<1>10. /\ writer \in {"test", "asleep", "open", "write", "account", "ended"}
       /\ writer' \in {"test", "asleep", "open", "write", "account", "ended"}
       /\ writer' \in {"open", "write"} <=> writer \in {"open", "write"}
       /\ writer' = "open" <=> writer = "open"
       /\ writer' = "write" <=> writer = "write"
       /\ writer' = "ended" <=> writer = "ended"
  BY <1>5 DEF OutputInv, WriterInv
<1>11. ~error' /\ ~stopping' /\ pc' # "ended" /\ ~(writer' = "ended")
  BY <1>1, <1>3, <1>5, <1>10 DEF OutputInv, WriterInv
<1>12. WriterInv'
  BY <1>5, <1>9, <1>10, <1>11 DEF OutputInv, WriterInv
<1>13. Reached' = Reached
  BY <1>5, <1>10 DEF Reached
<1>14. PathInv'
  <2>1. /\ \A n \in 1..l : /\ queue[n].path \in Stamp /\ queue[n].path \in Int
                           /\ Reached =< queue[n].path /\ queue[n].path =< output_path
        /\ \A m, n \in 1..l : m =< n => queue[m].path =< queue[n].path
        /\ l \in Nat /\ Reached =< output_path /\ output_path' \in Int
    BY <1>6, <1>7 DEF OutputInv, PathInv, Stamp
  <2> HIDE DEF l
  <2>2. ASSUME NEW n \in 1..(l + 1)
        PROVE  /\ queue'[n].path \in Stamp /\ Reached =< queue'[n].path /\ queue'[n].path =< output_path'
               /\ n = l + 1 => queue'[n].path = output_path'
               /\ n # l + 1 => n \in 1..l /\ queue'[n].path = queue[n].path
    <3>1. CASE n = l + 1
      <4>1. queue'[n].path = output_path'
        BY <1>8, <1>9, <3>1
      <4> QED
        BY <1>6, <1>7, <2>1, <3>1, <4>1
    <3>2. CASE n # l + 1
      <4>1. n \in 1..l
        BY <2>1, <3>2
      <4>2. queue'[n].path = queue[n].path
        BY <1>9, <4>1
      <4> QED
        BY <1>6, <1>7, <2>1, <3>2, <4>1, <4>2
    <3> QED
      BY <3>1, <3>2
  <2>3. ASSUME NEW m \in 1..(l + 1), NEW n \in 1..(l + 1), m =< n
        PROVE  queue'[m].path =< queue'[n].path
    <3>1. CASE n = l + 1
      BY <2>2, <3>1
    <3>2. CASE n # l + 1
      <4>1. m # l + 1
        BY <2>1, <2>3, <3>2
      <4> QED
        BY <2>1, <2>2, <2>3, <3>2, <4>1
    <3> QED
      BY <3>1, <3>2
  <2>4. Reached' =< output_path'
    BY <1>6, <1>7, <1>13, <2>1
  <2>5. /\ current' =< Reached' /\ (current' # None => current' \in DOMAIN files')
        /\ \A time_1 \in Filled(files') : time_1 =< current'
        /\ writer' = "open" => job'.path \in Stamp
        /\ writer' = "write" => job'.path = current' /\ current' # None
    BY <1>5, <1>10, <1>13 DEF OutputInv, PathInv
  <2>6. 1..Len(queue') = 1..(l + 1)
    BY <1>9 DEF l
  <2> QED
    BY <1>13, <2>2, <2>3, <2>4, <2>5, <2>6 DEF PathInv
<1>15. FilesAreStream'
  <2>1. OnDisk' = OnDisk /\ InHand' = InHand
    BY <1>5, <1>10 DEF OnDisk, InHand
  <2>2. QueuedIn(queue') = QueuedIn(queue) \o frames
    BY <1>5, <1>8, QueuedIs DEF OutputInv, WriterInv
  <2>3. OnTheWay' = InHand' \o QueuedIn(queue')
    BY DEF OnTheWay, InHand, QueuedIn
  <2>4. /\ OnTheWay = InHand \o QueuedIn(queue)
        /\ InHand \in Seq(Frame) /\ QueuedIn(queue) \in Seq(Frame)
        /\ OnTheWay \in Seq(Frame) /\ OnDisk \in Seq(Frame)
    BY WayIs DEF OutputInv
  <2>5. OnTheWay' = OnTheWay \o frames
    <3>1. OnTheWay' = InHand \o (QueuedIn(queue) \o frames)
      BY <2>1, <2>2, <2>3
    <3> DEFINE a == InHand  b == QueuedIn(queue)
    <3>2. a \in Seq(Frame) /\ b \in Seq(Frame) /\ frames \in Seq(Frame)
      BY <1>4, <2>4
    <3>3. OnTheWay = a \o b /\ OnTheWay' = a \o (b \o frames)
      BY <2>4, <3>1
    <3> HIDE DEF a, b
    <3>4. (a \o b) \o frames = a \o (b \o frames)
      BY ONLY <3>2, FramesAssociate
    <3> QED
      BY <3>3, <3>4
  <2>6. OnDisk \o OnTheWay' = (OnDisk \o OnTheWay) \o frames
    <3> DEFINE d == OnDisk  v == OnTheWay
    <3>1. d \in Seq(Frame) /\ v \in Seq(Frame) /\ frames \in Seq(Frame)
      BY <1>4, <2>4, <2>5
    <3>2. OnTheWay' = v \o frames
      BY <2>5
    <3> HIDE DEF d, v
    <3>3. (d \o v) \o frames = d \o (v \o frames)
      BY ONLY <3>1, FramesAssociate
    <3> QED
      BY <3>2, <3>3 DEF d, v
  <2>7. OnDisk \o OnTheWay = Due /\ IsPrefix(OnDisk, Due)
    BY <1>1, <1>3, StreamIs DEF OutputInv
  <2>8. Due \in Seq(Frame) /\ Due' = Due \o frames /\ Due' \in Seq(Frame)
    BY <1>2, <1>4, DueTyped, FramesJoin DEF LoggerInv
  <2>9. OnDisk \o OnTheWay' = Due' /\ IsPrefix(OnDisk, Due') /\ IsPrefix(Due', Due')
    BY <1>4, <2>4, <2>6, <2>7, <2>8, PrefixGrows, PrefixSelf
  <2> DEFINE D == OnDisk'  W == OnTheWay'  E == Due'
  <2>10. FilesAreStream' <=> /\ IsPrefix(D, E)
                             /\ ~error' => IsPrefix(D \o W, E)
                             /\ (~error' /\ ~failed') => D \o W = E
    BY DEF FilesAreStream, Due
  <2> QED
    BY <2>1, <2>9, <2>10
<1> QED
  BY <1>12, <1>14, <1>15 DEF OutputInv

\* Steps of the worker that lose nothing: what leaves its hands is on the disk.
LEMMA WayPrimed ==
  OnTheWay' = InHand' \o QueuedIn(queue')
BY DEF OnTheWay, InHand, QueuedIn

LEMMA StreamStays ==
  ASSUME TypeInv, OutputInv, UNCHANGED loggerVars, ~error, ~error',
         OnDisk' \in Seq(Frame), OnTheWay' \in Seq(Frame),
         OnDisk' \o OnTheWay' = OnDisk \o OnTheWay
  PROVE  FilesAreStream'
<1>1. Due' = Due /\ failed' = failed
  BY DueSame DEF loggerVars, inputVars
<1>2. IsPrefix(OnDisk \o OnTheWay, Due) /\ (~failed => OnDisk \o OnTheWay = Due)
  BY StreamIs DEF OutputInv
<1> DEFINE D == OnDisk'  W == OnTheWay'  E == Due'
<1>3. FilesAreStream' <=> /\ IsPrefix(D, E)
                          /\ ~error' => IsPrefix(D \o W, E)
                          /\ (~error' /\ ~failed') => D \o W = E
  BY DEF FilesAreStream, Due
<1>4. D \in Seq(Frame) /\ W \in Seq(Frame) /\ E \in Seq(Frame) /\ E = Due /\ D \o W = OnDisk \o OnTheWay
  <2>1. Due \in Seq(Frame)
    BY DueTyped
  <2> QED
    BY <1>1, <2>1
<1>5. IsPrefix(D \o W, E) /\ (~failed => D \o W = E)
  BY <1>2, <1>4
<1> HIDE DEF D, W, E
<1>6. D \o W \in Seq(Frame) /\ IsPrefix(D, D \o W)
  BY <1>4, FramesJoin, PrefixOfConcat
<1>7. IsPrefix(D, E)
  BY <1>4, <1>5, <1>6, PrefixTrans
<1> QED
  BY <1>1, <1>3, <1>5, <1>7

LEMMA TakeKeeps ==
  ASSUME TypeInv, OutputInv, Take, UNCHANGED loggerVars
  PROVE  OutputInv'
<1>1. /\ writer = "test" /\ UNCHANGED <<pc, failed, output_path, stopping, error, current, files>>
      /\ \/ /\ queue # <<>> /\ job' = Head(queue) /\ queue' = Tail(queue)
            /\ writer' = IF Head(queue).path = current THEN "write" ELSE "open"
         \/ /\ queue = <<>> /\ writer' = (IF stopping THEN "ended" ELSE "asleep")
            /\ UNCHANGED <<job, queue>>
  BY DEF Take, loggerVars, intervalVars
<1>2. ~error /\ stopping \in BOOLEAN /\ ~(pc = "ended" /\ ~failed) /\ queue \in Seq(Job)
  BY <1>1 DEF OutputInv, WriterInv
<1>3. /\ OnTheWay = InHand \o QueuedIn(queue) /\ InHand = <<>>
      /\ QueuedIn(queue) \in Seq(Frame) /\ OnDisk \in Seq(Frame)
  BY <1>1, WayIs DEF OutputInv, InHand
<1>4. OnDisk' = OnDisk /\ OnTheWay' = InHand' \o QueuedIn(queue')
  BY <1>1, WayPrimed DEF OnDisk
<1>5. CASE /\ queue = <<>> /\ writer' = (IF stopping THEN "ended" ELSE "asleep")
           /\ UNCHANGED <<job, queue>>
  <2>1. writer' \in {"ended", "asleep"} /\ (writer' = "ended" => stopping)
    BY <1>2, <1>5
  <2>2. WriterInv'
    BY <1>1, <1>2, <1>5, <2>1 DEF OutputInv, WriterInv
  <2>3. Reached' = Reached
    BY <1>1, <2>1 DEF Reached
  <2>4. PathInv'
    BY <1>1, <1>5, <2>1, <2>3 DEF OutputInv, PathInv
  <2>5. OnTheWay' = OnTheWay
    <3>1. InHand' = <<>>
      BY <2>1 DEF InHand
    <3> QED
      BY <1>3, <1>4, <1>5, <3>1
  <2>6. OnTheWay \in Seq(Frame)
    BY WayIs DEF OutputInv
  <2>7. FilesAreStream'
    BY <1>1, <1>2, <1>3, <1>4, <2>5, <2>6, StreamStays
  <2> QED
    BY <2>2, <2>4, <2>7 DEF OutputInv
<1>6. CASE /\ queue # <<>> /\ job' = Head(queue) /\ queue' = Tail(queue)
           /\ writer' = IF Head(queue).path = current THEN "write" ELSE "open"
  <2> DEFINE l == Len(queue)
  <2>1. /\ job' \in Job /\ queue' \in Seq(Job) /\ Len(queue') = l - 1 /\ job' = queue[1]
        /\ \A i \in 1..Len(queue') : queue'[i] = queue[i + 1]
    BY <1>2, <1>6, HeadTailProperties
  <2>2. l \in Nat /\ l # 0
    BY <1>2, <1>6, EmptySeq
  <2>3. writer' \in {"write", "open"} /\ (writer' = "write" => job'.path = current)
    BY <1>6
  <2>4. WriterInv'
    BY <1>1, <1>2, <2>1, <2>3 DEF OutputInv, WriterInv
  <2>5. Reached' = job'.path /\ Reached = current
    BY <1>1, <2>3 DEF Reached
  <2>6. /\ \A n \in 1..l : /\ queue[n].path \in Stamp
                           /\ current =< queue[n].path /\ queue[n].path =< output_path
        /\ \A m, n \in 1..l : m =< n => queue[m].path =< queue[n].path
    BY <2>5 DEF OutputInv, PathInv
  <2> HIDE DEF l
  <2>7. 1 \in 1..l /\ \A i \in 1..(l - 1) : i \in 1..l /\ i + 1 \in 1..l /\ 1 =< i + 1
    BY <2>2
  <2>8. job'.path \in Stamp /\ current =< job'.path /\ job'.path =< output_path
    BY <2>1, <2>6, <2>7
  <2>9. ASSUME NEW n \in 1..(l - 1)
        PROVE  /\ queue'[n].path \in Stamp /\ job'.path =< queue'[n].path
               /\ queue'[n].path =< output_path
    <3>1. queue'[n] = queue[n + 1] /\ n + 1 \in 1..l /\ 1 =< n + 1
      BY <2>1, <2>7
    <3> DEFINE k == n + 1
    <3>2. queue'[n] = queue[k] /\ k \in 1..l /\ 1 =< k
      BY <3>1
    <3> HIDE DEF k
    <3> QED
      BY <2>1, <2>6, <2>7, <3>2
  <2>10. ASSUME NEW m \in 1..(l - 1), NEW n \in 1..(l - 1), m =< n
         PROVE  queue'[m].path =< queue'[n].path
    <3>1. queue'[m] = queue[m + 1] /\ queue'[n] = queue[n + 1] /\ m + 1 \in 1..l /\ n + 1 \in 1..l
      BY <2>1, <2>7
    <3>2. m + 1 =< n + 1
      BY <2>2, <2>10
    <3> DEFINE i == m + 1  k == n + 1
    <3>3. queue'[m] = queue[i] /\ queue'[n] = queue[k] /\ i \in 1..l /\ k \in 1..l /\ i =< k
      BY <3>1, <3>2
    <3> HIDE DEF i, k
    <3> QED
      BY <2>6, <3>3
  <2>11. PathInv'
    <3>1. writer' = "write" => job'.path = current /\ current # None
      BY <2>3, <2>8 DEF Stamp, None
    <3>2. \A time \in Filled(files') : time =< current'
      BY <1>1 DEF OutputInv, PathInv
    <3>3. current' # None => current' \in DOMAIN files'
      BY <1>1 DEF OutputInv, PathInv
    <3>4. 1..Len(queue') = 1..(l - 1)
      BY <2>1 DEF l
    <3> QED
      BY <1>1, <2>5, <2>8, <2>9, <2>10, <3>1, <3>2, <3>3, <3>4 DEF PathInv
  <2>12. /\ QueuedIn(queue) = job'.frames \o QueuedIn(queue')
         /\ QueuedIn(queue') \in Seq(Frame) /\ job'.frames \in Seq(Frame)
    <3>1. QueuedIn(queue) = Head(queue).frames \o QueuedIn(Tail(queue))
      BY <1>2, <1>6, QueuedIs
    <3>2. QueuedIn(queue') \in Seq(Frame)
      BY <2>1, QueuedIs
    <3> QED
      BY <1>6, <2>1, <3>1, <3>2 DEF Job
  <2>13. InHand' = job'.frames
    BY <2>3 DEF InHand
  <2>14. OnTheWay' = OnTheWay /\ OnTheWay \in Seq(Frame)
    <3>1. <<>> \o QueuedIn(queue) = QueuedIn(queue)
      BY <1>3, ConcatEmptySeq
    <3>2. OnTheWay = QueuedIn(queue)
      BY <1>3, <3>1
    <3> QED
      BY <1>3, <1>4, <2>12, <2>13, <3>2
  <2>15. FilesAreStream'
    BY <1>1, <1>2, <1>3, <1>4, <2>14, StreamStays
  <2> QED
    BY <2>4, <2>11, <2>15 DEF OutputInv
<1> QED
  BY <1>1, <1>5, <1>6

LEMMA OpenKeeps ==
  ASSUME TypeInv, OutputInv, Open, UNCHANGED loggerVars
  PROVE  OutputInv'
<1>1. /\ writer = "open" /\ writer' = "write" /\ current' = job.path /\ job.path \notin DOMAIN files
      /\ files' = [time \in DOMAIN files \cup {job.path} |-> IF time = job.path THEN <<>> ELSE files[time]]
      /\ UNCHANGED <<pc, failed, output_path, queue, stopping, error, job>>
  BY DEF Open, loggerVars, intervalVars
<1>2. ~error /\ job.path \in Stamp /\ job.path \in Nat /\ IsDisk(files) /\ ~(pc = "ended" /\ ~failed)
  BY <1>1 DEF OutputInv, WriterInv, PathInv, Stamp
<1>3. /\ IsDisk(files') /\ DOMAIN files' = DOMAIN files \cup {job.path}
      /\ InOrder(files') = InOrder(files) /\ Filled(files') = Filled(files)
  <2> DEFINE c == job.path
  <2>1. /\ c \in Nat /\ c \notin DOMAIN files
        /\ files' = [time \in DOMAIN files \cup {c} |-> IF time = c THEN <<>> ELSE files[time]]
    BY <1>1, <1>2
  <2> HIDE DEF c
  <2>2. /\ IsDisk(files') /\ DOMAIN files' = DOMAIN files \cup {c}
        /\ InOrder(files') = InOrder(files) /\ Filled(files') = Filled(files)
    BY <1>2, <2>1, NewFile
  <2> QED
    BY <2>2 DEF c
<1>4. WriterInv'
  BY <1>1, <1>2, <1>3 DEF OutputInv, WriterInv
<1>5. Reached = job.path /\ Reached' = job.path
  BY <1>1 DEF Reached
<1>6. PathInv'
  <2>1. current \in Int /\ Reached \in Int /\ \A time \in Filled(files) : time \in Nat
    BY DiskPaths
  <2>2. \A time \in Filled(files') : time =< current'
    BY <1>1, <1>3, <1>5, <2>1 DEF OutputInv, PathInv
  <2>3. current' =< Reached' /\ current' # None /\ current' \in DOMAIN files' /\ job'.path = current'
    BY <1>1, <1>2, <1>3, <1>5 DEF Stamp, None
  <2> QED
    BY <1>1, <1>5, <2>2, <2>3 DEF OutputInv, PathInv
<1>7. FilesAreStream'
  <2>1. OnDisk' = OnDisk
    BY <1>3 DEF OnDisk
  <2>2. InHand' = InHand
    BY <1>1 DEF InHand
  <2>3. OnTheWay' = OnTheWay /\ OnTheWay \in Seq(Frame) /\ OnDisk \in Seq(Frame)
    BY <1>1, <2>2, WayIs, WayPrimed DEF OutputInv
  <2> QED
    BY <1>1, <1>2, <2>1, <2>3, StreamStays
<1> QED
  BY <1>4, <1>6, <1>7 DEF OutputInv

LEMMA WriteKeeps ==
  ASSUME TypeInv, OutputInv, Write, UNCHANGED loggerVars
  PROVE  OutputInv'
<1>1. /\ writer = "write" /\ writer' = "account"
      /\ files' = [files EXCEPT ![current] = @ \o job.frames]
      /\ UNCHANGED <<pc, failed, output_path, queue, stopping, error, job, current>>
  BY DEF Write, loggerVars, intervalVars
<1>2. /\ ~error /\ job.path = current /\ current \in DOMAIN files /\ IsDisk(files)
      /\ job.frames \in Seq(Frame) /\ ~(pc = "ended" /\ ~failed)
      /\ \A time \in Filled(files) : time =< current
  BY <1>1 DEF OutputInv, WriterInv, PathInv, Job
<1>3. /\ IsDisk(files') /\ InOrder(files') = InOrder(files) \o job.frames
      /\ \A time \in Filled(files') : time =< current
  BY <1>1, <1>2, WrittenLast
<1>4. DOMAIN files' = DOMAIN files
  BY <1>1
<1>5. WriterInv'
  BY <1>1, <1>2, <1>3 DEF OutputInv, WriterInv
<1>6. Reached' = Reached
  BY <1>1, <1>2 DEF Reached
<1>7. PathInv'
  BY <1>1, <1>2, <1>3, <1>4, <1>6 DEF OutputInv, PathInv
<1>8. FilesAreStream'
  <2>1. OnDisk' = OnDisk \o job.frames
    BY <1>3 DEF OnDisk
  <2>2. InHand = job.frames /\ InHand' = <<>>
    BY <1>1 DEF InHand
  <2>3. /\ OnTheWay = job.frames \o QueuedIn(queue) /\ QueuedIn(queue) \in Seq(Frame)
        /\ OnDisk \in Seq(Frame)
    BY <2>2, WayIs DEF OutputInv
  <2>4. OnTheWay' = QueuedIn(queue)
    <3>1. OnTheWay' = <<>> \o QueuedIn(queue)
      BY <1>1, <2>2, WayPrimed
    <3> QED
      BY <2>3, <3>1, ConcatEmptySeq
  <2> DEFINE d == OnDisk  j == job.frames  q == QueuedIn(queue)
  <2>5. d \in Seq(Frame) /\ j \in Seq(Frame) /\ q \in Seq(Frame)
    BY <1>2, <2>3
  <2>6. OnDisk' = d \o j /\ OnTheWay' = q /\ OnDisk = d /\ OnTheWay = j \o q
    BY <2>1, <2>3, <2>4
  <2> HIDE DEF d, j, q
  <2>7. (d \o j) \o q = d \o (j \o q) /\ d \o j \in Seq(Frame)
    BY <2>5, FramesJoin
  <2>8. OnDisk' \o OnTheWay' = OnDisk \o OnTheWay /\ OnDisk' \in Seq(Frame) /\ OnTheWay' \in Seq(Frame)
    BY <2>5, <2>6, <2>7
  <2> QED
    BY <1>1, <1>2, <2>8, StreamStays
<1> QED
  BY <1>5, <1>7, <1>8 DEF OutputInv

LEMMA AccountKeeps ==
  ASSUME TypeInv, OutputInv, Account, UNCHANGED loggerVars
  PROVE  OutputInv'
<1>1. /\ writer = "account" /\ writer' = "test" /\ job' = NoJob
      /\ UNCHANGED <<pc, failed, output_path, queue, stopping, error, current, files>>
  BY DEF Account, loggerVars, intervalVars
<1>2. ~error /\ NoJob \in Job /\ ~(pc = "ended" /\ ~failed)
  BY <1>1, EmptySeq DEF OutputInv, WriterInv, NoJob, Job, None
<1>3. WriterInv'
  BY <1>1, <1>2 DEF OutputInv, WriterInv
<1>4. Reached' = Reached /\ InHand' = InHand
  BY <1>1 DEF Reached, InHand
<1>5. PathInv'
  BY <1>1, <1>4 DEF OutputInv, PathInv
<1>6. FilesAreStream'
  <2>1. OnDisk' = OnDisk
    BY <1>1 DEF OnDisk
  <2>2. OnTheWay' = OnTheWay /\ OnTheWay \in Seq(Frame) /\ OnDisk \in Seq(Frame)
    BY <1>1, <1>4, WayIs, WayPrimed DEF OutputInv
  <2> QED
    BY <1>1, <1>2, <2>1, <2>2, StreamStays
<1> QED
  BY <1>3, <1>5, <1>6 DEF OutputInv

\* A call that fails leaves a prefix of the stream on the disk: a part of the
\* last write, or all but the last bytes.
LEMMA FailureKeeps ==
  ASSUME TypeInv, OutputInv, WriterFails, UNCHANGED loggerVars
  PROVE  OutputInv'
<1>1. /\ error' = TRUE /\ writer' = "ended"
      /\ UNCHANGED <<pc, failed, output_path, queue, stopping, job, current>>
      /\ \/ writer = "open" /\ files' = files
         \/ /\ writer = "write"
            /\ \E n \in 0..Len(job.frames) :
                 files' = [files EXCEPT ![current] = @ \o SubSeq(job.frames, 1, n)]
         \/ /\ Closing /\ current # None /\ Len(files[current]) > 0
            /\ files' = [files EXCEPT ![current] = Front(@)]
  BY DEF WriterFails, loggerVars, intervalVars
<1>2. writer \in {"open", "write", "test"} /\ ~error /\ ~(pc = "ended" /\ ~failed)
  BY <1>1 DEF Closing, OutputInv, WriterInv
<1>3. /\ IsDisk(files) /\ job.frames \in Seq(Frame) /\ OnDisk \in Seq(Frame)
      /\ OnTheWay \in Seq(Frame) /\ Due \in Seq(Frame)
      /\ IsPrefix(OnDisk, Due) /\ IsPrefix(OnDisk \o OnTheWay, Due)
      /\ \A time \in Filled(files) : time =< current
      /\ current # None => current \in DOMAIN files
      /\ writer = "write" => job.path = current /\ current # None
  BY <1>2, WayIs, StreamIs, DueTyped DEF OutputInv, WriterInv, PathInv, Job
<1>4. /\ IsDisk(files') /\ DOMAIN files' = DOMAIN files
      /\ \A time \in Filled(files') : time =< current
      /\ IsPrefix(InOrder(files'), Due)
  <2>1. CASE files' = files
    BY <1>3, <2>1 DEF OnDisk
  <2>2. CASE /\ writer = "write"
             /\ \E n \in 0..Len(job.frames) :
                  files' = [files EXCEPT ![current] = @ \o SubSeq(job.frames, 1, n)]
    <3>1. PICK n \in 0..Len(job.frames) :
             files' = [files EXCEPT ![current] = @ \o SubSeq(job.frames, 1, n)]
      BY <2>2
    <3> DEFINE s == job.frames  w == SubSeq(s, 1, n)  r == SubSeq(s, n + 1, Len(s))
    <3>2. w \in Seq(Frame) /\ r \in Seq(Frame) /\ w \o r = s
      <4>1. s \in Seq(Frame) /\ Len(s) \in Nat /\ \A i \in 1..Len(s) : s[i] \in Frame
        BY <1>3, LenProperties, ElementOfSeq
      <4> HIDE DEF s
      <4>2. /\ 1 \in Int /\ n \in Int /\ n + 1 \in Int /\ Len(s) \in Int
            /\ (\A i \in 1..n : s[i] \in Frame) /\ (\A i \in (n + 1)..Len(s) : s[i] \in Frame)
        BY <3>1, <4>1 DEF s
      <4>3. w \in Seq(Frame) /\ r \in Seq(Frame)
        BY <4>2, SubSeqProperties
      <4>4. 1 \in 1..Len(s) + 1 /\ n \in (1 - 1)..Len(s) /\ Len(s) \in n..Len(s)
        BY <3>1, <4>1 DEF s
      <4>5. w \o r = SubSeq(s, 1, Len(s))
        BY <4>1, <4>4, ConcatAdjacentSubSeq
      <4> QED
        BY <4>1, <4>3, <4>5, SubSeqFull
    <3> DEFINE d == OnDisk  q == QueuedIn(queue)
    <3>3. OnTheWay = s \o q /\ q \in Seq(Frame) /\ d \in Seq(Frame)
      BY <2>2, WayIs DEF OutputInv, InHand
    <3>4. files' = [files EXCEPT ![current] = @ \o w] /\ IsPrefix(d \o (s \o q), Due)
      BY <1>3, <3>1, <3>3
    <3>5. current \in DOMAIN files
      BY <1>3, <2>2
    <3> HIDE DEF s, w, r
    <3>6. /\ IsDisk(files') /\ InOrder(files') = InOrder(files) \o w
          /\ \A time \in Filled(files') : time =< current
      BY <1>3, <3>2, <3>4, <3>5, WrittenLast
    <3>7. InOrder(files') = d \o w
      BY <3>6 DEF OnDisk
    <3> HIDE DEF d, q
    <3>8. d \o (s \o q) = (d \o w) \o (r \o q) /\ d \o w \in Seq(Frame) /\ r \o q \in Seq(Frame)
      <4>1. (w \o r) \o q = w \o (r \o q) /\ r \o q \in Seq(Frame) /\ d \o w \in Seq(Frame)
        BY <3>2, <3>3, FramesJoin
      <4> DEFINE t == r \o q
      <4>2. t \in Seq(Frame) /\ s \o q = w \o t
        BY <3>2, <4>1
      <4> HIDE DEF t
      <4>3. (d \o w) \o t = d \o (w \o t)
        BY <3>2, <3>3, <4>2, FramesJoin
      <4> QED
        BY <4>1, <4>2, <4>3 DEF t
    <3> DEFINE a == d \o w  b == r \o q
    <3>9. a \in Seq(Frame) /\ b \in Seq(Frame) /\ IsPrefix(a \o b, Due)
      BY <3>4, <3>8
    <3> HIDE DEF a, b
    <3>10. IsPrefix(a, a \o b) /\ a \o b \in Seq(Frame)
      BY <3>9, PrefixOfConcat, FramesJoin
    <3>11. IsPrefix(a, Due)
      BY <1>3, <3>9, <3>10, PrefixTrans
    <3>12. DOMAIN files' = DOMAIN files
      BY <3>4
    <3> QED
      BY <3>6, <3>7, <3>11, <3>12 DEF a
  <2>3. CASE /\ Closing /\ current # None /\ Len(files[current]) > 0
             /\ files' = [files EXCEPT ![current] = Front(@)]
    <3>1. current \in DOMAIN files /\ files[current] # <<>>
      BY <1>3, <2>3, EmptySeq
    <3>2. /\ IsDisk(files') /\ IsPrefix(InOrder(files'), InOrder(files))
          /\ \A time \in Filled(files') : time =< current
      BY <1>3, <2>3, <3>1, LostLast
    <3>3. InOrder(files') \in Seq(Frame) /\ InOrder(files) \in Seq(Frame)
      BY <1>3, <3>2, InOrderTyped
    <3>4. IsPrefix(InOrder(files), Due)
      BY <1>3 DEF OnDisk
    <3>5. IsPrefix(InOrder(files'), Due)
      BY <1>3, <3>2, <3>3, <3>4, PrefixTrans
    <3>6. DOMAIN files' = DOMAIN files
      BY <2>3
    <3> QED
      BY <3>2, <3>5, <3>6
  <2> QED
    BY <1>1, <2>1, <2>2, <2>3
<1>5. WriterInv'
  BY <1>1, <1>2, <1>4 DEF OutputInv, WriterInv
<1>6. PathInv'
  <2>1. /\ current \in Int /\ Reached \in Int /\ output_path \in Int
        /\ \A n \in 1..Len(queue) : queue[n].path \in Int
    BY DiskPaths
  <2>2. Reached' = current /\ current =< Reached /\ Reached =< output_path
    BY <1>1 DEF OutputInv, PathInv, Reached
  <2>3. \A n \in 1..Len(queue) : /\ queue[n].path \in Stamp
                                 /\ current =< queue[n].path /\ queue[n].path =< output_path
    BY <2>1, <2>2 DEF OutputInv, PathInv
  <2>4. current =< current /\ current =< output_path
    BY <2>1, <2>2
  <2> QED
    BY <1>1, <1>4, <2>2, <2>3, <2>4 DEF OutputInv, PathInv
<1>7. FilesAreStream'
  <2>1. Due' = Due
    BY DueSame DEF loggerVars, inputVars
  <2>2. IsPrefix(OnDisk', Due')
    BY <1>4, <2>1 DEF OnDisk
  <2> DEFINE D == OnDisk'  W == OnTheWay'  E == Due'
  <2>3. FilesAreStream' <=> /\ IsPrefix(D, E)
                            /\ ~error' => IsPrefix(D \o W, E)
                            /\ (~error' /\ ~failed') => D \o W = E
    BY DEF FilesAreStream, Due
  <2> QED
    BY <1>1, <2>2, <2>3
<1> QED
  BY <1>5, <1>6, <1>7 DEF OutputInv

(***************************************************************************)
(* The whole system.                                                       *)
(***************************************************************************)
LEMMA WorkerKeeps ==
  ASSUME LoggerInv, OutputInv, WriterStep
  PROVE  LoggerInv' /\ OutputInv'
<1>1. UNCHANGED loggerVars /\ (Take \/ Open \/ Write \/ Account \/ WriterFails)
  BY DEF WriterStep, Worker
<1>2. LoggerInv'
  <2>1. Since' = Since
    BY <1>1 DEF Since, loggerVars, inputVars
  <2>2. Own(heard)' = Own(heard)
    <3>1. Own(heard) = OwnOf(input.protocol, heard) /\ Own(heard)' = OwnOf(input'.protocol, heard')
      BY DEF Own, OwnOf
    <3> QED
      BY <1>1, <3>1 DEF loggerVars, inputVars
  <2>3. Whole(Own(heard))' = Whole(Own(heard)')
    OBVIOUS
  <2>4. TypeInv'
    BY <1>1 DEF LoggerInv, TypeInv, loggerVars, inputVars, intervalVars
  <2>5. DecodeInv'
    BY <1>1, <2>1 DEF LoggerInv, DecodeInv, loggerVars, inputVars
  <2>6. IntervalInv'
    BY <1>1, <2>2, <2>3 DEF LoggerInv, IntervalInv, loggerVars, inputVars, intervalVars
  <2> QED
    BY <2>4, <2>5, <2>6 DEF LoggerInv
<1>3. OutputInv'
  BY <1>1, TakeKeeps, OpenKeeps, WriteKeeps, AccountKeeps, FailureKeeps DEF LoggerInv
<1> QED
  BY <1>2, <1>3

LEMMA ConsumeKeeps ==
  ASSUME LoggerInv, OutputInv, Consume
  PROVE  LoggerInv' /\ OutputInv'
<1>1. /\ pc = "consume" /\ ~failed /\ Head(todo) \in Frame
      /\ Refuses \/ Keeps(Head(todo)) \/ Records(Head(todo))
  BY ConsumeDoes
<1>2. ~stopping
  BY <1>1 DEF OutputInv, WriterInv
<1>3. CASE Refuses
  <2>1. LoggerInv' /\ failed' /\ IsPrefix(Due, Due')
    BY <1>3, RefuseKeeps
  <2>2. UNCHANGED outputVars /\ output_path' = output_path
    BY <1>3 DEF Refuses, Refuse, intervalVars
  <2>3. TypeInv /\ TypeInv'
    BY <2>1 DEF LoggerInv
  <2> QED
    BY <1>1, <1>2, <2>1, <2>2, <2>3, QuietKeeps
<1>4. CASE Keeps(Head(todo))
  <2>1. LoggerInv' /\ ~failed' /\ Due' = Due
    BY <1>4, KeepKeeps
  <2>2. UNCHANGED outputVars /\ output_path' = output_path /\ pc' # "ended"
    BY <1>4 DEF Keeps, Keep
  <2>3. TypeInv /\ TypeInv'
    BY <2>1 DEF LoggerInv
  <2> QED
    BY <1>1, <1>2, <2>1, <2>2, <2>3, QuietKeeps
<1>5. CASE Submits(Head(todo))
  BY <1>5, SubmitKeeps, PushKeeps
<1> QED
  BY <1>1, <1>3, <1>4, <1>5, RecordDoes

LEMMA MainKeeps ==
  ASSUME NoLongestLine, LoggerInv, OutputInv, Main
  PROVE  LoggerInv' /\ OutputInv'
<1>0. /\ TypeInv /\ (failed => pc \in Stopped) /\ failed \in BOOLEAN
      /\ stopping => pc \in {"notify", "join", "ended"}
  BY DEF LoggerInv, TypeInv, DecodeInv, OutputInv, WriterInv
<1>1. CASE Check
  <2>1. LoggerInv'
    BY <1>1, OnwardSteps
  <2>2. /\ UNCHANGED outputVars /\ output_path' = output_path /\ UNCHANGED <<input, owed, heard>>
        /\ pc = "check" /\ pc' # "ended" /\ (failed => failed')
    BY <1>0, <1>1 DEF Check, Fail, inputVars, intervalVars, Stopped
  <2>3. TypeInv' /\ Due' = Due
    BY <2>1, <2>2, DueSame DEF LoggerInv
  <2> QED
    BY <1>0, <2>1, <2>2, <2>3, QuietKeeps
<1>2. CASE Read
  <2>1. LoggerInv'
    BY <1>2, ReadKeeps
  <2>2. /\ UNCHANGED outputVars /\ output_path' = output_path /\ UNCHANGED <<input, owed, heard>>
        /\ pc = "read" /\ pc' # "ended" /\ failed' = failed
    BY <1>2 DEF Read, intervalVars
  <2>3. TypeInv' /\ Due' = Due
    BY <2>1, <2>2, DueSame DEF LoggerInv
  <2> QED
    BY <1>0, <2>1, <2>2, <2>3, QuietKeeps
<1>3. ASSUME Timeout \/ Disconnect PROVE LoggerInv' /\ OutputInv'
  <2>1. Break /\ connected' \in BOOLEAN
    BY <1>0, <1>3 DEF Timeout, Disconnect, TypeInv
  <2>2. LoggerInv' /\ owed' = owed \o Whole(Own(heard)) /\ heard' = <<>>
    BY <2>1, BreakKeeps
  <2>3. /\ UNCHANGED outputVars /\ output_path' = output_path
        /\ pc = "read" /\ pc' # "ended" /\ failed' = failed /\ input' = input
    BY <2>1 DEF Break
  <2>4. TypeInv' /\ Due \in Seq(Frame)
    BY <1>0, <2>2, DueTyped DEF LoggerInv
  <2>5. Due' = Due
    <3>1. Due' = owed' \o Whole(Own(heard)') /\ Own(heard)' = OwnOf(input'.protocol, heard')
      BY DEF Due, Own, OwnOf
    <3>2. <<>> \in Seq(Frame)
      BY EmptySeq
    <3>3. Own(heard)' = <<>>
      BY <2>2, <3>1, <3>2, OwnTyped
    <3>4. Due' = Due \o <<>>
      BY <2>2, <3>1, <3>3, WholeEmpty DEF Due
    <3> QED
      BY <2>4, <3>4, ConcatEmptySeq
  <2> QED
    BY <1>0, <2>2, <2>3, <2>4, <2>5, QuietKeeps
<1>4. CASE Reconnect
  <2>1. LoggerInv'
    BY <1>4, ReconnectKeeps
  <2>2. /\ UNCHANGED outputVars /\ output_path' = output_path /\ UNCHANGED <<input, owed, heard>>
        /\ pc = "read" /\ pc' # "ended" /\ failed' = failed
    BY <1>4 DEF Reconnect, intervalVars
  <2>3. TypeInv' /\ Due' = Due
    BY <2>1, <2>2, DueSame DEF LoggerInv
  <2> QED
    BY <1>0, <2>1, <2>2, <2>3, QuietKeeps
<1>5. CASE EndOfFile
  <2>1. LoggerInv'
    BY <1>5, OnwardSteps
  <2>2. /\ UNCHANGED outputVars /\ output_path' = output_path /\ UNCHANGED <<input, owed, heard>>
        /\ pc = "read" /\ pc' # "ended"
    BY <1>5 DEF EndOfFile, inputVars, intervalVars
  <2>3. TypeInv' /\ Due' = Due
    BY <2>1, <2>2, DueSame DEF LoggerInv
  <2>4. ~failed
    BY <1>0, <2>2 DEF Stopped
  <2> QED
    BY <1>0, <2>1, <2>2, <2>3, <2>4, QuietKeeps
<1>6. CASE Consume
  BY <1>6, ConsumeKeeps
<1>7. ASSUME Stop \/ Notify PROVE LoggerInv' /\ OutputInv'
  BY <1>0, <1>7, OnwardSteps, StopKeeps
<1>8. CASE Join
  <2>1. LoggerInv'
    BY <1>8, OnwardSteps
  <2>2. /\ UNCHANGED outputVars /\ output_path' = output_path /\ UNCHANGED <<input, owed, heard>>
        /\ pc' = "ended" /\ writer = "ended" /\ failed' = (failed \/ error)
    BY <1>8 DEF Join, inputVars, intervalVars
  <2>3. TypeInv' /\ Due' = Due
    BY <2>1, <2>2, DueSame DEF LoggerInv
  <2> QED
    BY <1>0, <2>1, <2>2, <2>3, QuietKeeps
<1> QED
  BY <1>1, <1>2, <1>3, <1>4, <1>5, <1>6, <1>7, <1>8 DEF Main

LEMMA NextHolds ==
  ASSUME NoLongestLine, IInv, [Next]_vars
  PROVE  IInv'
<1>1. LoggerInv /\ OutputInv
  BY DEF IInv, LoggerInv, OutputInv
<1>2. LoggerInv' /\ OutputInv'
  <2>1. CASE Main
    BY <1>1, <2>1, MainKeeps
  <2>2. CASE WriterStep
    BY <1>1, <2>2, WorkerKeeps
  <2>3. CASE UNCHANGED vars
    <3>1. UNCHANGED loggerVars /\ UNCHANGED outputVars
      BY <2>3 DEF vars
    <3>2. UNCHANGED <<inputVars, pending_, todo, heard, intervalVars, failed, pc>>
      BY <3>1 DEF loggerVars
    <3>3. LoggerInv'
      <4>1. Since' = Since
        BY <3>2 DEF Since, inputVars
      <4>2. Own(heard)' = Own(heard)
        <5>1. Own(heard) = OwnOf(input.protocol, heard) /\ Own(heard)' = OwnOf(input'.protocol, heard')
          BY DEF Own, OwnOf
        <5> QED
          BY <3>2, <5>1 DEF inputVars
      <4>3. Whole(Own(heard))' = Whole(Own(heard)')
        OBVIOUS
      <4>4. TypeInv'
        BY <1>1, <3>2 DEF LoggerInv, TypeInv, inputVars, intervalVars
      <4>5. DecodeInv'
        BY <1>1, <3>2, <4>1 DEF LoggerInv, DecodeInv, inputVars
      <4>6. IntervalInv'
        BY <1>1, <3>2, <4>2, <4>3 DEF LoggerInv, IntervalInv, inputVars, intervalVars
      <4> QED
        BY <4>4, <4>5, <4>6 DEF LoggerInv
    <3>4. Due' = Due
      BY <3>2, DueSame DEF inputVars
    <3>5. TypeInv /\ TypeInv' /\ output_path' = output_path /\ failed' = failed /\ pc' = pc
      BY <1>1, <3>2, <3>3 DEF LoggerInv, intervalVars
    <3>6. /\ stopping => pc \in {"notify", "join", "ended"}
          /\ (pc = "ended" /\ ~failed) => ~error /\ writer = "ended"
      BY <1>1 DEF OutputInv, WriterInv
    <3>7. OutputInv'
      BY <1>1, <3>1, <3>4, <3>5, <3>6, QuietKeeps
    <3> QED
      BY <3>3, <3>7
  <2> QED
    BY <2>1, <2>2, <2>3 DEF Next
<1> QED
  BY <1>2 DEF IInv, LoggerInv, OutputInv

LEMMA ChunksFollow ==
  ASSUME IInv PROVE ChunksInvisible
BY DEF IInv, TypeInv, DecodeInv, ChunksInvisible, Stopped

LEMMA EndFollows ==
  ASSUME IInv PROVE EndsWhole
<1> SUFFICES ASSUME pc = "ended", ~failed
             PROVE  OnDisk = Own(Decoded(input.bytes).frames) /\ Decoded(input.bytes).pending = <<>>
  BY DEF EndsWhole
<1>1. /\ connected /\ start = 0 /\ owed = <<>> /\ pos = Len(input.bytes) /\ pending_ = <<>> /\ pending = <<>>
      /\ todo = <<>> /\ ~error /\ writer = "ended" /\ queue = <<>>
  BY DEF IInv, DecodeInv, IntervalInv, WriterInv, Stopped
<1>2. Since = input.bytes
  <2>1. input.bytes \in Bytes
    BY InputsAre DEF IInv
  <2>2. Since = SubSeq(input.bytes, 1, Len(input.bytes))
    BY <1>1 DEF Since
  <2> QED
    BY <2>1, <2>2, SubSeqFull DEF Bytes
<1>3. heard \in Seq(Frame) /\ heard = Decoded(input.bytes).frames /\ Decoded(input.bytes).pending = <<>>
  <2>1. heard \in Seq(Frame) /\ heard \o todo = Decoded(Since).frames /\ pending_ = Decoded(Since).pending
    BY <1>1 DEF IInv, TypeInv, DecodeInv
  <2>2. heard \o <<>> = heard
    BY <2>1, ConcatEmptySeq
  <2> QED
    BY <1>1, <1>2, <2>1, <2>2
<1>4. Own(heard) \in Seq(Frame) /\ Whole(Own(heard)) \in Seq(Frame)
  BY <1>3, OwnIs DEF IInv
<1>5. Whole(Own(heard)) = Own(heard)
  <2>1. Own(heard) = Whole(Own(heard)) \o <<>>
    BY <1>1 DEF IInv, IntervalInv
  <2> QED
    BY <1>4, <2>1, ConcatEmptySeq
<1>6. Due = Own(heard)
  <2>1. Due = <<>> \o Own(heard)
    BY <1>1, <1>5 DEF Due
  <2> QED
    BY <1>4, <2>1, ConcatEmptySeq
<1>7. OnDisk \in Seq(Frame) /\ OnTheWay = <<>>
  <2>1. <<>> \in Seq(Frame) /\ InHand = <<>> /\ QueuedIn(queue) = <<>>
    BY <1>1, QueuedIs, EmptySeq DEF InHand
  <2>2. <<>> \o <<>> = <<>>
    BY <2>1, ConcatEmptySeq
  <2> QED
    BY <2>1, <2>2, WayIs DEF IInv
<1>8. OnDisk \o <<>> = Due
  BY <1>1, <1>7, StreamIs DEF IInv
<1> QED
  BY <1>3, <1>6, <1>7, <1>8, ConcatEmptySeq

LEMMA Invariance ==
  ASSUME NoLongestLine
  PROVE  Spec => []IInv
<1>1. Init => IInv
  BY InitHolds
<1>2. IInv /\ [Next]_vars => IInv'
  BY NextHolds
<1> QED
  BY <1>1, <1>2, PTL DEF Spec

\* Chunk and file boundaries have no framing significance: whatever the reads
\* returned, feed() has called back with the frames that one call for all the
\* bytes would find, and no sentence of the full MaxLine being there.
THEOREM ChunksLeaveNoTrace ==
  ASSUME NoLongestLine
  PROVE  Spec => []ChunksInvisible
<1>1. IInv => ChunksInvisible
  BY ChunksFollow
<1> QED
  BY <1>1, Invariance, PTL

\* The recording is the whole intervals of the stream in their order; what
\* an error of the disk leaves is a prefix of them.
THEOREM RecordingIsStream ==
  ASSUME NoLongestLine
  PROVE  Spec => []FilesAreStream
<1>1. IInv => FilesAreStream
  BY DEF IInv
<1> QED
  BY <1>1, Invariance, PTL

\* A run that ends well has written every frame of its input.
THEOREM RunsEndWhole ==
  ASSUME NoLongestLine
  PROVE  Spec => []EndsWhole
<1>1. IInv => EndsWhole
  BY EndFollows
<1> QED
  BY <1>1, Invariance, PTL
=============================================================================
