-------------------------- MODULE Delivery_proofs --------------------------
(***************************************************************************)
(* Proofs about the delivery of generated documents: requests of a client  *)
(* for a pane are acted on in the order of their numbers, each at most     *)
(* once; and every lease a broker granted is in exactly one place, with    *)
(* the pane that still shows its document, in the queue of releases, or    *)
(* told about.                                                             *)
(***************************************************************************)
EXTENDS Delivery, SequenceTheorems, FiniteSetTheorems, WellFoundedInduction, TLAPS

LEMMA PrefixInduction ==
    ASSUME NEW m \in Nat, NEW G, 0 \in G, \A n \in 1..m : n - 1 \in G => n \in G
    PROVE  m \in G
<1> DEFINE Bad == {n \in Nat : n <= m /\ n \notin G}
           R == {p \in Nat \X Nat : p[1] < p[2]}
<1> SUFFICES ASSUME Bad # {} PROVE FALSE
  OBVIOUS
<1>1. OpToRel(<, Nat) = R
  BY DEF OpToRel
<1>2. IsWellFoundedOn(R, Nat)
  BY <1>1, NatLessThanWellFounded
<1>3. PICK x \in Bad : \A y \in Bad : ~(<<y, x>> \in R)
  <2>1. Bad \subseteq Nat /\ Bad # {}
    OBVIOUS
  <2> HIDE DEF Bad, R
  <2> QED
    BY <1>2, <2>1, WFMin
<1>4. x \in 1..m /\ x - 1 \in Nat /\ x - 1 < x /\ x - 1 <= m
  BY <1>3
<1>5. <<x - 1, x>> \in R
  BY <1>4
<1>6. x - 1 \in G
  BY <1>3, <1>4, <1>5
<1> QED
  BY <1>3, <1>4, <1>6

(***************************************************************************)
(* Folding a step over 1..m: the function the recursion defines.           *)
(***************************************************************************)
IsFold(f, m, zero, step) ==
    f[0] = zero /\ \A n \in 1..m : f[n] = step[<<n, f[n - 1]>>]

LEMMA FoldExists ==
    ASSUME NEW m \in Nat, NEW S, NEW zero \in S, NEW step \in [(1..m) \X S -> S]
    PROVE  \E f \in [0..m -> S] : IsFold(f, m, zero, step)
<1> DEFINE G == {k \in 0..m : \E f \in [0..k -> S] : IsFold(f, k, zero, step)}
<1>1. 0 \in G
  <2> DEFINE f == [n \in 0..0 |-> zero]
  <2>1. f \in [0..0 -> S] /\ IsFold(f, 0, zero, step)
    BY DEF IsFold
  <2> QED
    BY <2>1
<1>2. ASSUME NEW k \in 1..m, k - 1 \in G PROVE k \in G
  <2>1. PICK f \in [0..(k - 1) -> S] : IsFold(f, k - 1, zero, step)
    BY <1>2
  <2>2. k - 1 \in 0..(k - 1) /\ f[k - 1] \in S
    OBVIOUS
  <2>3. step[<<k, f[k - 1]>>] \in S
    BY <2>2
  <2> DEFINE g == [n \in 0..k |-> IF n = k THEN step[<<k, f[k - 1]>>] ELSE f[n]]
  <2>4. ASSUME NEW n \in 0..k, n # k PROVE n \in 0..(k - 1) /\ f[n] \in S /\ g[n] = f[n]
    <3>1. n \in 0..(k - 1)
      BY <2>4
    <3> QED
      BY <3>1, <2>4
  <2>5. g \in [0..k -> S]
    BY <2>3, <2>4
  <2>6. g[0] = zero /\ g[k] = step[<<k, f[k - 1]>>] /\ g[k - 1] = f[k - 1]
    BY <2>1 DEF IsFold
  <2>7. ASSUME NEW n \in 1..k PROVE g[n] = step[<<n, g[n - 1]>>]
    <3>1. CASE n = k
      BY <2>6, <3>1
    <3>2. CASE n # k
      <4>1. n \in 1..(k - 1) /\ n \in 0..k /\ n - 1 \in 0..k /\ n - 1 # k
        BY <3>2
      <4>2. g[n] = f[n] /\ g[n - 1] = f[n - 1]
        BY <4>1
      <4> QED
        BY <4>1, <4>2, <2>1 DEF IsFold
    <3> QED
      BY <3>1, <3>2
  <2> HIDE DEF g
  <2>8. IsFold(g, k, zero, step)
    BY <2>6, <2>7 DEF IsFold
  <2> QED
    BY <2>5, <2>8
<1>3. m \in G
  <2> HIDE DEF G
  <2> QED
    BY <1>1, <1>2, PrefixInduction
<1> QED
  BY <1>3

(***************************************************************************)
(* flushReleases.                                                          *)
(***************************************************************************)
IsRest(f, queue, reached) ==
    f = [n \in 0..Len(queue) |->
           IF n = 0 THEN <<>>
           ELSE IF queue[n] \in reached THEN f[n - 1] ELSE Append(f[n - 1], queue[n])]

Rest(queue, reached) == CHOOSE f : IsRest(f, queue, reached)

LEMMA RestFacts ==
    ASSUME NEW S, NEW queue \in Seq(S), NEW reached
    PROVE  /\ Rest(queue, reached) \in [0..Len(queue) -> Seq(S)]
           /\ Rest(queue, reached)[0] = <<>>
           /\ \A n \in 1..Len(queue) :
                Rest(queue, reached)[n] =
                  IF queue[n] \in reached THEN Rest(queue, reached)[n - 1]
                  ELSE Append(Rest(queue, reached)[n - 1], queue[n])
           /\ Flushed(queue, reached) = Rest(queue, reached)[Len(queue)]
<1> DEFINE m == Len(queue)
           step == [p \in (1..m) \X Seq(S) |->
                      IF queue[p[1]] \in reached THEN p[2] ELSE Append(p[2], queue[p[1]])]
<1>1. m \in Nat /\ <<>> \in Seq(S)
  BY EmptySeq
<1>2. step \in [(1..m) \X Seq(S) -> Seq(S)]
  <2> SUFFICES ASSUME NEW n \in 1..m, NEW s \in Seq(S)
               PROVE  (IF queue[n] \in reached THEN s ELSE Append(s, queue[n])) \in Seq(S)
    OBVIOUS
  <2>1. queue[n] \in S
    BY ElementOfSeq
  <2> QED
    BY <2>1, AppendProperties
<1>3. PICK f \in [0..m -> Seq(S)] : IsFold(f, m, <<>>, step)
  <2> HIDE DEF step, m
  <2> QED
    BY <1>1, <1>2, FoldExists
<1>4. \A n \in 1..m : f[n] = IF queue[n] \in reached THEN f[n - 1] ELSE Append(f[n - 1], queue[n])
  <2> SUFFICES ASSUME NEW n \in 1..m
               PROVE  f[n] = IF queue[n] \in reached THEN f[n - 1] ELSE Append(f[n - 1], queue[n])
    OBVIOUS
  <2>1. n - 1 \in 0..m /\ f[n - 1] \in Seq(S)
    BY <1>1
  <2>2. f[n] = step[<<n, f[n - 1]>>]
    BY <1>3 DEF IsFold
  <2> QED
    BY <2>1, <2>2
<1>5. IsRest(f, queue, reached)
  <2>1. \A n \in 0..m : f[n] = IF n = 0 THEN <<>>
                               ELSE IF queue[n] \in reached THEN f[n - 1]
                               ELSE Append(f[n - 1], queue[n])
    <3>1. f[0] = <<>>
      BY <1>3 DEF IsFold
    <3>2. \A n \in 0..m : n = 0 \/ n \in 1..m
      BY <1>1
    <3> QED
      BY <3>1, <3>2, <1>4
  <2> QED
    BY <2>1 DEF IsRest
<1> DEFINE r == Rest(queue, reached)
<1>6. IsRest(r, queue, reached)
  BY <1>5 DEF Rest
<1>7. Flushed(queue, reached) = r[Len(queue)]
  BY DEF Flushed, Rest, IsRest
<1> HIDE DEF r
<1>8. r[0] = <<>>
  BY <1>1, <1>6 DEF IsRest
<1>9. \A n \in 1..m : r[n] = IF queue[n] \in reached THEN r[n - 1] ELSE Append(r[n - 1], queue[n])
  <2> SUFFICES ASSUME NEW n \in 1..m
               PROVE  r[n] = IF queue[n] \in reached THEN r[n - 1] ELSE Append(r[n - 1], queue[n])
    OBVIOUS
  <2>1. n \in 0..m /\ n # 0
    OBVIOUS
  <2>2. r[n] = [k \in 0..m |-> IF k = 0 THEN <<>>
                               ELSE IF queue[k] \in reached THEN r[k - 1]
                               ELSE Append(r[k - 1], queue[k])][n]
    BY <1>6 DEF IsRest
  <2> HIDE DEF m
  <2> QED
    BY <2>1, <2>2
<1>10. r \in [0..m -> Seq(S)]
  <2> DEFINE G == {n \in 0..m : r[n] \in Seq(S)}
  <2>1. DOMAIN r = 0..m /\ r = [n \in DOMAIN r |-> r[n]]
    BY <1>6 DEF IsRest
  <2>2. ASSUME NEW k \in 0..m PROVE k \in G
    <3>1. 0 \in G
      <4>1. 0 \in 0..m
        BY <1>1
      <4>2. r[0] \in Seq(S)
        BY <1>1, <1>8
      <4> QED
        BY <4>1, <4>2
    <3>2. ASSUME NEW n \in 1..k, n - 1 \in G PROVE n \in G
      <4>1. n \in 1..m /\ n \in 0..m /\ r[n - 1] \in Seq(S)
        BY <3>2, <1>1
      <4>2. queue[n] \in S
        BY <4>1, ElementOfSeq
      <4>3. Append(r[n - 1], queue[n]) \in Seq(S)
        BY <4>1, <4>2, AppendProperties
      <4>4. r[n] \in Seq(S)
        BY <4>1, <4>3, <1>9
      <4> QED
        BY <4>1, <4>4
    <3> HIDE DEF G
    <3> QED
      BY <3>1, <3>2, <1>1, PrefixInduction
  <2> QED
    BY <2>1, <2>2
<1> QED
  BY <1>7, <1>8, <1>9, <1>10 DEF r

(***************************************************************************)
(* How often a lease is in a queue.                                        *)
(***************************************************************************)
One(b) == IF b THEN 1 ELSE 0

\* Among the first n members.
Count(l, queue, n) == Cardinality({i \in 1..n : queue[i] = l})

LEMMA CountFacts ==
    ASSUME NEW l, NEW queue, NEW n \in Nat
    PROVE  /\ Count(l, queue, n) \in Nat
           /\ Count(l, queue, 0) = 0
           /\ Count(l, queue, n + 1) = Count(l, queue, n) + One(queue[n + 1] = l)
           /\ Count(l, queue, n) = 0 <=> \A i \in 1..n : queue[i] # l
<1> DEFINE I(k) == {i \in 1..k : queue[i] = l}
<1>1. \A k \in Nat : IsFiniteSet(I(k))
  <2> SUFFICES ASSUME NEW k \in Nat PROVE IsFiniteSet(I(k))
    OBVIOUS
  <2>1. IsFiniteSet(1..k)
    BY FS_Interval
  <2> QED
    BY <2>1, FS_Subset
<1>2. I(0) = {}
  OBVIOUS
<1>3. I(n + 1) = IF queue[n + 1] = l THEN I(n) \cup {n + 1} ELSE I(n)
  OBVIOUS
<1>4. n + 1 \notin I(n)
  OBVIOUS
<1>5. Cardinality(I(n)) = 0 <=> I(n) = {}
  BY <1>1, FS_EmptySet
<1>6. Cardinality(I(n)) \in Nat
  BY <1>1, FS_CardinalityType
<1>7. Cardinality(I(n) \cup {n + 1}) = Cardinality(I(n)) + 1
  <2> HIDE DEF I
  <2> QED
    BY <1>1, <1>4, FS_AddElement
<1>8. Cardinality(I(n + 1)) = Cardinality(I(n)) + One(queue[n + 1] = l)
  <2> HIDE DEF I
  <2> QED
    BY <1>3, <1>6, <1>7 DEF One
<1> QED
  BY <1>2, <1>5, <1>6, <1>8, FS_EmptySet DEF Count

LEMMA TimesFacts ==
    ASSUME NEW S, NEW queue \in Seq(S), NEW l
    PROVE  /\ Times(l, queue) = Count(l, queue, Len(queue))
           /\ Times(l, queue) \in Nat
           /\ Times(l, queue) = 0 <=> l \notin ToSet(queue)
           /\ \A x \in S : Times(l, Append(queue, x)) = Times(l, queue) + One(x = l)
<1> DEFINE m == Len(queue)
<1>1. m \in Nat /\ DOMAIN queue = 1..m
  BY LenProperties
<1>2. Times(l, queue) = Count(l, queue, m)
  BY <1>1 DEF Times, Count
<1>3. l \notin ToSet(queue) <=> \A i \in 1..m : queue[i] # l
  BY <1>1 DEF ToSet
<1>4. ASSUME NEW x \in S PROVE Times(l, Append(queue, x)) = Times(l, queue) + One(x = l)
  <2> DEFINE q == Append(queue, x)
  <2>1. /\ q \in Seq(S) /\ Len(q) = m + 1 /\ q[m + 1] = x
        /\ \A i \in 1..m : q[i] = queue[i]
    BY <1>1, AppendProperties
  <2>2. DOMAIN q = 1..(m + 1)
    BY <2>1, LenProperties
  <2> HIDE DEF q, m
  <2>3. Times(l, q) = Count(l, q, m + 1)
    BY <2>2 DEF Times, Count
  <2>4. Count(l, q, m + 1) = Count(l, q, m) + One(x = l)
    <3>1. Count(l, q, m + 1) = Count(l, q, m) + One(q[m + 1] = l)
      BY <1>1, CountFacts
    <3> QED
      BY <2>1, <3>1
  <2>5. {i \in 1..m : q[i] = l} = {i \in 1..m : queue[i] = l}
    BY <2>1
  <2>6. Count(l, q, m) = Count(l, queue, m)
    BY <2>5 DEF Count
  <2> QED
    BY <1>2, <2>3, <2>4, <2>6 DEF q
<1>5. Count(l, queue, m) \in Nat /\ (Count(l, queue, m) = 0 <=> \A i \in 1..m : queue[i] # l)
  <2> HIDE DEF m
  <2> QED
    BY <1>1, CountFacts
<1> QED
  BY <1>2, <1>3, <1>4, <1>5

LEMMA TimesOfNothing == \A l : Times(l, <<>>) = 0
<1> SUFFICES ASSUME NEW l PROVE Times(l, <<>>) = 0
  OBVIOUS
<1>1. {i \in DOMAIN <<>> : <<>>[i] = l} = {}
  OBVIOUS
<1> QED
  BY <1>1, FS_EmptySet DEF Times

\* What a broker was told about is gone from the queue, the rest is not.
LEMMA FlushedFacts ==
    ASSUME NEW S, NEW queue \in Seq(S), NEW reached
    PROVE  /\ Flushed(queue, reached) \in Seq(S)
           /\ Len(Flushed(queue, reached)) <= Len(queue)
           /\ \A l : Times(l, Flushed(queue, reached)) =
                       IF l \in reached THEN 0 ELSE Times(l, queue)
<1> DEFINE m == Len(queue)
           r == Rest(queue, reached)
           Right(n) == /\ Len(r[n]) <= n
                       /\ \A l : Times(l, r[n]) = IF l \in reached THEN 0 ELSE Count(l, queue, n)
           G == {n \in 0..m : Right(n)}
<1>1. /\ m \in Nat /\ r \in [0..m -> Seq(S)] /\ r[0] = <<>>
      /\ \A n \in 1..m : r[n] = IF queue[n] \in reached THEN r[n - 1] ELSE Append(r[n - 1], queue[n])
      /\ Flushed(queue, reached) = r[m]
  BY RestFacts, LenProperties
<1> HIDE DEF r
<1>2. 0 \in G
  <2>1. Len(r[0]) <= 0
    BY <1>1
  <2>2. \A l : Times(l, r[0]) = IF l \in reached THEN 0 ELSE Count(l, queue, 0)
    BY <1>1, TimesOfNothing, CountFacts
  <2> QED
    BY <1>1, <2>1, <2>2
<1>3. ASSUME NEW n \in 1..m, n - 1 \in G PROVE n \in G
  <2>1. /\ n - 1 \in 0..m /\ n - 1 \in Nat /\ n \in 0..m /\ r[n - 1] \in Seq(S)
        /\ Right(n - 1) /\ (n - 1) + 1 = n
    BY <1>1, <1>3
  <2>2. queue[n] \in S
    BY ElementOfSeq
  <2>3. \A l : Count(l, queue, n) = Count(l, queue, n - 1) + One(queue[n] = l)
               /\ Count(l, queue, n - 1) \in Nat
    BY <2>1, CountFacts
  <2>4. CASE queue[n] \in reached
    <3>1. r[n] = r[n - 1]
      BY <1>1, <2>4
    <3>2. Len(r[n]) <= n
      BY <2>1, <3>1, LenProperties
    <3>3. ASSUME NEW l PROVE Times(l, r[n]) = IF l \in reached THEN 0 ELSE Count(l, queue, n)
      <4>1. Times(l, r[n - 1]) = IF l \in reached THEN 0 ELSE Count(l, queue, n - 1)
        BY <2>1
      <4>2. l \notin reached => One(queue[n] = l) = 0
        BY <2>4 DEF One
      <4> QED
        BY <4>1, <4>2, <3>1, <2>3
    <3> QED
      BY <2>1, <3>2, <3>3
  <2>5. CASE queue[n] \notin reached
    <3>1. r[n] = Append(r[n - 1], queue[n])
      BY <1>1, <2>5
    <3>2. Len(r[n]) = Len(r[n - 1]) + 1
      BY <3>1, <2>1, <2>2, AppendProperties
    <3>3. Len(r[n]) <= n
      BY <2>1, <3>2, LenProperties
    <3>4. ASSUME NEW l PROVE Times(l, r[n]) = IF l \in reached THEN 0 ELSE Count(l, queue, n)
      <4>1. Times(l, r[n - 1]) = IF l \in reached THEN 0 ELSE Count(l, queue, n - 1)
        BY <2>1
      <4>2. Times(l, r[n]) = Times(l, r[n - 1]) + One(queue[n] = l)
        BY <3>1, <2>1, <2>2, TimesFacts
      <4>3. l \in reached => One(queue[n] = l) = 0
        BY <2>5 DEF One
      <4> QED
        BY <4>1, <4>2, <4>3, <2>3
    <3> QED
      BY <2>1, <3>3, <3>4
  <2> QED
    BY <2>4, <2>5
<1>4. m \in G
  <2> HIDE DEF G
  <2> QED
    BY <1>1, <1>2, <1>3, PrefixInduction
<1>5. \A l : Times(l, queue) = Count(l, queue, m)
  BY TimesFacts
<1> QED
  BY <1>1, <1>4, <1>5

LEMMA TimesOfConcat ==
    ASSUME NEW S, NEW s \in Seq(S), NEW t \in Seq(S), NEW l
    PROVE  Times(l, s \o t) = Times(l, s) + Times(l, t)
<1> DEFINE q == s \o t
           m == Len(s)
           n == Len(t)
           A == {i \in 1..m : s[i] = l}
           B == {i \in 1..n : t[i] = l}
           C == {i \in (m + 1)..(m + n) : t[i - m] = l}
           f == [i \in B |-> i + m]
<1>1. /\ m \in Nat /\ n \in Nat /\ q \in Seq(S) /\ Len(q) = m + n
      /\ \A i \in 1..(m + n) : q[i] = IF i <= m THEN s[i] ELSE t[i - m]
  BY ConcatProperties, LenProperties
<1>2. Times(l, q) = Cardinality({i \in 1..(m + n) : q[i] = l})
  BY <1>1, LenProperties DEF Times
<1>3. Times(l, s) = Cardinality(A) /\ Times(l, t) = Cardinality(B)
  BY LenProperties DEF Times
<1> HIDE DEF q, m, n
<1>4. {i \in 1..(m + n) : q[i] = l} = A \cup C
  BY <1>1
<1>5. A \cap C = {}
  BY <1>1
<1>6. IsFiniteSet(A) /\ IsFiniteSet(B) /\ IsFiniteSet(C)
  <2>1. IsFiniteSet(1..m) /\ IsFiniteSet(1..n) /\ IsFiniteSet((m + 1)..(m + n))
    <3>1. 1 \in Int /\ m \in Int /\ n \in Int /\ m + 1 \in Int /\ m + n \in Int
      BY <1>1
    <3> QED
      BY <3>1, FS_Interval
  <2> QED
    BY <2>1, FS_Subset
<1>7. Cardinality(C) = Cardinality(B)
  <2>1. f \in [B -> C]
    BY <1>1
  <2>2. \A i, j \in B : f[i] = f[j] => i = j
    BY <1>1
  <2>3. \A c \in C : \E i \in B : f[i] = c
    <3> SUFFICES ASSUME NEW c \in C PROVE \E i \in B : f[i] = c
      OBVIOUS
    <3>1. c - m \in B /\ (c - m) + m = c
      BY <1>1
    <3> QED
      BY <3>1
  <2>4. f \in Bijection(B, C)
    <3> HIDE DEF f, B, C
    <3> QED
      BY <2>1, <2>2, <2>3 DEF Bijection, Injection, Surjection, IsInjective
  <2> HIDE DEF f, B, C
  <2> QED
    BY <1>6, <2>4, FS_Bijection DEF ExistsBijection
<1>8. Cardinality(A) \in Nat /\ Cardinality(B) \in Nat /\ Cardinality(C) \in Nat
  BY <1>6, FS_CardinalityType
<1>9. Cardinality(A \cup C) = Cardinality(A) + Cardinality(C)
  <2> HIDE DEF A, C
  <2>1. Cardinality(A \cup C) = Cardinality(A) + Cardinality(C) - Cardinality(A \cap C)
    BY <1>6, FS_Union
  <2>2. Cardinality(A \cap C) = 0
    BY <1>5, FS_EmptySet
  <2> QED
    BY <1>8, <2>1, <2>2
<1> HIDE DEF A, B, C
<1> QED
  BY <1>2, <1>3, <1>4, <1>7, <1>9 DEF q

\* A set put in a sequence: each member once.
LEMMA TimesOfSet ==
    ASSUME NEW S, IsFiniteSet(S)
    PROVE  /\ SetToSeq(S) \in Seq(S) /\ Len(SetToSeq(S)) = Cardinality(S)
           /\ ToSet(SetToSeq(S)) = S
           /\ \A l : Times(l, SetToSeq(S)) = One(l \in S)
<1> DEFINE n == Cardinality(S)
           f == SetToSeq(S)
<1>1. n \in Nat /\ ExistsBijection(1..n, S)
  BY FS_CardinalityType
<1>2. f \in [1..n -> S] /\ IsInjective(f)
  <2>1. \E g \in [1..n -> S] : IsInjective(g)
    BY <1>1 DEF ExistsBijection, Bijection, Injection
  <2> QED
    BY <2>1 DEF SetToSeq
<1> HIDE DEF f
<1>3. f \in Seq(S) /\ Len(f) = n /\ DOMAIN f = 1..n
  BY <1>1, <1>2, LenProperties
<1>4. f \in Surjection(1..n, S)
  <2>1. f \in Injection(1..n, S)
    BY <1>2 DEF Injection
  <2>2. Cardinality(1..n) = n
    BY <1>1, FS_Interval
  <2> QED
    BY <2>1, <2>2, FS_Injection
<1>5. ToSet(f) = S
  BY <1>2, <1>3, <1>4 DEF Surjection, ToSet
<1>6. ASSUME NEW l PROVE Times(l, f) = One(l \in S)
  <2>1. CASE l \notin S
    <3>1. Times(l, f) = 0
      BY <1>3, <1>5, <2>1, TimesFacts
    <3> QED
      BY <2>1, <3>1 DEF One
  <2>2. CASE l \in S
    <3>1. PICK i \in 1..n : f[i] = l
      BY <1>4, <2>2 DEF Surjection
    <3>2. {j \in 1..n : f[j] = l} = {i}
      BY <1>2, <1>3, <3>1 DEF IsInjective
    <3>3. Times(l, f) = 1
      BY <1>3, <3>2, FS_Singleton DEF Times
    <3> QED
      BY <2>2, <3>3 DEF One
  <2> QED
    BY <2>1, <2>2
<1> QED
  BY <1>3, <1>5, <1>6 DEF f

\* A release more makes the queue at most one longer.
LEMMA FlushedOneMore ==
    ASSUME NEW S, NEW queue \in Seq(S), NEW x \in S, NEW reached
    PROVE  Len(Flushed(Append(queue, x), reached)) <= Len(Flushed(queue, reached)) + 1
<1> DEFINE more == Append(queue, x)
           m == Len(queue)
           r == Rest(queue, reached)
           t == Rest(more, reached)
           G == {n \in 0..m : t[n] = r[n]}
<1>1. /\ more \in Seq(S) /\ Len(more) = m + 1 /\ m \in Nat /\ \A i \in 1..m : more[i] = queue[i]
  BY AppendProperties, LenProperties
<1>2. /\ r \in [0..m -> Seq(S)] /\ r[0] = <<>> /\ Flushed(queue, reached) = r[m]
      /\ \A n \in 1..m : r[n] = IF queue[n] \in reached THEN r[n - 1] ELSE Append(r[n - 1], queue[n])
  BY RestFacts
<1> HIDE DEF more, r
<1>3. /\ t \in [0..(m + 1) -> Seq(S)] /\ t[0] = <<>> /\ Flushed(more, reached) = t[m + 1]
      /\ \A n \in 1..(m + 1) : t[n] = IF more[n] \in reached THEN t[n - 1] ELSE Append(t[n - 1], more[n])
  <2>1. /\ t \in [0..Len(more) -> Seq(S)] /\ t[0] = <<>> /\ Flushed(more, reached) = t[Len(more)]
        /\ \A n \in 1..Len(more) :
             t[n] = IF more[n] \in reached THEN t[n - 1] ELSE Append(t[n - 1], more[n])
    BY <1>1, RestFacts
  <2> HIDE DEF t, m
  <2> QED
    BY <1>1, <2>1
<1> HIDE DEF t
<1>4. 0 \in G
  BY <1>1, <1>2, <1>3
<1>5. ASSUME NEW n \in 1..m, n - 1 \in G PROVE n \in G
  <2>1. n \in 1..(m + 1) /\ n \in 0..m /\ t[n - 1] = r[n - 1] /\ more[n] = queue[n]
    BY <1>1, <1>5
  <2> QED
    BY <2>1, <1>2, <1>3
<1>6. m \in G
  <2> HIDE DEF G
  <2> QED
    BY <1>1, <1>4, <1>5, PrefixInduction
<1>7. m + 1 \in 1..(m + 1) /\ (m + 1) - 1 = m /\ m \in 0..m
  BY <1>1
<1>8. t[m + 1] = r[m] \/ t[m + 1] = Append(r[m], more[m + 1])
  <2>1. t[m + 1] = IF more[m + 1] \in reached THEN t[m] ELSE Append(t[m], more[m + 1])
    BY <1>3, <1>7
  <2> QED
    BY <2>1, <1>6
<1>9. r[m] \in Seq(S) /\ more[m + 1] \in S
  BY <1>1, <1>2, <1>7, ElementOfSeq
<1>10. Len(r[m]) \in Nat /\ Len(Append(r[m], more[m + 1])) = Len(r[m]) + 1
  BY <1>9, AppendProperties, LenProperties
<1> QED
  BY <1>2, <1>3, <1>8, <1>10 DEF more

(***************************************************************************)
(* Where the leases 1..n are.                                              *)
(***************************************************************************)
Whereabouts(l, held, queue, told) ==
    One(held["main"] = l) + One(held["navigation"] = l) + Times(l, queue) + One(l \in told)

\* Each of them is in exactly one place.
LeasesFit(n, held, queue, told) ==
    /\ held \in [Panes -> 0..n] /\ queue \in Seq(1..n) /\ told \subseteq 1..n
    /\ \A l \in 1..n : Whereabouts(l, held, queue, told) = 1

LEMMA OneIsNat == \A b \in BOOLEAN : One(b) \in 0..1
BY DEF One

\* documentChanged: the pane's lease is queued.
LEMMA LeavingFits ==
    ASSUME NEW n \in Nat, LeasesFit(n, leases, releases, released), NEW pane \in Panes
    PROVE  /\ LeasesFit(n, [leases EXCEPT ![pane] = NoLease], Leaving(pane, releases), released)
           /\ Len(Leaving(pane, releases)) = Len(releases) + One(leases[pane] # NoLease)
<1> DEFINE held == [leases EXCEPT ![pane] = NoLease]
           queue == Leaving(pane, releases)
           mine == leases[pane]
<1>1. leases \in [Panes -> 0..n] /\ releases \in Seq(1..n) /\ released \subseteq 1..n
  BY DEF LeasesFit
<1>2. /\ held \in [Panes -> 0..n] /\ held[pane] = 0
      /\ \A p \in Panes : p # pane => held[p] = leases[p]
  BY <1>1 DEF NoLease
<1>3. Panes = {"main", "navigation"}
  BY DEF Panes
<1>4. CASE mine = 0
  <2>1. held = leases /\ queue = releases
    BY <1>1, <1>4 DEF Leaving, NoLease
  <2>2. One(leases[pane] # NoLease) = 0 /\ Len(releases) \in Nat
    BY <1>1, <1>4, LenProperties DEF One, NoLease
  <2> QED
    BY <2>1, <2>2
<1>5. CASE mine # 0
  <2>1. mine \in 1..n
    BY <1>1, <1>5
  <2>2. queue = Append(releases, mine)
    BY <1>5 DEF Leaving, NoLease
  <2> HIDE DEF queue, mine, held
  <2>3. queue \in Seq(1..n) /\ Len(queue) = Len(releases) + 1
    BY <1>1, <2>1, <2>2, AppendProperties
  <2>4. \A l : Times(l, queue) = Times(l, releases) + One(mine = l) /\ Times(l, releases) \in Nat
    BY <1>1, <2>1, <2>2, TimesFacts
  <2>5. ASSUME NEW l \in 1..n PROVE Whereabouts(l, held, queue, released) = 1
    <3>1. Whereabouts(l, leases, releases, released) = 1
      BY DEF LeasesFit
    <3>2. One(held[pane] = l) = 0
      BY <1>2 DEF One
    <3>3. /\ One(held["main"] = l) \in Int /\ One(held["navigation"] = l) \in Int
          /\ One(leases["main"] = l) \in Int /\ One(leases["navigation"] = l) \in Int
          /\ One(mine = l) \in Int /\ One(l \in released) \in Int
      BY DEF One
    <3>4. CASE pane = "main"
      <4>1. One(held["main"] = l) = 0 /\ One(held["navigation"] = l) = One(leases["navigation"] = l)
            /\ One(mine = l) = One(leases["main"] = l)
        BY <3>2, <3>4, <1>2, <1>3 DEF mine
      <4> QED
        BY <4>1, <3>1, <3>3, <2>4 DEF Whereabouts
    <3>5. CASE pane = "navigation"
      <4>1. One(held["navigation"] = l) = 0 /\ One(held["main"] = l) = One(leases["main"] = l)
            /\ One(mine = l) = One(leases["navigation"] = l)
        BY <3>2, <3>5, <1>2, <1>3 DEF mine
      <4> QED
        BY <4>1, <3>1, <3>3, <2>4 DEF Whereabouts
    <3> QED
      BY <3>4, <3>5, <1>3
  <2>6. LeasesFit(n, held, queue, released)
    BY <1>1, <1>2, <2>3, <2>5 DEF LeasesFit
  <2>7. One(leases[pane] # NoLease) = 1
    BY <1>5 DEF One, NoLease, mine
  <2> QED
    BY <2>3, <2>6, <2>7 DEF held, queue
<1> QED
  BY <1>4, <1>5

\* flushReleases: what leaves the queue was told about.
LEMMA FlushFits ==
    ASSUME NEW n \in Nat, NEW held, NEW queue, NEW told, LeasesFit(n, held, queue, told),
           NEW reached
    PROVE  LeasesFit(n, held, Flushed(queue, reached), told \cup (ToSet(queue) \cap reached))
<1> DEFINE rest == Flushed(queue, reached)
           all == told \cup (ToSet(queue) \cap reached)
<1>1. held \in [Panes -> 0..n] /\ queue \in Seq(1..n) /\ told \subseteq 1..n
  BY DEF LeasesFit
<1>2. rest \in Seq(1..n) /\ \A l : Times(l, rest) = IF l \in reached THEN 0 ELSE Times(l, queue)
  BY <1>1, FlushedFacts
<1>3. ToSet(queue) \subseteq 1..n
  BY <1>1, ElementOfSeq, LenProperties DEF ToSet
<1>4. ASSUME NEW l \in 1..n PROVE Whereabouts(l, held, rest, all) = 1
  <2>1. Whereabouts(l, held, queue, told) = 1
    BY DEF LeasesFit
  <2>2. /\ One(held["main"] = l) \in 0..1 /\ One(held["navigation"] = l) \in 0..1
        /\ One(l \in told) \in 0..1 /\ One(l \in all) \in 0..1
    BY DEF One
  <2>3. Times(l, queue) \in Nat /\ (Times(l, queue) = 0 <=> l \notin ToSet(queue))
    BY <1>1, TimesFacts
  <2>4. Times(l, rest) + One(l \in all) = Times(l, queue) + One(l \in told)
    <3>1. CASE l \in ToSet(queue) /\ l \in reached
      <4>1. Times(l, rest) = 0 /\ One(l \in all) = 1
        BY <3>1, <1>2 DEF One
      <4>2. Times(l, queue) + One(l \in told) = 1
        BY <3>1, <2>1, <2>2, <2>3 DEF Whereabouts
      <4> QED
        BY <4>1, <4>2
    <3>2. CASE l \notin ToSet(queue)
      <4>1. Times(l, rest) = Times(l, queue) /\ One(l \in all) = One(l \in told)
        BY <3>2, <1>2, <2>3 DEF One
      <4> QED
        BY <4>1
    <3>3. CASE l \notin reached
      <4>1. Times(l, rest) = Times(l, queue) /\ One(l \in all) = One(l \in told)
        BY <3>3, <1>2 DEF One
      <4> QED
        BY <4>1
    <3> QED
      BY <3>1, <3>2, <3>3
  <2>5. Times(l, rest) \in Nat
    BY <1>2, TimesFacts
  <2> HIDE DEF rest, all
  <2> QED
    BY <2>1, <2>2, <2>3, <2>4, <2>5 DEF Whereabouts
<1> QED
  BY <1>1, <1>2, <1>3, <1>4 DEF LeasesFit

\* A new lease comes to a pane that has none.
LEMMA GrantFits ==
    ASSUME NEW n \in Nat, NEW held, NEW queue, NEW told, LeasesFit(n, held, queue, told),
           NEW pane \in Panes, held[pane] = 0
    PROVE  LeasesFit(n + 1, [held EXCEPT ![pane] = n + 1], queue, told)
<1> DEFINE with == [held EXCEPT ![pane] = n + 1]
<1>1. held \in [Panes -> 0..n] /\ queue \in Seq(1..n) /\ told \subseteq 1..n
  BY DEF LeasesFit
<1>2. 1..n \subseteq 1..(n + 1) /\ 0..n \subseteq 0..(n + 1) /\ n + 1 \in 0..(n + 1)
      /\ n + 1 \notin 0..n /\ n + 1 \notin 1..n
  OBVIOUS
<1>3. /\ with \in [Panes -> 0..(n + 1)] /\ with[pane] = n + 1
      /\ \A p \in Panes : p # pane => with[p] = held[p]
  BY <1>1, <1>2
<1>4. queue \in Seq(1..(n + 1)) /\ told \subseteq 1..(n + 1)
  BY <1>1, <1>2, SeqMonotonic
<1>5. Panes = {"main", "navigation"}
  BY DEF Panes
<1> HIDE DEF with
<1>6. ASSUME NEW l \in 1..(n + 1) PROVE Whereabouts(l, with, queue, told) = 1
  <2>1. CASE l = n + 1
    <3>1. ToSet(queue) \subseteq 1..n
      BY <1>1, ElementOfSeq, LenProperties DEF ToSet
    <3>2. Times(l, queue) = 0 /\ One(l \in told) = 0
      BY <1>1, <1>2, <2>1, <3>1, TimesFacts DEF One
    <3>3. One(with["main"] = l) + One(with["navigation"] = l) = 1
      <4>1. \A p \in Panes : p # pane => with[p] # l
        BY <1>1, <1>2, <1>3, <2>1
      <4> QED
        BY <4>1, <1>3, <1>5, <2>1 DEF One
    <3>4. One(with["main"] = l) \in 0..1 /\ One(with["navigation"] = l) \in 0..1
      BY DEF One
    <3> QED
      BY <3>2, <3>3, <3>4 DEF Whereabouts
  <2>2. CASE l # n + 1
    <3>1. l \in 1..n /\ l # 0
      BY <2>2
    <3>2. Whereabouts(l, held, queue, told) = 1
      BY <3>1 DEF LeasesFit
    <3>3. \A p \in Panes : One(with[p] = l) = One(held[p] = l)
      BY <1>3, <2>2, <3>1 DEF One
    <3> QED
      BY <3>2, <3>3, <1>5 DEF Whereabouts
  <2> QED
    BY <2>1, <2>2
<1> QED
  BY <1>3, <1>4, <1>6 DEF LeasesFit, with

NoLeases == [p \in Panes |-> NoLease]

\* The destructor queues what both panes hold.
LEMMA HeldFits ==
    ASSUME NEW n \in Nat, LeasesFit(n, leases, releases, released)
    PROVE  /\ LeasesFit(n, NoLeases, releases \o Held, released)
           /\ ToSet(releases \o Held) = ToSet(releases) \cup ToSet(Held)
<1> DEFINE S == {leases[p] : p \in Panes} \ {NoLease}
           queue == releases \o Held
<1>1. leases \in [Panes -> 0..n] /\ releases \in Seq(1..n) /\ released \subseteq 1..n
  BY DEF LeasesFit
<1>2. Panes = {"main", "navigation"}
  BY DEF Panes
<1>3. S \subseteq 1..n /\ S = {leases["main"], leases["navigation"]} \ {0}
  BY <1>1, <1>2 DEF NoLease
<1>4. IsFiniteSet(S)
  <2>1. IsFiniteSet(1..n)
    BY FS_Interval
  <2> HIDE DEF S
  <2> QED
    BY <1>3, <2>1, FS_Subset
<1>5. /\ Held \in Seq(S) /\ ToSet(Held) = S /\ \A l : Times(l, Held) = One(l \in S)
  <2> HIDE DEF S
  <2> QED
    BY <1>4, TimesOfSet DEF Held, S
<1> HIDE DEF S
<1>6. Held \in Seq(1..n)
  BY <1>3, <1>5, SeqMonotonic
<1>7. queue \in Seq(1..n) /\ \A l : Times(l, queue) = Times(l, releases) + One(l \in S)
  BY <1>1, <1>5, <1>6, ConcatProperties, TimesOfConcat
<1>8. ToSet(queue) = ToSet(releases) \cup ToSet(Held)
  <2>1. \A l : /\ Times(l, queue) = 0 <=> l \notin ToSet(queue)
               /\ Times(l, releases) = 0 <=> l \notin ToSet(releases)
               /\ Times(l, releases) \in Nat
    BY <1>1, <1>7, TimesFacts
  <2>2. ASSUME NEW l PROVE l \in ToSet(queue) <=> l \in ToSet(releases) \cup S
    <3>1. Times(l, queue) = Times(l, releases) + One(l \in S)
      BY <1>7
    <3>2. One(l \in S) = 0 <=> l \notin S
      BY DEF One
    <3>3. One(l \in S) \in 0..1
      BY DEF One
    <3> QED
      BY <2>1, <3>1, <3>2, <3>3
  <2> QED
    BY <2>2, <1>5
<1> HIDE DEF queue
<1>9. NoLeases \in [Panes -> 0..n] /\ NoLeases["main"] = 0 /\ NoLeases["navigation"] = 0
  BY <1>2 DEF NoLeases, NoLease
<1>10. ASSUME NEW l \in 1..n PROVE Whereabouts(l, NoLeases, queue, released) = 1
  <2>1. Whereabouts(l, leases, releases, released) = 1
    BY DEF LeasesFit
  <2>2. One(NoLeases["main"] = l) = 0 /\ One(NoLeases["navigation"] = l) = 0
    BY <1>9 DEF One
  <2>3. /\ One(leases["main"] = l) \in 0..1 /\ One(leases["navigation"] = l) \in 0..1
        /\ One(l \in released) \in 0..1 /\ Times(l, releases) \in Nat
    BY <1>1, TimesFacts DEF One
  <2>4. One(leases["main"] = l) + One(leases["navigation"] = l) <= 1
    BY <2>1, <2>3 DEF Whereabouts
  <2>5. One(l \in S) = One(leases["main"] = l) + One(leases["navigation"] = l)
    BY <1>3, <2>4 DEF One
  <2> QED
    BY <2>1, <2>2, <2>3, <2>5, <1>7 DEF Whereabouts
<1>11. LeasesFit(n, NoLeases, queue, released)
  BY <1>1, <1>7, <1>9, <1>10 DEF LeasesFit
<1> QED
  BY <1>8, <1>11 DEF queue

(***************************************************************************)
(* The leases.                                                             *)
(***************************************************************************)
leaseVars == <<leases, releases, released, opened, shown, grants>>

Grants == [lease : 1 .. MaxDocuments, document : 1 .. MaxDocuments]

\* How many panes hold a lease.
Holding(held) == One(held["main"] # NoLease) + One(held["navigation"] # NoLease)

\* Leases are granted in order, and a pane's came with what it shows; what
\* waits to be released and what will stays within two of the limit.
LeaseInv ==
    /\ opened \in 0 .. MaxDocuments /\ shown \in [Panes -> 0 .. MaxDocuments]
    /\ grants \in Seq(Grants) /\ Len(grants) <= MaxDocuments
    /\ \A i \in 1 .. Len(grants) : grants[i].lease = i
    /\ LeasesFit(Len(grants), leases, releases, released)
    /\ \A p \in Panes : leases[p] # NoLease => grants[leases[p]].document = shown[p]

Waiting == main # "closed" => Len(releases) + Holding(leases) <= MaxReleases + 2

LEMMA FlushKeepsLeases ==
    ASSUME LeaseInv, NEW reached, Flush(reached), UNCHANGED <<leases, opened, shown, grants>>
    PROVE  LeaseInv' /\ Len(releases') <= Len(releases) /\ Len(releases') \in Nat
                     /\ Len(releases) \in Nat
<1>1. LeasesFit(Len(grants), leases, releases, released) /\ Len(grants) \in Nat
  BY LenProperties DEF LeaseInv
<1>2. releases \in Seq(1..Len(grants))
  BY <1>1 DEF LeasesFit
<1>3. releases' = Flushed(releases, reached) /\ released' = released \cup (ToSet(releases) \cap reached)
  BY DEF Flush
<1>4. LeasesFit(Len(grants), leases, releases', released')
  BY <1>1, <1>3, FlushFits
<1>5. releases' \in Seq(1..Len(grants)) /\ Len(releases') <= Len(releases)
  BY <1>2, <1>3, FlushedFacts
<1>6. Len(releases') \in Nat /\ Len(releases) \in Nat
  BY <1>2, <1>5, LenProperties
<1>7. LeaseInv'
  BY <1>4 DEF LeaseInv
<1> QED
  BY <1>5, <1>6, <1>7

\* open, with the lease the request came with, if any.
LEMMA PresentKeepsLeases ==
    ASSUME LeaseInv, NEW pane \in Panes, NEW reached,
           NEW lease \in {NoLease, 1 + Len(grants)} \cap 0 .. MaxDocuments,
           Present(pane, lease, reached)
    PROVE  /\ LeaseInv'
           /\ leases' = [leases EXCEPT ![pane] = lease]
           /\ releases' = Flushed(Leaving(pane, releases), reached)
<1> DEFINE n == Len(grants)
           held == [leases EXCEPT ![pane] = NoLease]
           queue == Leaving(pane, releases)
           new == [lease |-> lease, document |-> opened + 1]
<1>1. /\ opened < MaxDocuments /\ opened' = opened + 1
      /\ shown' = [shown EXCEPT ![pane] = opened + 1]
      /\ leases' = [leases EXCEPT ![pane] = lease]
      /\ releases' = Flushed(queue, reached)
      /\ released' = released \cup (ToSet(queue) \cap reached)
      /\ grants' = IF lease = NoLease THEN grants ELSE Append(grants, new)
  BY DEF Present, Change
<1>2. /\ opened \in 0 .. MaxDocuments /\ shown \in [Panes -> 0 .. MaxDocuments]
      /\ grants \in Seq(Grants) /\ n <= MaxDocuments
      /\ \A i \in 1 .. n : grants[i].lease = i
      /\ LeasesFit(n, leases, releases, released) /\ n \in Nat
      /\ leases \in [Panes -> 0..n]
      /\ \A p \in Panes : leases[p] # NoLease => grants[leases[p]].document = shown[p]
  BY LenProperties DEF LeaseInv, LeasesFit
<1>3. opened + 1 \in 1 .. MaxDocuments /\ opened' \in 0 .. MaxDocuments
      /\ shown' \in [Panes -> 0 .. MaxDocuments]
  BY <1>1, <1>2, DeliveryAssumption
<1>4. LeasesFit(n, held, queue, released)
  BY <1>2, LeavingFits
<1>5. held[pane] = 0 /\ leases' = [held EXCEPT ![pane] = lease]
  BY <1>1, <1>2 DEF NoLease
<1>6. LeasesFit(n, held, releases', released')
  <2> HIDE DEF held, queue, n
  <2> QED
    BY <1>1, <1>2, <1>4, FlushFits
<1>7. ASSUME lease = NoLease PROVE LeaseInv'
  <2>1. leases' = held /\ grants' = grants
    BY <1>1, <1>7
  <2>2. \A p \in Panes : leases'[p] # NoLease => leases'[p] = leases[p] /\ p # pane
    BY <1>1, <1>2, <1>7
  <2>3. \A p \in Panes : leases'[p] # NoLease => grants'[leases'[p]].document = shown'[p]
    BY <2>1, <2>2, <1>1, <1>2
  <2>4. LeasesFit(Len(grants'), leases', releases', released')
    BY <2>1, <1>6
  <2> HIDE DEF held
  <2> QED
    BY <2>1, <2>3, <2>4, <1>1, <1>2, <1>3 DEF LeaseInv
<1>8. ASSUME lease # NoLease PROVE LeaseInv'
  <2>1. lease = n + 1 /\ n + 1 \in 1..MaxDocuments
    BY <1>2, <1>8, DeliveryAssumption DEF NoLease
  <2>2. new \in Grants /\ new.lease = n + 1 /\ new.document = opened + 1
    BY <2>1, <1>3 DEF Grants
  <2>3. grants' = Append(grants, new)
    BY <1>1, <1>8
  <2> HIDE DEF new
  <2>4. /\ grants' \in Seq(Grants) /\ Len(grants') = n + 1 /\ grants'[n + 1] = new
        /\ \A i \in 1..n : grants'[i] = grants[i]
    BY <2>2, <2>3, <1>2, AppendProperties
  <2>5. \A i \in 1..(n + 1) : grants'[i].lease = i
    <3>1. \A i \in 1..(n + 1) : i \in 1..n \/ i = n + 1
      BY <1>2
    <3> QED
      BY <3>1, <2>2, <2>4, <1>2
  <2>6. LeasesFit(n + 1, leases', releases', released')
    <3> HIDE DEF held, n
    <3> QED
      BY <2>1, <1>2, <1>5, <1>6, GrantFits
  <2>7. ASSUME NEW p \in Panes, leases'[p] # NoLease
        PROVE  grants'[leases'[p]].document = shown'[p]
    <3>1. CASE p = pane
      BY <3>1, <2>1, <2>2, <2>4, <1>1, <1>2
    <3>2. CASE p # pane
      <4>1. leases'[p] = leases[p] /\ shown'[p] = shown[p] /\ leases[p] \in 1..n
        BY <3>2, <2>7, <1>1, <1>2 DEF NoLease
      <4> QED
        BY <4>1, <2>4, <2>7, <1>2
    <3> QED
      BY <3>1, <3>2
  <2> HIDE DEF n
  <2> QED
    BY <2>1, <2>4, <2>5, <2>6, <2>7, <1>2, <1>3 DEF LeaseInv
<1>9. LeaseInv'
  BY <1>7, <1>8
<1> QED
  BY <1>1, <1>9

\* The queue after a document was opened in a pane: its length grows by the
\* pane's lease, and shrinks by what the broker was told.
LEMMA PresentKeepsWaiting ==
    ASSUME LeaseInv, Waiting, NEW pane \in Panes, NEW reached,
           NEW lease \in {NoLease, 1 + Len(grants)} \cap 0 .. MaxDocuments,
           Present(pane, lease, reached),
           main # "closed",
           lease = NoLease \/ Len(Flushed(releases, reached)) < MaxReleases
    PROVE  Len(releases') + Holding(leases') <= MaxReleases + 2
<1> DEFINE n == Len(grants)
           queue == Leaving(pane, releases)
           mine == One(leases[pane] # NoLease)
<1>1. /\ leases' = [leases EXCEPT ![pane] = lease] /\ releases' = Flushed(queue, reached)
      /\ releases \in Seq(1..n) /\ leases \in [Panes -> 0..n] /\ n \in Nat
  BY PresentKeepsLeases, LenProperties DEF LeaseInv, LeasesFit
<1>2. queue \in Seq(1..n) /\ Len(queue) = Len(releases) + mine
  BY <1>1, LeavingFits DEF LeaseInv, LeasesFit
<1>3. Len(releases') <= Len(queue)
  BY <1>1, <1>2, FlushedFacts
<1>4. releases' \in Seq(1..n) /\ Len(releases') \in Nat /\ Len(releases) \in Nat
  BY <1>1, <1>2, FlushedFacts, LenProperties
<1>5. /\ mine \in 0..1
      /\ One(leases["main"] # NoLease) \in 0..1 /\ One(leases["navigation"] # NoLease) \in 0..1
      /\ One(leases'["main"] # NoLease) \in 0..1 /\ One(leases'["navigation"] # NoLease) \in 0..1
  BY DEF One
<1>6. Panes = {"main", "navigation"}
  BY DEF Panes
<1>7. MaxReleases \in Nat
  BY DeliveryAssumption
<1>8. CASE lease = NoLease
  <2>1. Holding(leases) = Holding(leases') + mine
    <3>1. One(leases'[pane] # NoLease) = 0
      BY <1>1, <1>8 DEF One
    <3>2. \A p \in Panes : p # pane => leases'[p] = leases[p]
      BY <1>1
    <3>3. CASE pane = "main"
      BY <3>1, <3>2, <3>3, <1>5, <1>6 DEF Holding
    <3>4. CASE pane = "navigation"
      BY <3>1, <3>2, <3>4, <1>5, <1>6 DEF Holding
    <3> QED
      BY <3>3, <3>4, <1>6
  <2>2. Len(releases) + Holding(leases) <= MaxReleases + 2
    BY DEF Waiting
  <2>3. Holding(leases') \in Nat
    BY <1>5 DEF Holding
  <2> HIDE DEF mine, n
  <2> QED
    BY <2>1, <2>2, <2>3, <1>2, <1>3, <1>4, <1>5, <1>7
<1>9. CASE lease # NoLease
  <2>1. Len(releases') <= MaxReleases
    <3>1. CASE leases[pane] = NoLease
      <4>1. queue = releases
        BY <3>1 DEF Leaving
      <4> QED
        BY <4>1, <1>1, <1>4, <1>7, <1>9
    <3>2. CASE leases[pane] # NoLease
      <4>1. queue = Append(releases, leases[pane]) /\ leases[pane] \in 1..n
        BY <3>2, <1>1 DEF Leaving, NoLease
      <4> HIDE DEF n, queue
      <4>2. Len(Flushed(queue, reached)) <= Len(Flushed(releases, reached)) + 1
        BY <4>1, <1>1, FlushedOneMore
      <4> QED
        BY <4>2, <1>1, <1>4, <1>7, <1>9, FlushedFacts, LenProperties
    <3> QED
      BY <3>1, <3>2
  <2>2. Holding(leases') <= 2 /\ Holding(leases') \in Nat
    BY <1>5 DEF Holding
  <2> QED
    BY <2>1, <2>2, <1>4, <1>7
<1> QED
  BY <1>8, <1>9

(***************************************************************************)
(* The numbers.                                                            *)
(***************************************************************************)
Keys == Clients \X Panes

SequencesFit ==
    /\ DOMAIN sequences \subseteq Keys
    /\ IsFiniteSet(DOMAIN sequences) /\ Cardinality(DOMAIN sequences) <= MaxKeys
    /\ \A k \in DOMAIN sequences : sequences[k] \in 0 .. MaxSequence

LEMMA StoredTyped ==
    ASSUME SequencesFit, NEW k
    PROVE  Stored(k) \in 0 .. MaxSequence /\ Stored(k) \in Nat
<1>1. Stored(k) \in 0 .. MaxSequence
  BY DeliveryAssumption DEF SequencesFit, Stored
<1> QED
  BY <1>1

\* The endpoint notes a number for a client and pane it has room for.
LEMMA RecordedFits ==
    ASSUME SequencesFit, NEW r \in [client : Clients, sequence : 0 .. MaxSequence, pane : Panes,
                                    lease : Nat],
           ~Limited(r), NEW n \in 0 .. MaxSequence, sequences' = Recorded(Key(r), n)
    PROVE  /\ SequencesFit'
           /\ \A k \in Keys : Stored(k)' = IF k = Key(r) THEN n ELSE Stored(k)
<1> DEFINE key == Key(r)
           D == DOMAIN sequences
<1>1. key \in Keys
  BY DEF Key, Keys
<1>2. sequences' = [j \in D \cup {key} |-> IF j = key THEN n ELSE sequences[j]]
  BY DEF Recorded
<1>3. DOMAIN sequences' = D \cup {key}
  BY <1>2
<1>4. IsFiniteSet(D) /\ Cardinality(D) <= MaxKeys /\ Cardinality(D) \in Nat
  BY FS_CardinalityType DEF SequencesFit
<1>5. key \in D \/ Cardinality(D) < MaxKeys
  BY <1>4, DeliveryAssumption DEF Limited
<1>6. /\ IsFiniteSet(D \cup {key})
      /\ Cardinality(D \cup {key}) = IF key \in D THEN Cardinality(D) ELSE Cardinality(D) + 1
  <2> HIDE DEF D, key
  <2> QED
    BY <1>4, FS_AddElement
<1>7. Cardinality(D \cup {key}) <= MaxKeys
  <2> HIDE DEF D, key
  <2> QED
    BY <1>4, <1>5, <1>6, DeliveryAssumption
<1> HIDE DEF key
<1>8. SequencesFit'
  <2>1. \A k \in DOMAIN sequences' : sequences'[k] \in 0 .. MaxSequence
    BY <1>2, <1>3 DEF SequencesFit
  <2>2. DOMAIN sequences' \subseteq Keys
    BY <1>1, <1>3 DEF SequencesFit
  <2> HIDE DEF D
  <2> QED
    BY <2>1, <2>2, <1>3, <1>6, <1>7 DEF SequencesFit
<1>9. ASSUME NEW k \in Keys PROVE Stored(k)' = IF k = key THEN n ELSE Stored(k)
  <2>1. Stored(k)' = IF k \in DOMAIN sequences' THEN sequences'[k] ELSE 0
    BY DEF Stored
  <2> QED
    BY <2>1, <1>2, <1>3 DEF Stored
<1> QED
  BY <1>8, <1>9 DEF key

Tools == [sequence : 0 .. MaxSequence, state : {"none", "running", "succeeded", "failed"}]

Actings == [newest : [Keys -> 0 .. MaxSequence], inOrder : BOOLEAN]

\* Who asks through the endpoint was not acted on beyond the number noted; the
\* window's own tool, when its results come by its exit, not beyond the last
\* number it was given, and not for the tool that still runs or waits.
Behind(k) ==
    /\ k[1] # Window \/ brokered => acted.newest[k] <= Stored(k)
    /\ k[1] = Window /\ ~brokered =>
          /\ acted.newest[k] <= sequence
          /\ tool.state # "none" => acted.newest[k] < tool.sequence

OrderInv ==
    /\ SequencesFit
    /\ brokered \in BOOLEAN /\ tool \in Tools /\ sequence \in 0 .. MaxSequence
    /\ tool.state # "none" => tool.sequence = sequence
    /\ acted \in Actings /\ acted.inOrder
    /\ \A k \in Keys : Behind(k)

LEMMA ActingFits ==
    ASSUME acted \in Actings, acted.inOrder, NEW client \in Clients, NEW pane \in Panes,
           NEW n \in 0 .. MaxSequence, n > acted.newest[<<client, pane>>]
    PROVE  /\ Acting(client, pane, n) \in Actings /\ Acting(client, pane, n).inOrder
           /\ \A k \in Keys : Acting(client, pane, n).newest[k] =
                                IF k = <<client, pane>> THEN n ELSE acted.newest[k]
<1> DEFINE key == <<client, pane>>
           newest == [acted.newest EXCEPT ![key] = n]
           a == Acting(client, pane, n)
<1>1. key \in Keys
  BY DEF Keys
<1>2. acted.newest \in [Keys -> 0 .. MaxSequence]
  BY DEF Actings
<1>3. newest \in [Keys -> 0 .. MaxSequence] /\ \A k \in Keys : newest[k] = IF k = key THEN n ELSE acted.newest[k]
  BY <1>1, <1>2
<1>4. a = [newest |-> newest, inOrder |-> TRUE]
  BY DEF Acting
<1> HIDE DEF newest, a
<1>5. a \in Actings /\ a.inOrder /\ a.newest = newest
  BY <1>3, <1>4 DEF Actings
<1> QED
  BY <1>3, <1>5 DEF a

\* A step that leaves the tool and what was acted on alone.
LEMMA NothingActed ==
    ASSUME OrderInv, UNCHANGED <<brokered, sequences, tool, sequence, acted>>
    PROVE  OrderInv'
BY DEF OrderInv, SequencesFit, Behind, Stored

LEMMA RequestTyped ==
    ASSUME NEW r \in Requests
    PROVE  /\ r \in [client : Clients, sequence : 0 .. MaxSequence, pane : Panes, lease : Nat]
           /\ r.lease \in {NoLease, 1 + Len(grants)} \cap 0 .. MaxDocuments
           /\ r.client \in Clients /\ r.pane \in Panes /\ r.sequence \in 0 .. MaxSequence
           /\ r.client = Window => brokered
<1>1. r \in [client : Clients, sequence : 0 .. MaxSequence, pane : Panes,
             lease : {NoLease, 1 + Len(grants)} \cap 0 .. MaxDocuments]
      /\ (r.client = Window => brokered)
  BY DEF Requests
<1>2. {NoLease, 1 + Len(grants)} \cap 0 .. MaxDocuments \subseteq Nat
  BY DeliveryAssumption
<1> QED
  BY <1>1, <1>2

LEMMA RefuseKeepsOrder ==
    ASSUME OrderInv, UNCHANGED brokered, NEW r \in Requests, Refuse(r) PROVE OrderInv'
<1>1. UNCHANGED <<tool, sequence, acted>>
  BY DEF Refuse
<1>2. CASE UNCHANGED sequences
  BY <1>1, <1>2, NothingActed
<1>3. CASE ~Limited(r) /\ sequences' = Recorded(Key(r), Stored(Key(r)))
  <2>1. SequencesFit' /\ \A k \in Keys : Stored(k)' = Stored(k)
    BY <1>3, RequestTyped, StoredTyped, RecordedFits DEF OrderInv
  <2> QED
    BY <1>1, <2>1 DEF OrderInv, Behind
<1> QED
  BY <1>2, <1>3 DEF Refuse

LEMMA HandleKeepsOrder ==
    ASSUME OrderInv, UNCHANGED brokered, NEW r \in Requests, NEW reached, NEW readable \in BOOLEAN,
           Handle(r, reached, readable)
    PROVE  OrderInv'
<1> DEFINE key == Key(r)
           new == Acting(r.client, r.pane, r.sequence)
<1>1. /\ ~Limited(r) /\ r.sequence > Stored(key)
      /\ sequences' = Recorded(key, r.sequence)
      /\ acted' = new
      /\ UNCHANGED <<tool, sequence>>
  BY DEF Handle, Consumed
<1>2. /\ r.client \in Clients /\ r.pane \in Panes /\ r.sequence \in 0 .. MaxSequence
      /\ r.client = Window => brokered
  BY RequestTyped
<1>3. key = <<r.client, r.pane>> /\ key \in Keys /\ key[1] = r.client
  BY <1>2 DEF Key, Keys
<1>4. SequencesFit' /\ \A k \in Keys : Stored(k)' = IF k = key THEN r.sequence ELSE Stored(k)
  BY <1>1, <1>2, RequestTyped, RecordedFits DEF OrderInv
<1>5. acted.newest[key] <= Stored(key) /\ acted \in Actings /\ acted.inOrder
  BY <1>2, <1>3 DEF OrderInv, Behind
<1>6. acted.newest[key] \in Nat /\ Stored(key) \in Nat
  <2>1. acted.newest[key] \in 0 .. MaxSequence
    BY <1>3, <1>5 DEF Actings
  <2> QED
    BY <2>1, StoredTyped DEF OrderInv
<1>7. r.sequence > acted.newest[<<r.client, r.pane>>]
  BY <1>1, <1>2, <1>3, <1>5, <1>6
<1>8. /\ new \in Actings /\ new.inOrder
      /\ \A k \in Keys : new.newest[k] = IF k = key THEN r.sequence ELSE acted.newest[k]
  BY <1>2, <1>3, <1>5, <1>7, ActingFits
<1> HIDE DEF new, key
<1>9. ASSUME NEW k \in Keys PROVE Behind(k)'
  <2>1. CASE k = key
    <3>1. acted'.newest[k] = r.sequence /\ Stored(k)' = r.sequence
      BY <1>1, <1>4, <1>8, <2>1
    <3>2. r.sequence <= r.sequence
      BY <1>2
    <3> QED
      BY <1>2, <1>3, <2>1, <3>1, <3>2 DEF Behind
  <2>2. CASE k # key
    <3>1. acted'.newest[k] = acted.newest[k] /\ Stored(k)' = Stored(k)
      BY <1>1, <1>4, <1>8, <2>2
    <3>2. Behind(k)
      BY DEF OrderInv
    <3> QED
      BY <1>1, <3>1, <3>2 DEF Behind
  <2> QED
    BY <2>1, <2>2
<1> QED
  BY <1>1, <1>4, <1>8, <1>9 DEF OrderInv

LEMMA FollowKeepsOrder ==
    ASSUME OrderInv, UNCHANGED brokered, Follow PROVE OrderInv'
<1>1. /\ sequence < MaxSequence /\ sequence' = sequence + 1
      /\ tool' = [sequence |-> sequence + 1, state |-> "running"] \/ tool' = NoTool
      /\ UNCHANGED <<sequences, acted>>
  BY DEF Follow
<1>2. sequence \in 0 .. MaxSequence /\ MaxSequence \in Nat /\ acted \in Actings
  BY DeliveryAssumption DEF OrderInv
<1>3. sequence' \in 0 .. MaxSequence /\ sequence \in Nat /\ 0 \in 0 .. MaxSequence
  BY <1>1, <1>2
<1>4. tool' \in Tools /\ (tool'.state # "none" => tool'.sequence = sequence + 1)
  BY <1>1, <1>3 DEF Tools, NoTool
<1>5. ASSUME NEW k \in Keys PROVE Behind(k)'
  <2>1. Behind(k) /\ acted.newest[k] \in 0 .. MaxSequence
    BY <1>2 DEF OrderInv, Actings
  <2>2. acted.newest[k] \in Nat
    BY <2>1
  <2>3. Stored(k)' = Stored(k)
    BY <1>1 DEF Stored
  <2> QED
    BY <2>1, <2>2, <2>3, <1>1, <1>3, <1>4 DEF Behind
<1> QED
  BY <1>1, <1>3, <1>4, <1>5 DEF OrderInv, SequencesFit

\* The tool ends, or is killed.
LEMMA ToolKeepsOrder ==
    ASSUME OrderInv, UNCHANGED <<brokered, sequences, sequence, acted>>,
           tool' \in Tools, tool'.state # "none" => tool.state # "none" /\ tool'.sequence = tool.sequence
    PROVE  OrderInv'
BY DEF OrderInv, SequencesFit, Behind, Stored

LEMMA ReapKeepsOrder ==
    ASSUME OrderInv, UNCHANGED brokered, NEW pane \in Panes, NEW reached, NEW readable \in BOOLEAN,
           Reap(pane, reached, readable)
    PROVE  OrderInv'
<1> DEFINE acts == tool.state = "succeeded" /\ ~brokered
           new == Acting(Window, pane, tool.sequence)
           key == <<Window, pane>>
<1>1. /\ tool.state \in {"succeeded", "failed"} /\ tool' = NoTool
      /\ acted' = IF acts THEN new ELSE acted
      /\ UNCHANGED <<sequences, sequence>>
  BY DEF Reap
<1>2. tool' \in Tools /\ tool'.state = "none"
  BY <1>1, DeliveryAssumption DEF Tools, NoTool
<1>3. CASE ~acts
  BY <1>1, <1>2, <1>3, ToolKeepsOrder
<1>4. CASE acts
  <2>1. key \in Keys /\ key[1] = Window /\ Window \in Clients
    BY DeliveryAssumption DEF Keys
  <2>2. Behind(key) /\ tool \in Tools /\ tool.sequence = sequence /\ acted \in Actings /\ acted.inOrder
    BY <1>1, <2>1 DEF OrderInv
  <2>3. tool.sequence \in 0 .. MaxSequence /\ acted.newest[key] < tool.sequence
    BY <2>1, <2>2, <1>1, <1>4 DEF Behind, Tools
  <2>4. tool.sequence > acted.newest[key]
    <3>1. acted.newest[key] \in 0 .. MaxSequence
      BY <2>1, <2>2 DEF Actings
    <3> QED
      BY <2>3, <3>1
  <2>5. /\ new \in Actings /\ new.inOrder
        /\ \A k \in Keys : new.newest[k] = IF k = key THEN tool.sequence ELSE acted.newest[k]
    BY <2>1, <2>2, <2>3, <2>4, ActingFits
  <2> HIDE DEF new
  <2>6. ASSUME NEW k \in Keys PROVE Behind(k)'
    <3>1. Behind(k) /\ Stored(k)' = Stored(k)
      BY <1>1 DEF OrderInv, Stored
    <3>2. CASE k = key
      <4>1. acted'.newest[k] = sequence /\ sequence <= sequence
        BY <1>1, <1>4, <2>2, <2>3, <2>5, <3>2
      <4> QED
        BY <4>1, <3>2, <2>1, <1>1, <1>2, <1>4 DEF Behind
    <3>3. CASE k # key
      <4>1. acted'.newest[k] = acted.newest[k]
        BY <1>1, <1>4, <2>5, <3>3
      <4> QED
        BY <4>1, <3>1, <1>1, <1>2 DEF Behind
    <3> QED
      BY <3>2, <3>3
  <2> QED
    BY <1>1, <1>2, <1>4, <2>5, <2>6 DEF OrderInv, SequencesFit
<1> QED
  BY <1>3, <1>4

(***************************************************************************)
(* The invariant, and every step.                                          *)
(***************************************************************************)
DelInv == OrderInv /\ LeaseInv /\ Waiting /\ main \in {"free", "busy", "closed"}

\* A document is opened while the main window is open.
LEMMA PresentKeepsAll ==
    ASSUME LeaseInv, Waiting, main # "closed", NEW pane \in Panes, NEW reached,
           NEW lease \in {NoLease, 1 + Len(grants)} \cap 0 .. MaxDocuments,
           Present(pane, lease, reached),
           lease = NoLease \/ Len(Flushed(releases, reached)) < MaxReleases
    PROVE  LeaseInv' /\ Waiting'
<1>1. LeaseInv'
  BY PresentKeepsLeases
<1>2. Len(releases') + Holding(leases') <= MaxReleases + 2
  BY PresentKeepsWaiting
<1> QED
  BY <1>1, <1>2 DEF Waiting, Holding

LEMMA FlushKeepsAll ==
    ASSUME LeaseInv, Waiting, main # "closed", NEW reached, Flush(reached),
           UNCHANGED <<leases, opened, shown, grants>>
    PROVE  LeaseInv' /\ Waiting'
<1>1. LeaseInv' /\ Len(releases') <= Len(releases) /\ Len(releases') \in Nat /\ Len(releases) \in Nat
  BY FlushKeepsLeases
<1>2. Holding(leases') = Holding(leases) /\ Holding(leases) \in Nat
  <2>1. One(leases["main"] # NoLease) \in 0..1 /\ One(leases["navigation"] # NoLease) \in 0..1
    BY DEF One
  <2> QED
    BY <2>1 DEF Holding
<1>3. Len(releases) + Holding(leases) <= MaxReleases + 2 /\ MaxReleases \in Nat
  BY DeliveryAssumption DEF Waiting
<1>4. Len(releases') + Holding(leases') <= MaxReleases + 2
  BY <1>1, <1>2, <1>3
<1> QED
  BY <1>1, <1>4 DEF Waiting, Holding

LEMMA SameLeases ==
    ASSUME LeaseInv, Waiting, UNCHANGED leaseVars, main # "closed"
    PROVE  LeaseInv' /\ Waiting'
<1>1. UNCHANGED <<leases, releases, released, opened, shown, grants>>
  BY DEF leaseVars
<1>2. LeaseInv'
  BY <1>1 DEF LeaseInv
<1>3. Waiting'
  BY <1>1 DEF Waiting, Holding
<1> QED
  BY <1>2, <1>3

\* Closing queues both leases, tells about them once, and forgets them.
LEMMA DestroyKeepsLeases ==
    ASSUME LeaseInv, NEW reached, Destroy(reached)
    PROVE  LeaseInv' /\ Waiting'
<1> DEFINE n == Len(grants)
           queue == releases \o Held
<1>1. /\ main' = "closed" /\ leases' = NoLeases
      /\ released' = released \cup (reached \cap (ToSet(releases) \cup ToSet(Held)))
      /\ releases' = Flushed(queue, reached)
      /\ UNCHANGED <<opened, shown, grants>>
  BY DEF Destroy, NoLeases
<1>2. LeasesFit(n, leases, releases, released) /\ n \in Nat
  BY LenProperties DEF LeaseInv
<1>3. LeasesFit(n, NoLeases, queue, released) /\ ToSet(queue) = ToSet(releases) \cup ToSet(Held)
  BY <1>2, HeldFits
<1>4. released' = released \cup (ToSet(queue) \cap reached)
  BY <1>1, <1>3
<1>5. LeasesFit(n, leases', releases', released')
  <2> HIDE DEF queue, n
  <2> QED
    BY <1>1, <1>2, <1>3, <1>4, FlushFits
<1>6. \A p \in Panes : leases'[p] = NoLease
  BY <1>1 DEF NoLeases
<1>7. LeaseInv'
  BY <1>1, <1>5, <1>6 DEF LeaseInv
<1>8. Waiting'
  BY <1>1 DEF Waiting
<1> QED
  BY <1>7, <1>8

LEMMA DelInitFits == DelInit => DelInv
<1> SUFFICES ASSUME DelInit PROVE DelInv
  OBVIOUS
<1>1. /\ brokered \in BOOLEAN /\ sequences = <<>> /\ leases = [p \in Panes |-> NoLease]
      /\ releases = <<>> /\ released = {} /\ shown = [p \in Panes |-> 0] /\ main = "free"
      /\ tool = NoTool /\ sequence = 0 /\ opened = 0 /\ grants = <<>>
      /\ acted = [newest |-> [k \in Keys |-> 0], inOrder |-> TRUE]
  BY DEF DelInit, Keys
<1>2. 0 \in 0 .. MaxSequence /\ 0 \in 0 .. MaxDocuments
  BY DeliveryAssumption
<1>3. DOMAIN sequences = {}
  BY <1>1
<1>4. SequencesFit
  BY <1>3, FS_EmptySet, DeliveryAssumption DEF SequencesFit
<1>5. tool \in Tools /\ tool.state = "none"
  BY <1>1, <1>2 DEF Tools, NoTool
<1>6. acted \in Actings /\ acted.inOrder /\ \A k \in Keys : acted.newest[k] = 0
  <2> DEFINE newest == [k \in Keys |-> 0]
  <2>1. newest \in [Keys -> 0 .. MaxSequence] /\ \A k \in Keys : newest[k] = 0
    BY <1>2
  <2> HIDE DEF newest
  <2>2. acted = [newest |-> newest, inOrder |-> TRUE]
    BY <1>1 DEF newest
  <2> QED
    BY <2>1, <2>2 DEF Actings
<1>7. ASSUME NEW k \in Keys PROVE Behind(k)
  BY <1>1, <1>3, <1>5, <1>6 DEF Behind, Stored
<1>8. OrderInv
  BY <1>1, <1>2, <1>4, <1>5, <1>6, <1>7 DEF OrderInv
<1>9. /\ grants \in Seq(Grants) /\ Len(grants) = 0 /\ releases \in Seq(1..0) /\ Len(releases) = 0
  BY <1>1
<1>10. leases \in [Panes -> 0..0] /\ \A p \in Panes : leases[p] = NoLease
  BY <1>1 DEF NoLease
<1>11. LeasesFit(0, leases, releases, released)
  BY <1>1, <1>9, <1>10 DEF LeasesFit
<1>12. LeaseInv
  BY <1>1, <1>2, <1>9, <1>10, <1>11, DeliveryAssumption DEF LeaseInv
<1>13. Waiting
  <2>1. Holding(leases) = 0
    BY <1>10 DEF Holding, One, Panes
  <2> QED
    BY <2>1, <1>9, DeliveryAssumption DEF Waiting
<1> QED
  BY <1>1, <1>8, <1>12, <1>13 DEF DelInv

LEMMA HandleKeepsLeases ==
    ASSUME LeaseInv, Waiting, main # "closed", NEW r \in Requests, NEW reached,
           NEW readable \in BOOLEAN, Handle(r, reached, readable)
    PROVE  LeaseInv' /\ Waiting' /\ UNCHANGED main
<1>1. /\ r.pane \in Panes /\ r.lease \in {NoLease, 1 + Len(grants)} \cap 0 .. MaxDocuments
  BY RequestTyped
<1>2. CASE Admits(r.pane, reached) /\ readable
  <2>1. Present(r.pane, r.lease, reached) /\ UNCHANGED main
    BY <1>2 DEF Handle
  <2>2. Len(Flushed(releases, reached)) < MaxReleases
    BY <1>2 DEF Admits
  <2> QED
    BY <1>1, <2>1, <2>2, PresentKeepsAll
<1>3. CASE ~(Admits(r.pane, reached) /\ readable)
  <2>1. Flush(reached) /\ UNCHANGED <<leases, opened, shown, grants>> /\ UNCHANGED main
    BY <1>3 DEF Handle
  <2> QED
    BY <2>1, FlushKeepsAll
<1> QED
  BY <1>2, <1>3

LEMMA NoLeaseIsFree == NoLease \in {NoLease, 1 + Len(grants)} \cap 0 .. MaxDocuments
BY DeliveryAssumption DEF NoLease

LEMMA ReapKeepsLeases ==
    ASSUME LeaseInv, Waiting, main # "closed", NEW pane \in Panes, NEW reached,
           NEW readable \in BOOLEAN, Reap(pane, reached, readable)
    PROVE  LeaseInv' /\ Waiting' /\ UNCHANGED main
<1>1. CASE Present(pane, NoLease, reached)
  BY <1>1, NoLeaseIsFree, PresentKeepsAll DEF Reap
<1>2. CASE Flush(reached) /\ UNCHANGED <<leases, opened, shown, grants>>
  BY <1>2, FlushKeepsAll DEF Reap
<1> QED
  BY <1>1, <1>2 DEF Reap

\* One step per action.
LEMMA DelStepKeepsInv == DelInv /\ [DelNext]_delVars => DelInv'
<1> SUFFICES ASSUME DelInv, [DelNext]_delVars PROVE DelInv'
  OBVIOUS
<1>1. OrderInv /\ LeaseInv /\ Waiting /\ main \in {"free", "busy", "closed"}
  BY DEF DelInv
<1>2. CASE UNCHANGED delVars
  <2>1. /\ UNCHANGED <<brokered, sequences, tool, sequence, acted>>
        /\ UNCHANGED <<leases, releases, released, opened, shown, grants>> /\ UNCHANGED main
    BY <1>2 DEF delVars
  <2>2. OrderInv'
    BY <2>1, <1>1, NothingActed
  <2>3. LeaseInv' /\ Waiting'
    BY <2>1, <1>1 DEF LeaseInv, Waiting, Holding
  <2> QED
    BY <1>1, <2>1, <2>2, <2>3 DEF DelInv
<1>3. CASE DelNext
  <2> USE <1>1
  <2>1. main # "closed" /\ UNCHANGED brokered
    BY <1>3 DEF DelNext
  <2>2. ASSUME NEW r \in Requests, Refuse(r) PROVE DelInv'
    <3>1. OrderInv'
      BY <2>1, <2>2, RefuseKeepsOrder
    <3>2. LeaseInv' /\ Waiting' /\ UNCHANGED main
      BY <2>1, <2>2, SameLeases DEF Refuse, leaseVars
    <3> QED
      BY <3>1, <3>2 DEF DelInv
  <2>3. ASSUME NEW r \in Requests, NEW reached, NEW readable \in BOOLEAN,
               Handle(r, reached, readable)
        PROVE  DelInv'
    <3>1. OrderInv'
      BY <2>1, <2>3, HandleKeepsOrder
    <3>2. LeaseInv' /\ Waiting' /\ UNCHANGED main
      BY <2>1, <2>3, HandleKeepsLeases
    <3> QED
      BY <3>1, <3>2 DEF DelInv
  <2>4. ASSUME NEW pane \in Panes, NEW reached, ReaderOpens(pane, reached) PROVE DelInv'
    <3>1. /\ Present(pane, NoLease, reached) /\ main' \in {"free", main}
          /\ UNCHANGED <<sequences, tool, sequence, acted>>
      BY <2>4 DEF ReaderOpens
    <3>2. OrderInv'
      BY <2>1, <3>1, NothingActed
    <3>3. LeaseInv' /\ Waiting'
      BY <2>1, <3>1, NoLeaseIsFree, PresentKeepsAll
    <3> QED
      BY <3>1, <3>2, <3>3 DEF DelInv
  <2>5. ASSUME NEW state \in {"free", "busy"}, ReaderTurns(state) PROVE DelInv'
    <3>1. main' = state /\ UNCHANGED <<sequences, tool, sequence, acted>> /\ UNCHANGED leaseVars
      BY <2>5 DEF ReaderTurns, leaseVars
    <3>2. OrderInv'
      BY <2>1, <3>1, NothingActed
    <3>3. LeaseInv' /\ Waiting'
      BY <2>1, <3>1, SameLeases
    <3> QED
      BY <3>1, <3>2, <3>3 DEF DelInv
  <2>6. ASSUME Follow PROVE DelInv'
    <3>1. OrderInv'
      BY <2>1, <2>6, FollowKeepsOrder
    <3>2. LeaseInv' /\ Waiting' /\ UNCHANGED main
      BY <2>1, <2>6, SameLeases DEF Follow, leaseVars
    <3> QED
      BY <3>1, <3>2 DEF DelInv
  <2>7. NoTool \in Tools /\ NoTool.state = "none"
    BY DeliveryAssumption DEF NoTool, Tools
  <2>8. ASSUME TimeOut PROVE DelInv'
    <3>1. OrderInv'
      BY <2>1, <2>7, <2>8, ToolKeepsOrder DEF TimeOut
    <3>2. LeaseInv' /\ Waiting' /\ UNCHANGED main
      BY <2>1, <2>8, SameLeases DEF TimeOut, leaseVars
    <3> QED
      BY <3>1, <3>2 DEF DelInv
  <2>9. ASSUME NEW state \in {"succeeded", "failed"}, ToolEnds(state) PROVE DelInv'
    <3>1. /\ tool \in Tools /\ tool.state = "running" /\ tool' = [tool EXCEPT !.state = state]
          /\ UNCHANGED <<sequences, sequence, acted>>
      BY <2>9 DEF ToolEnds, OrderInv
    <3>2. tool' \in Tools /\ tool'.sequence = tool.sequence
      BY <3>1 DEF Tools
    <3>3. OrderInv'
      BY <2>1, <3>1, <3>2, ToolKeepsOrder
    <3>4. LeaseInv' /\ Waiting' /\ UNCHANGED main
      BY <2>1, <2>9, SameLeases DEF ToolEnds, leaseVars
    <3> QED
      BY <3>3, <3>4 DEF DelInv
  <2>10. ASSUME NEW pane \in Panes, NEW reached, NEW readable \in BOOLEAN,
                Reap(pane, reached, readable)
         PROVE  DelInv'
    <3>1. OrderInv'
      BY <2>1, <2>10, ReapKeepsOrder
    <3>2. LeaseInv' /\ Waiting' /\ UNCHANGED main
      BY <2>1, <2>10, ReapKeepsLeases
    <3> QED
      BY <3>1, <3>2 DEF DelInv
  <2>11. ASSUME NEW reached, Retry(reached) PROVE DelInv'
    <3>1. /\ Flush(reached) /\ UNCHANGED <<leases, opened, shown, grants>>
          /\ UNCHANGED <<sequences, tool, sequence, acted>> /\ UNCHANGED main
      BY <2>11 DEF Retry
    <3>2. OrderInv'
      BY <2>1, <3>1, NothingActed
    <3>3. LeaseInv' /\ Waiting'
      BY <2>1, <3>1, FlushKeepsAll
    <3> QED
      BY <3>1, <3>2, <3>3 DEF DelInv
  <2>12. ASSUME NEW reached, Destroy(reached) PROVE DelInv'
    <3>1. tool' = NoTool /\ main' = "closed" /\ UNCHANGED <<sequences, sequence, acted>>
      BY <2>12 DEF Destroy
    <3>2. OrderInv'
      BY <2>1, <2>7, <3>1, ToolKeepsOrder
    <3>3. LeaseInv' /\ Waiting'
      BY <2>12, DestroyKeepsLeases
    <3> QED
      BY <3>1, <3>2, <3>3 DEF DelInv
  <2> QED
    BY <1>3, <2>2, <2>3, <2>4, <2>5, <2>6, <2>8, <2>9, <2>10, <2>11, <2>12 DEF DelNext
<1> QED
  BY <1>2, <1>3

\* How many panes hold a lease, as a set of panes.
LEMMA PanesHolding ==
    ASSUME NEW held \in [Panes -> Nat], NEW l
    PROVE  /\ Cardinality({p \in Panes : held[p] = l})
                = One(held["main"] = l) + One(held["navigation"] = l)
           /\ Cardinality(Panes) = 2
<1> DEFINE S == {p \in Panes : held[p] = l}
<1>1. Panes = {"main", "navigation"}
  BY DEF Panes
<1>2. /\ Cardinality({}) = 0
      /\ Cardinality({"main"}) = 1 /\ IsFiniteSet({"main"}) /\ Cardinality({"navigation"}) = 1
  BY FS_EmptySet, FS_Singleton
<1>3. Cardinality({"main"} \cup {"navigation"}) = 2
  BY <1>2, FS_AddElement
<1>4. {"main"} \cup {"navigation"} = {"main", "navigation"}
  OBVIOUS
<1>5. S = (IF held["main"] = l THEN {"main"} ELSE {})
          \cup (IF held["navigation"] = l THEN {"navigation"} ELSE {})
  BY <1>1
<1> HIDE DEF S
<1>6. ASSUME held["main"] = l, held["navigation"] = l
      PROVE  Cardinality(S) = One(held["main"] = l) + One(held["navigation"] = l)
  <2>1. S = {"main", "navigation"}
    BY <1>4, <1>5, <1>6
  <2>2. Cardinality(S) = 2
    BY <2>1, <1>3, <1>4
  <2> QED
    BY <2>2, <1>6 DEF One
<1>7. ASSUME held["main"] = l, held["navigation"] # l
      PROVE  Cardinality(S) = One(held["main"] = l) + One(held["navigation"] = l)
  <2>1. S = {"main"}
    BY <1>5, <1>7
  <2> QED
    BY <2>1, <1>2, <1>7 DEF One
<1>8. ASSUME held["main"] # l, held["navigation"] = l
      PROVE  Cardinality(S) = One(held["main"] = l) + One(held["navigation"] = l)
  <2>1. S = {"navigation"}
    BY <1>5, <1>8
  <2> QED
    BY <2>1, <1>2, <1>8 DEF One
<1>9. ASSUME held["main"] # l, held["navigation"] # l
      PROVE  Cardinality(S) = One(held["main"] = l) + One(held["navigation"] = l)
  <2>1. S = {}
    BY <1>5, <1>9
  <2> QED
    BY <2>1, <1>2, <1>9 DEF One
<1>10. Cardinality(S) = One(held["main"] = l) + One(held["navigation"] = l)
  BY <1>6, <1>7, <1>8, <1>9
<1> QED
  BY <1>1, <1>3, <1>4, <1>10 DEF S

LEMMA InvTyped == DelInv => DelTypeOK
<1> SUFFICES ASSUME DelInv PROVE DelTypeOK
  OBVIOUS
<1>1. LeasesFit(Len(grants), leases, releases, released) /\ Len(grants) \in Nat
      /\ Len(grants) <= MaxDocuments /\ grants \in Seq(Grants)
  BY LenProperties DEF DelInv, LeaseInv
<1>2. 1..Len(grants) \subseteq 1..MaxDocuments /\ 0..Len(grants) \subseteq 0..MaxDocuments
  BY <1>1, DeliveryAssumption
<1>3. leases \in [Panes -> 0 .. MaxDocuments] /\ released \subseteq 1 .. MaxDocuments
  BY <1>1, <1>2 DEF LeasesFit
<1>4. releases \in Seq(1 .. MaxDocuments)
  BY <1>1, <1>2, SeqMonotonic DEF LeasesFit
<1>5. /\ DOMAIN sequences \subseteq Clients \X Panes /\ Cardinality(DOMAIN sequences) <= MaxKeys
      /\ \A k \in DOMAIN sequences : sequences[k] \in 0 .. MaxSequence
      /\ sequence \in 0 .. MaxSequence /\ acted.newest \in [Clients \X Panes -> 0 .. MaxSequence]
      /\ tool \in [sequence : 0 .. MaxSequence, state : {"none", "running", "succeeded", "failed"}]
  BY DEF DelInv, OrderInv, SequencesFit, Keys, Tools, Actings
<1>6. /\ main \in {"free", "busy", "closed"} /\ opened \in 0 .. MaxDocuments
      /\ shown \in [Panes -> 0 .. MaxDocuments]
  BY DEF DelInv, LeaseInv
<1> QED
  BY <1>1, <1>3, <1>4, <1>5, <1>6 DEF DelTypeOK, Grants

LEMMA InvAccounts == DelInv => LeasesAccounted
<1> SUFFICES ASSUME DelInv PROVE LeasesAccounted
  OBVIOUS
<1> DEFINE n == Len(grants)
<1>1. /\ LeasesFit(n, leases, releases, released) /\ n \in Nat
      /\ grants \in Seq(Grants) /\ \A i \in 1..n : grants[i].lease = i
      /\ \A p \in Panes : leases[p] # NoLease => grants[leases[p]].document = shown[p]
      /\ Waiting
  BY LenProperties DEF DelInv, LeaseInv
<1>2. leases \in [Panes -> 0..n] /\ releases \in Seq(1..n)
      /\ \A l \in 1..n : Whereabouts(l, leases, releases, released) = 1
  BY <1>1 DEF LeasesFit
<1>3. leases \in [Panes -> Nat]
  BY <1>1, <1>2
<1>4. ToSet(grants) = {grants[i] : i \in 1..n}
  BY <1>1, LenProperties DEF ToSet
<1>5. ASSUME NEW g \in ToSet(grants)
      PROVE  LET l == g.lease IN
             Cardinality({p \in Panes : leases[p] = l}) + Times(l, releases)
               + (IF l \in released THEN 1 ELSE 0) = 1
  <2> DEFINE l == g.lease
  <2>1. l \in 1..n
    BY <1>1, <1>4
  <2> HIDE DEF l
  <2>2. Whereabouts(l, leases, releases, released) = 1
    BY <2>1, <1>2
  <2>3. Cardinality({p \in Panes : leases[p] = l}) = One(leases["main"] = l) + One(leases["navigation"] = l)
    BY ONLY <1>3, PanesHolding
  <2>4. Cardinality({p \in Panes : leases[p] = l}) + Times(l, releases)
          + (IF l \in released THEN 1 ELSE 0) = 1
    BY <2>2, <2>3 DEF Whereabouts, One
  <2> QED
    BY <2>4 DEF l
<1>6. ASSUME NEW p \in Panes, leases[p] # NoLease
      PROVE  \E g \in ToSet(grants) : g.lease = leases[p] /\ g.document = shown[p]
  <2>1. leases[p] \in 1..n
    BY <1>1, <1>2, <1>6 DEF NoLease
  <2>2. grants[leases[p]] \in ToSet(grants) /\ grants[leases[p]].lease = leases[p]
    BY <2>1, <1>1, <1>4
  <2> QED
    BY <2>2, <1>1, <1>6
<1>7. ASSUME main # "closed" PROVE Len(releases) <= MaxReleases + Cardinality(Panes)
  <2>1. Len(releases) + Holding(leases) <= MaxReleases + 2
    BY <1>1, <1>7 DEF Waiting
  <2>2. One(leases["main"] # NoLease) \in 0..1 /\ One(leases["navigation"] # NoLease) \in 0..1
    BY DEF One
  <2>3. Holding(leases) \in Nat
    BY <2>2 DEF Holding
  <2>4. Cardinality(Panes) = 2
    BY <1>3, PanesHolding
  <2>5. Len(releases) \in Nat /\ MaxReleases \in Nat
    BY <1>2, LenProperties, DeliveryAssumption
  <2> QED
    BY <2>1, <2>3, <2>4, <2>5
<1> QED
  BY <1>5, <1>6, <1>7 DEF LeasesAccounted

\* DelInv, from which the rest follows, is inductive: nobody was acted on beyond
\* the number noted for him, and every lease is in one place.
THEOREM DelInvariance == DelSpec => []DelInv
<1>1. DelInit => DelInv
  BY DelInitFits
<1>2. DelInv /\ [DelNext]_delVars => DelInv'
  BY DelStepKeepsInv
<1> QED
  BY <1>1, <1>2, PTL DEF DelSpec

\* DelTypeOK: the numbers, the leases, the queue and the tool stay within
\* their types, and the endpoint within its limit of noted numbers.
THEOREM DelTypeCorrect == DelSpec => []DelTypeOK
<1>1. DelInv => DelTypeOK
  BY InvTyped
<1> QED
  BY <1>1, DelInvariance, PTL

\* DeliveredInOrder: a client's requests for a pane are acted on in the order
\* of their numbers, each at most once, whatever is sent again or overtaken.
THEOREM RequestsInOrder == DelSpec => []DeliveredInOrder
<1>1. DelInv => DeliveredInOrder
  BY DEF DelInv, OrderInv, DeliveredInOrder
<1> QED
  BY <1>1, DelInvariance, PTL

\* LeasesAccounted: every lease a broker granted is with the pane that shows
\* its document, waits to be released, or was told about, in one of these
\* only; and the queue of releases is within two of the limit.
THEOREM LeasesHaveOnePlace == DelSpec => []LeasesAccounted
<1>1. DelInv => LeasesAccounted
  BY InvAccounts
<1> QED
  BY <1>1, DelInvariance, PTL
=============================================================================
