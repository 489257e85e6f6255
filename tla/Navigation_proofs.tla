------------------------- MODULE Navigation_proofs -------------------------
(***************************************************************************)
(* Proofs about the visits and the places in them: the nearest region of a *)
(* frame exists and mapping a height there and back stays on its line; the *)
(* visit under the cursor is the document on display; no place that is     *)
(* kept was read in another document than the one it is kept for; and the  *)
(* two views agree at the reader's place, which only he changes.           *)
(***************************************************************************)
EXTENDS Navigation, SequenceTheorems, WellFoundedInduction, TLAPS

(***************************************************************************)
(* Nearest: a sequence has finitely many regions, so one of them is the    *)
(* first with the least key.                                               *)
(***************************************************************************)
Least1(S, f, i) == i \in S /\ \A j \in S : f[i] <= f[j]

\* Every set of positions has one where f is least: of the shortest prefixes
\* with a set that has none, drop the last position.
LEMMA LeastExists ==
    ASSUME NEW n \in Nat, NEW S \in SUBSET (1..n), S # {}, NEW f \in [S -> Int]
    PROVE  \E i : Least1(S, f, i)
<1> DEFINE Without(k) == {T \in SUBSET S : T # {} /\ T \subseteq 1..k /\ ~\E i : Least1(T, f, i)}
           Bad == {k \in Nat : Without(k) # {}}
           R == {p \in Nat \X Nat : p[1] < p[2]}
<1>1. n \notin Bad => S \notin Without(n)
  OBVIOUS
<1> SUFFICES ASSUME Bad # {} PROVE FALSE
  BY <1>1
<1>2. OpToRel(<, Nat) = R
  BY DEF OpToRel
<1>3. IsWellFoundedOn(R, Nat)
  BY <1>2, NatLessThanWellFounded
<1>4. PICK x \in Bad : \A y \in Bad : ~(<<y, x>> \in R)
  <2>1. Bad \subseteq Nat /\ Bad # {}
    OBVIOUS
  <2> HIDE DEF Bad, R
  <2> QED
    BY <1>3, <2>1, WFMin
<1>5. PICK T \in SUBSET S : T # {} /\ T \subseteq 1..x /\ ~\E i : Least1(T, f, i)
  BY <1>4
<1>6. x \in Nat /\ x # 0
  <2>1. x \in Nat
    BY <1>4
  <2>2. x = 0 => 1..x = {}
    OBVIOUS
  <2> QED
    BY <2>1, <2>2, <1>5
<1>7. x - 1 \in Nat /\ <<x - 1, x>> \in R
  BY <1>6
<1>8. x - 1 \notin Bad
  BY <1>4, <1>7
<1>9. CASE x \notin T
  <2>1. T \subseteq 1..(x - 1)
    BY <1>5, <1>6, <1>9
  <2> QED
    BY <2>1, <1>5, <1>7, <1>8
<1>10. CASE x \in T
  <2> DEFINE U == T \ {x}
  <2>1. U \in SUBSET S /\ U \subseteq 1..(x - 1)
    BY <1>5, <1>6
  <2>2. U # {}
    <3> SUFFICES ASSUME T = {x} PROVE FALSE
      BY <1>10
    <3>1. f[x] \in Int
      BY <1>10
    <3>2. Least1(T, f, x)
      BY <3>1 DEF Least1
    <3> QED
      BY <3>2, <1>5
  <2>3. PICK i : Least1(U, f, i)
    BY <2>1, <2>2, <1>7, <1>8
  <2>4. f[x] \in Int /\ \A j \in T : f[j] \in Int
    BY <1>10
  <2>5. CASE f[i] <= f[x]
    BY <2>3, <2>5, <1>5 DEF Least1
  <2>6. CASE f[x] <= f[i]
    <3>1. \A j \in T : f[x] <= f[j]
      BY <2>3, <2>4, <2>6 DEF Least1
    <3> QED
      BY <3>1, <1>10, <1>5 DEF Least1
  <2> QED
    BY <2>3, <2>4, <2>5, <2>6 DEF Least1
<1> QED
  BY <1>9, <1>10

\* The positions where f is least.
Lowest(S, f) == {i \in S : \A j \in S : f[i] <= f[j]}

\* Among finitely many positions some are lowest.
LEMMA LowestExists ==
    ASSUME NEW n \in Nat, NEW S \in SUBSET (1..n), S # {}, NEW f \in [S -> Int]
    PROVE  Lowest(S, f) # {} /\ Lowest(S, f) \in SUBSET (1..n) /\ Lowest(S, f) \subseteq S
BY LeastExists DEF Least1, Lowest

IsNearest(S, key, i) ==
    /\ i \in S
    /\ \A j \in S : ~Precedes(key[j], key[i]) /\ (key[j] = key[i] => i <= j)

\* What Nearest picks is nearest, if anything is.
LEMMA ANearestIsNearest ==
    ASSUME NEW S, NEW key, NEW i, IsNearest(S, key, i)
    PROVE  IsNearest(S, key, Nearest(S, key))
BY DEF IsNearest, Nearest

\* The first by f, then g, then h, then position: one of its kind.
LEMMA NearestByThree ==
    ASSUME NEW n \in Nat, NEW S \in SUBSET (1..n), S # {},
           NEW f \in [S -> Int], NEW g \in [S -> Int], NEW h \in [S -> Int]
    PROVE  IsNearest(S, [i \in S |-> <<f[i], g[i], h[i]>>],
                     Nearest(S, [i \in S |-> <<f[i], g[i], h[i]>>]))
<1> DEFINE key == [i \in S |-> <<f[i], g[i], h[i]>>]
           A == Lowest(S, f)
           ga == [i \in A |-> g[i]]
           B == Lowest(A, ga)
           hb == [i \in B |-> h[i]]
           C == Lowest(B, hb)
           id == [i \in C |-> i]
<1>1. A # {} /\ A \in SUBSET (1..n) /\ A \subseteq S
  BY LowestExists
<1>2. ga \in [A -> Int]
  BY <1>1
<1>3. B # {} /\ B \in SUBSET (1..n) /\ B \subseteq A
  <2> HIDE DEF A, ga
  <2> QED
    BY <1>1, <1>2, LowestExists
<1>4. hb \in [B -> Int]
  BY <1>1, <1>3
<1>5. C # {} /\ C \in SUBSET (1..n) /\ C \subseteq B
  <2> HIDE DEF B, hb
  <2> QED
    BY <1>3, <1>4, LowestExists
<1>6. id \in [C -> Int]
  BY <1>5
<1>7. PICK i : Least1(C, id, i)
  <2> HIDE DEF C, id
  <2> QED
    BY <1>5, <1>6, LeastExists
<1>8. i \in C /\ i \in B /\ i \in A /\ i \in S
  BY <1>1, <1>3, <1>5, <1>7 DEF Least1
<1>9. \A j \in S : f[i] <= f[j]
  BY <1>8 DEF Lowest
<1>10. \A j \in S : f[j] = f[i] => g[i] <= g[j]
  <2> SUFFICES ASSUME NEW j \in S, f[j] = f[i] PROVE g[i] <= g[j]
    OBVIOUS
  <2>1. j \in A
    BY <1>9 DEF Lowest
  <2>2. ga[i] <= ga[j]
    BY <1>8, <2>1 DEF Lowest
  <2> QED
    BY <2>1, <2>2, <1>8
<1>11. \A j \in S : f[j] = f[i] /\ g[j] = g[i] => h[i] <= h[j]
  <2> SUFFICES ASSUME NEW j \in S, f[j] = f[i], g[j] = g[i] PROVE h[i] <= h[j]
    OBVIOUS
  <2>1. j \in A
    BY <1>9 DEF Lowest
  <2>2. j \in B
    <3>1. \A k \in A : ga[j] <= ga[k]
      <4>1. \A k \in A : ga[i] <= ga[k]
        BY <1>8 DEF Lowest
      <4>2. ga[i] = ga[j]
        BY <2>1, <1>8
      <4> QED
        BY <4>1, <4>2
    <3> QED
      BY <2>1, <3>1 DEF Lowest
  <2>3. hb[i] <= hb[j]
    BY <1>8, <2>2 DEF Lowest
  <2> QED
    BY <2>2, <2>3, <1>8
<1>12. \A j \in S : f[j] = f[i] /\ g[j] = g[i] /\ h[j] = h[i] => i <= j
  <2> SUFFICES ASSUME NEW j \in S, f[j] = f[i], g[j] = g[i], h[j] = h[i] PROVE i <= j
    OBVIOUS
  <2>1. j \in A
    BY <1>9 DEF Lowest
  <2>2. j \in B
    <3>1. \A k \in A : ga[j] <= ga[k]
      <4>1. \A k \in A : ga[i] <= ga[k]
        BY <1>8 DEF Lowest
      <4>2. ga[i] = ga[j]
        BY <2>1, <1>8
      <4> QED
        BY <4>1, <4>2
    <3> QED
      BY <2>1, <3>1 DEF Lowest
  <2>3. j \in C
    <3>1. \A k \in B : hb[j] <= hb[k]
      <4>1. \A k \in B : hb[i] <= hb[k]
        BY <1>8 DEF Lowest
      <4>2. hb[i] = hb[j]
        BY <2>2, <1>8
      <4> QED
        BY <4>1, <4>2
    <3> QED
      BY <2>2, <3>1 DEF Lowest
  <2> QED
    BY <2>3, <1>7 DEF Least1
<1>13. IsNearest(S, key, i)
  <2> SUFFICES ASSUME NEW j \in S
               PROVE  ~Precedes(key[j], key[i]) /\ (key[j] = key[i] => i <= j)
    BY <1>8 DEF IsNearest
  <2>1. key[j] = <<f[j], g[j], h[j]>> /\ key[i] = <<f[i], g[i], h[i]>>
    BY <1>8
  <2>2. ~Precedes(<<f[j], g[j], h[j]>>, <<f[i], g[i], h[i]>>)
    <3> SUFFICES ASSUME NEW k \in 1..3,
                        <<f[j], g[j], h[j]>>[k] < <<f[i], g[i], h[i]>>[k],
                        \A m \in 1..(k - 1) : <<f[j], g[j], h[j]>>[m] = <<f[i], g[i], h[i]>>[m]
                 PROVE  FALSE
      BY DEF Precedes
    <3>1. f[j] \in Int /\ g[j] \in Int /\ h[j] \in Int /\ f[i] \in Int /\ g[i] \in Int /\ h[i] \in Int
      BY <1>8
    <3>2. CASE k = 1
      BY <3>1, <3>2, <1>9
    <3>3. CASE k = 2
      <4>1. f[j] = f[i]
        BY <3>3
      <4> QED
        BY <4>1, <3>1, <3>3, <1>10
    <3>4. CASE k = 3
      <4>1. 1 \in 1..(k - 1) /\ 2 \in 1..(k - 1)
        BY <3>4
      <4>2. f[j] = f[i] /\ g[j] = g[i]
        BY <4>1
      <4> QED
        BY <4>2, <3>1, <3>4, <1>11
    <3> QED
      BY <3>2, <3>3, <3>4
  <2>3. key[j] = key[i] => i <= j
    BY <2>1, <1>12
  <2> QED
    BY <2>1, <2>2, <2>3
<1>14. IsNearest(S, key, Nearest(S, key))
  <2> HIDE DEF key
  <2> QED
    BY <1>13, ANearestIsNearest
<1> QED
  BY <1>14

\* The first by two keys: a third that is always the same.
LEMMA NearestByTwo ==
    ASSUME NEW n \in Nat, NEW S \in SUBSET (1..n), S # {},
           NEW f \in [S -> Int], NEW g \in [S -> Int]
    PROVE  IsNearest(S, [i \in S |-> <<f[i], g[i]>>],
                     Nearest(S, [i \in S |-> <<f[i], g[i]>>]))
<1> DEFINE h == [i \in S |-> 0]
           three == [i \in S |-> <<f[i], g[i], h[i]>>]
           two == [i \in S |-> <<f[i], g[i]>>]
           i == Nearest(S, three)
<1>1. IsNearest(S, three, i)
  <2>1. h \in [S -> Int]
    OBVIOUS
  <2> HIDE DEF h
  <2> QED
    BY <2>1, NearestByThree
<1>2. i \in S
  BY <1>1 DEF IsNearest
<1>3. ASSUME NEW j \in S
      PROVE  ~Precedes(two[j], two[i]) /\ (two[j] = two[i] => i <= j)
  <2>1. ~Precedes(<<f[j], g[j], 0>>, <<f[i], g[i], 0>>)
    <3>1. ~Precedes(three[j], three[i])
      BY <1>1 DEF IsNearest
    <3> HIDE DEF i
    <3> QED
      BY <3>1, <1>2
  <2>2. f[j] = f[i] /\ g[j] = g[i] => i <= j
    <3>1. three[j] = three[i] => i <= j
      BY <1>1 DEF IsNearest
    <3> HIDE DEF i
    <3> QED
      BY <3>1, <1>2
  <2> HIDE DEF i
  <2>3. ~Precedes(<<f[j], g[j]>>, <<f[i], g[i]>>)
    <3> SUFFICES ASSUME NEW k \in 1..2,
                        <<f[j], g[j]>>[k] < <<f[i], g[i]>>[k],
                        \A m \in 1..(k - 1) : <<f[j], g[j]>>[m] = <<f[i], g[i]>>[m]
                 PROVE  FALSE
      BY DEF Precedes
    <3>1. <<f[j], g[j], 0>>[k] < <<f[i], g[i], 0>>[k]
      OBVIOUS
    <3>2. \A m \in 1..(k - 1) : <<f[j], g[j], 0>>[m] = <<f[i], g[i], 0>>[m]
      OBVIOUS
    <3>3. k \in DOMAIN <<f[j], g[j], 0>>
      OBVIOUS
    <3> QED
      BY <3>1, <3>2, <3>3, <2>1 DEF Precedes
  <2> QED
    BY <1>2, <2>2, <2>3
<1>4. IsNearest(S, two, i)
  BY <1>2, <1>3 DEF IsNearest
<1>5. IsNearest(S, two, Nearest(S, two))
  <2> HIDE DEF two, i
  <2> QED
    BY <1>4, ANearestIsNearest
<1> QED
  BY <1>5

(***************************************************************************)
(* MapAnchor and AnchorAt.                                                 *)
(***************************************************************************)
LEMMA UsableIsRegion ==
    ASSUME NEW regions \in Seq(Region), NEW i \in Usable(regions)
    PROVE  i \in 1..Len(regions) /\ regions[i] \in Region
<1>1. i \in 1..Len(regions)
  BY DEF Usable
<1> QED
  BY <1>1, ElementOfSeq

MapKeys(a, regions) == [i \in Usable(regions) |-> MapKey(a, regions, i)]

\* A byte is mapped to the nearest usable region: the closest, then the
\* shortest.
LEMMA MapsToNearest ==
    ASSUME NEW regions \in Seq(Region), NEW a, a.byte \in Nat, Usable(regions) # {}
    PROVE  IsNearest(Usable(regions), MapKeys(a, regions),
                     Nearest(Usable(regions), MapKeys(a, regions)))
<1> DEFINE S == Usable(regions)
           f == [i \in S |-> Outside(a.byte, regions[i].begin, regions[i].end)]
           g == [i \in S |-> regions[i].end - regions[i].begin]
<1>1. S \in SUBSET (1..Len(regions)) /\ Len(regions) \in Nat
  BY DEF Usable
<1>2. \A i \in S : regions[i].begin \in Nat /\ regions[i].end \in Nat
  BY <1>1, UsableIsRegion DEF Region
<1>3. f \in [S -> Int] /\ g \in [S -> Int]
  BY <1>2 DEF Outside
<1>4. MapKeys(a, regions) = [i \in S |-> <<f[i], g[i]>>]
  BY DEF MapKeys, MapKey
<1>5. S # {}
  OBVIOUS
<1> HIDE DEF f, g, S
<1>6. IsNearest(S, [i \in S |-> <<f[i], g[i]>>], Nearest(S, [i \in S |-> <<f[i], g[i]>>]))
  BY <1>1, <1>3, <1>5, NearestByTwo
<1> QED
  BY <1>4, <1>6 DEF S

HeightKeys(y, regions) ==
    [i \in Usable(regions) |-> <<Outside(y, regions[i].y, regions[i].y + regions[i].height),
                                regions[i].height, regions[i].begin>>]

\* A height is anchored in the nearest usable region.
LEMMA AnchoredAtNearest ==
    ASSUME NEW regions \in Seq(Region), NEW y \in Nat, Usable(regions) # {}
    PROVE  IsNearest(Usable(regions), HeightKeys(y, regions),
                     Nearest(Usable(regions), HeightKeys(y, regions)))
<1> DEFINE S == Usable(regions)
           f == [i \in S |-> Outside(y, regions[i].y, regions[i].y + regions[i].height)]
           g == [i \in S |-> regions[i].height]
           h == [i \in S |-> regions[i].begin]
<1>1. S \in SUBSET (1..Len(regions)) /\ Len(regions) \in Nat
  BY DEF Usable
<1>2. \A i \in S : regions[i].begin \in Nat /\ regions[i].y \in Nat /\ regions[i].height \in Nat
  BY <1>1, UsableIsRegion DEF Region
<1>3. f \in [S -> Int] /\ g \in [S -> Int] /\ h \in [S -> Int]
  BY <1>2 DEF Outside
<1>4. HeightKeys(y, regions) = [i \in S |-> <<f[i], g[i], h[i]>>]
  BY DEF HeightKeys
<1>5. S # {}
  OBVIOUS
<1> HIDE DEF f, g, h, S
<1>6. IsNearest(S, [i \in S |-> <<f[i], g[i], h[i]>>],
                Nearest(S, [i \in S |-> <<f[i], g[i], h[i]>>]))
  BY <1>1, <1>3, <1>5, NearestByThree
<1> QED
  BY <1>4, <1>6 DEF S

\* Hundredths of a height, rounded down.
LEMMA PartOfHeight ==
    ASSUME NEW h \in Nat, NEW f \in 0..99
    PROVE  (f * h) \div 100 \in Nat
<1>1. f * h \in Nat
  OBVIOUS
<1> QED
  BY <1>1

\* Hundredths of a height stay within it.
LEMMA PartIsWithin ==
    ASSUME NEW h \in Nat, NEW f \in 0..99
    PROVE  (f * h) \div 100 \in 0..h
<1> DEFINE p == f * h
<1>1. p \in Nat /\ p <= 99 * h
  OBVIOUS
<1> HIDE DEF p
<1>2. p \div 100 \in Nat /\ 100 * (p \div 100) <= p
  BY <1>1
<1>3. p \div 100 <= h
  BY <1>1, <1>2
<1> QED
  BY <1>2, <1>3 DEF p

\* A place maps to a height.
LEMMA MapAnchorTyped ==
    ASSUME NEW regions \in Seq(Region), NEW a, a.byte \in Nat, a.fraction \in 0..99
    PROVE  /\ MapAnchor(a, regions).y \in Nat
           /\ MapAnchor(a, regions).quality \in {"exact", "approximate", "unavailable"}
<1>1. CASE Usable(regions) = {}
  BY <1>1 DEF MapAnchor
<1>2. CASE Usable(regions) # {}
  <2> DEFINE near == Nearest(Usable(regions), MapKeys(a, regions))
             r == regions[near]
  <2>1. r \in Region
    BY <1>2, MapsToNearest, UsableIsRegion DEF IsNearest
  <2>2. MapAnchor(a, regions) =
          [y |-> r.y + (a.fraction * r.height) \div 100,
           quality |-> IF Outside(a.byte, r.begin, r.end) = 0 THEN r.quality ELSE "approximate"]
    BY <1>2 DEF MapAnchor, MapKeys
  <2> HIDE DEF r
  <2>3. r.y \in Nat /\ r.height \in Nat /\ r.quality \in {"exact", "approximate", "unavailable"}
    BY <2>1 DEF Region
  <2>4. (a.fraction * r.height) \div 100 \in Nat
    BY <2>3, PartOfHeight
  <2>5. r.y + (a.fraction * r.height) \div 100 \in Nat
    BY <2>3, <2>4
  <2> QED
    BY <2>2, <2>3, <2>5
<1> QED
  BY <1>1, <1>2

\* A height is a place.
LEMMA AnchorAtTyped ==
    ASSUME NEW regions \in Seq(Region), NEW y \in Nat
    PROVE  AnchorAt(y, regions) \in Anchor
<1>1. CASE Usable(regions) = {}
  BY <1>1 DEF AnchorAt, Anchor
<1>2. CASE Usable(regions) # {}
  <2> DEFINE r == regions[Nearest(Usable(regions), HeightKeys(y, regions))]
             part == ((y - r.y) * 100) \div (IF r.height < 1 THEN 1 ELSE r.height)
  <2>1. r \in Region
    BY <1>2, AnchoredAtNearest, UsableIsRegion DEF IsNearest
  <2>2. AnchorAt(y, regions) =
          [byte |-> r.begin, fraction |-> Clamp(part, 0, 99),
           quality |-> IF Outside(y, r.y, r.y + r.height) = 0 THEN r.quality ELSE "approximate"]
    BY <1>2 DEF AnchorAt, RegionAt, HeightKeys
  <2>3. part \in Int
    <3> HIDE DEF r
    <3>1. r.y \in Nat /\ r.height \in Nat
      BY <2>1 DEF Region
    <3> QED
      BY <3>1
  <2> HIDE DEF r, part
  <2>4. Clamp(part, 0, 99) \in 0..99
    BY <2>3 DEF Clamp
  <2>5. r.begin \in Nat /\ r.quality \in {"exact", "approximate", "unavailable"}
    BY <2>1 DEF Region
  <2> QED
    BY <2>2, <2>4, <2>5 DEF Anchor
<1> QED
  BY <1>1, <1>2

\* The arithmetic of a height d below the top of a region h high: taken as
\* hundredths of h and back it loses less than a hundredth of h and a pixel.
LEMMA ThereAndBack ==
    ASSUME NEW h \in Nat, NEW d \in Nat, d < h,
           NEW f \in Int, f = Clamp((d * 100) \div h, 0, 99)
    PROVE  (f * h) \div 100 <= d /\ d - (f * h) \div 100 <= 1 + h \div 100
<1> DEFINE q == (d * 100) \div h
           p == q * h
           b == p \div 100
<1>1. q \in Int /\ d * 100 = (h * q) + ((d * 100) % h) /\ ((d * 100) % h) \in 0..(h - 1)
  OBVIOUS
<1>2. p \in Int /\ p <= d * 100 /\ d * 100 < p + h
  BY <1>1
<1>3. 0 <= q /\ q <= 99
  <2>1. q >= 0
    <3> SUFFICES ASSUME q <= -1 PROVE FALSE
      BY <1>1
    <3>1. q * h <= (-1) * h
      BY <1>1
    <3> QED
      BY <3>1, <1>2
  <2>2. q <= 99
    <3> SUFFICES ASSUME q >= 100 PROVE FALSE
      BY <1>1
    <3>1. q * h >= 100 * h
      BY <1>1
    <3> QED
      BY <3>1, <1>2
  <2> QED
    BY <2>1, <2>2
<1>4. f = q
  BY <1>1, <1>3 DEF Clamp
<1>5. f * h = p
  BY <1>4
<1> HIDE DEF q, p
<1>6. b \in Int /\ 100 * b <= p /\ p < 100 * b + 100
  BY <1>2
<1>7. h \div 100 \in Int /\ 100 * (h \div 100) <= h /\ h < 100 * (h \div 100) + 100
  OBVIOUS
<1>8. b <= d /\ d - b <= 1 + h \div 100
  BY <1>2, <1>6, <1>7
<1> QED
  BY <1>5, <1>8

\* How far a region is from a byte, how long it is, and which of two is mapped to.
Off(a, regions, i) == Outside(a.byte, regions[i].begin, regions[i].end)
Span(regions, i) == regions[i].end - regions[i].begin
Closer(a, regions, i, j) ==
    \/ Off(a, regions, i) < Off(a, regions, j)
    \/ Off(a, regions, i) = Off(a, regions, j) /\ Span(regions, i) < Span(regions, j)

\* A region is at some distance from a byte, and of some length.
LEMMA OffAndSpan ==
    ASSUME NEW regions \in Seq(Region), NEW a, a.byte \in Nat, NEW i \in Usable(regions)
    PROVE  /\ Off(a, regions, i) \in Nat /\ Span(regions, i) \in Int
           /\ MapKeys(a, regions)[i] = <<Off(a, regions, i), Span(regions, i)>>
<1>1. regions[i].begin \in Nat /\ regions[i].end \in Nat
  BY UsableIsRegion DEF Region
<1>2. Off(a, regions, i) \in Nat /\ Span(regions, i) \in Int
  BY <1>1 DEF Off, Span, Outside
<1> QED
  BY <1>2 DEF MapKeys, MapKey, Off, Span

\* The order of pairs, spelled out.
LEMMA PairPrecedes ==
    ASSUME NEW p \in Int, NEW q \in Int, NEW r \in Int, NEW s \in Int
    PROVE  Precedes(<<p, q>>, <<r, s>>) <=> (p < r \/ (p = r /\ q < s))
<1>1. 1..(1 - 1) = {} /\ 1..(2 - 1) = {1} /\ DOMAIN <<p, q>> = {1, 2}
  OBVIOUS
<1> QED
  BY <1>1 DEF Precedes

\* No region is closer to the byte than the one it is mapped to, and of those
\* as close it is the first.
LEMMA NoneIsCloser ==
    ASSUME NEW regions \in Seq(Region), NEW a, a.byte \in Nat, NEW j \in Usable(regions)
    PROVE  LET near == Nearest(Usable(regions), MapKeys(a, regions))
           IN /\ near \in Usable(regions)
              /\ ~Closer(a, regions, j, near)
              /\ Closer(a, regions, near, j) \/ near <= j
<1> DEFINE near == Nearest(Usable(regions), MapKeys(a, regions))
<1>1. IsNearest(Usable(regions), MapKeys(a, regions), near)
  BY MapsToNearest
<1>2. near \in Usable(regions)
  BY <1>1 DEF IsNearest
<1> HIDE DEF near
<1>3. /\ Off(a, regions, near) \in Nat /\ Span(regions, near) \in Int
      /\ MapKeys(a, regions)[near] = <<Off(a, regions, near), Span(regions, near)>>
  BY <1>2, OffAndSpan
<1>4. /\ Off(a, regions, j) \in Nat /\ Span(regions, j) \in Int
      /\ MapKeys(a, regions)[j] = <<Off(a, regions, j), Span(regions, j)>>
  BY OffAndSpan
<1>5. ~Precedes(<<Off(a, regions, j), Span(regions, j)>>,
                <<Off(a, regions, near), Span(regions, near)>>)
  BY <1>1, <1>3, <1>4 DEF IsNearest
<1>6. ~Closer(a, regions, j, near)
  BY <1>3, <1>4, <1>5, PairPrecedes DEF Closer
<1>7. CASE Off(a, regions, j) = Off(a, regions, near) /\ Span(regions, j) = Span(regions, near)
  <2>1. MapKeys(a, regions)[j] = MapKeys(a, regions)[near]
    BY <1>3, <1>4, <1>7
  <2> QED
    BY <1>1, <1>2, <1>6, <2>1 DEF IsNearest, near
<1>8. CASE ~(Off(a, regions, j) = Off(a, regions, near) /\ Span(regions, j) = Span(regions, near))
  <2>1. Closer(a, regions, near, j)
    BY <1>3, <1>4, <1>6, <1>8 DEF Closer
  <2> QED
    BY <1>2, <1>6, <2>1 DEF near
<1> QED
  BY <1>7, <1>8

\* A region that is closer than every other, or as close and before it, is
\* the one the byte is mapped to.
LEMMA FirstIsNearest ==
    ASSUME NEW regions \in Seq(Region), NEW a, a.byte \in Nat, NEW here \in Usable(regions),
           \A i \in Usable(regions) \ {here} :
              Closer(a, regions, here, i) \/ (~Closer(a, regions, i, here) /\ here < i)
    PROVE  Nearest(Usable(regions), MapKeys(a, regions)) = here
<1> DEFINE near == Nearest(Usable(regions), MapKeys(a, regions))
<1>1. near \in Usable(regions) /\ ~Closer(a, regions, here, near)
  BY NoneIsCloser
<1>2. Closer(a, regions, near, here) \/ near <= here
  BY NoneIsCloser
<1>3. near \in Int /\ here \in Int
  BY <1>1, UsableIsRegion
<1> HIDE DEF near
<1>4. ~(near # here)
  <2> SUFFICES ASSUME near # here PROVE FALSE
    OBVIOUS
  <2>1. ~Closer(a, regions, near, here) /\ here < near
    BY <1>1
  <2> QED
    BY <1>2, <1>3, <2>1
<1> QED
  BY <1>4 DEF near

(***************************************************************************)
(* AnchorMapper::anchorAt and map, for every frame and height: a view      *)
(* mapped there and back lands in a region as near to the noted byte and   *)
(* as short as the reader's; if that one is the first of the nearest and   *)
(* shortest, the view moves up by no more than a hundredth of it and a     *)
(* pixel. Regions may be nested, begin together or share their source.     *)
(***************************************************************************)
THEOREM ScrolledPlaceComesBack ==
    ASSUME NEW regions \in Seq(Region), NEW y \in Nat
    PROVE  RoundTrip(y, regions)
<1> DEFINE a == AnchorAt(y, regions)
           back == MapAnchor(a, regions)
           here == RegionAt(y, regions)
           first == \A i \in Usable(regions) \ {here} :
                       \/ Closer(a, regions, here, i)
                       \/ ~Closer(a, regions, i, here) /\ here < i
           inside == Outside(y, regions[here].y, regions[here].y + regions[here].height) = 0
           r == regions[here]
           near == Nearest(Usable(regions), MapKeys(a, regions))
<1> SUFFICES ASSUME Usable(regions) # {}
             PROVE  /\ \E i \in Usable(regions) :
                         /\ ~Closer(a, regions, here, i)
                         /\ regions[i].y <= back.y /\ back.y <= regions[i].y + regions[i].height
                    /\ first /\ inside => back.y <= y /\ y - back.y <= 1 + regions[here].height \div 100
  BY DEF RoundTrip, Closer, Off, Span
<1>1. here \in Usable(regions)
  BY AnchoredAtNearest DEF IsNearest, RegionAt, HeightKeys
<1>2. a = [byte |-> r.begin,
           fraction |-> Clamp(((y - r.y) * 100) \div (IF r.height < 1 THEN 1 ELSE r.height), 0, 99),
           quality |-> IF Outside(y, r.y, r.y + r.height) = 0 THEN r.quality ELSE "approximate"]
  BY DEF AnchorAt
<1>3. a \in Anchor
  BY AnchorAtTyped
<1>4. a.byte \in Nat /\ a.fraction \in 0..99
  BY <1>3 DEF Anchor
<1>5. near \in Usable(regions) /\ ~Closer(a, regions, here, near)
  BY <1>1, <1>4, NoneIsCloser
<1>6. back.y = regions[near].y + (a.fraction * regions[near].height) \div 100
  BY DEF MapAnchor, MapKeys
<1>7. a.fraction \in Int
  <2>1. \A f \in 0..99 : f \in Int
    OBVIOUS
  <2> HIDE DEF a
  <2> QED
    BY ONLY <1>4, <2>1
<1> HIDE DEF a, back, here, near
<1>8. \E i \in Usable(regions) :
         /\ ~Closer(a, regions, here, i)
         /\ regions[i].y <= back.y /\ back.y <= regions[i].y + regions[i].height
  <2>1. regions[near] \in Region
    BY <1>5, UsableIsRegion
  <2>2. regions[near].y \in Nat /\ regions[near].height \in Nat
    BY <2>1 DEF Region
  <2>3. (a.fraction * regions[near].height) \div 100 \in 0..regions[near].height
    BY <1>4, <2>2, PartIsWithin
  <2>4. regions[near].y <= back.y /\ back.y <= regions[near].y + regions[near].height
    BY <1>6, <2>2, <2>3
  <2> QED
    BY <1>5, <2>4
<1>9. ASSUME first, inside
      PROVE  back.y <= y /\ y - back.y <= 1 + regions[here].height \div 100
  <2>1. near = here
    BY <1>1, <1>4, <1>9, FirstIsNearest DEF near
  <2>2. r \in Region
    BY <1>1, UsableIsRegion
  <2>3. r.begin \in Nat /\ r.end \in Nat /\ r.y \in Nat /\ r.height \in Nat
    BY <2>2 DEF Region
  <2>4. Outside(y, r.y, r.y + r.height) = 0
    BY <1>9
  <2> DEFINE d == y - r.y
             p == (a.fraction * r.height) \div 100
  <2>5. back.y = r.y + p
    BY <1>6, <2>1
  <2> HIDE DEF r, first, inside
  <2>6. r.y <= y /\ y < r.y + r.height
    BY <2>3, <2>4 DEF Outside
  <2>7. d \in Nat /\ d < r.height /\ ~(r.height < 1)
    BY <2>3, <2>6
  <2>8. a.fraction = Clamp((d * 100) \div r.height, 0, 99)
    BY <1>2, <2>7
  <2>9. p \in Nat
    BY <1>4, <2>3, PartOfHeight
  <2> HIDE DEF d
  <2>10. p <= d /\ d - p <= 1 + r.height \div 100
    BY <1>7, <2>3, <2>7, <2>8, ThereAndBack
  <2> HIDE DEF p
  <2>11. back.y <= y /\ y - back.y = d - p
    BY <2>3, <2>5, <2>9, <2>10 DEF d
  <2> QED
    BY <2>10, <2>11 DEF r
<1> QED
  BY <1>8, <1>9

(***************************************************************************)
(* std::optional.                                                          *)
(***************************************************************************)
LEMMA OptionalFacts ==
    ASSUME NEW S
    PROVE  /\ Nothing \in Optional(S)
           /\ \A x \in S : Just(x) \in Optional(S) /\ Just(x) # Nothing /\ Just(x)[1] = x
           /\ \A o \in Optional(S) : o # Nothing => o[1] \in S
<1>1. Nothing \in Optional(S)
  BY DEF Nothing, Optional
<1>2. ASSUME NEW x \in S
      PROVE  Just(x) \in Optional(S) /\ Just(x) # Nothing /\ Just(x)[1] = x
  <2>1. <<x>> \in Seq(S) /\ Len(<<x>>) = 1 /\ <<x>> # <<>> /\ <<x>>[1] = x
    OBVIOUS
  <2> QED
    BY <2>1 DEF Nothing, Just, Optional
<1>3. ASSUME NEW o \in Optional(S), o # Nothing
      PROVE  o[1] \in S
  <2>1. o \in Seq(S) /\ o # <<>>
    BY <1>3 DEF Optional, Nothing
  <2>2. 1 \in 1..Len(o)
    BY <2>1, EmptySeq
  <2> QED
    BY <2>1, <2>2, ElementOfSeq
<1> QED
  BY <1>1, <1>2, <1>3

(***************************************************************************)
(* What the scroll coordinator keeps for a document: the place last seen   *)
(* belongs to it, a place to be put back is that one, and a frame is one   *)
(* of its text and leaves nothing to be put back.                          *)
(***************************************************************************)
Documents == [path : Paths \cup {Untitled}, document : 0 .. MaxDocument,
              revision : 0 .. MaxRevision, size : Sizes \cup {0}, parsed : BOOLEAN]

Visits == [path : Paths, anchor : Places]

NavRequests == [path : Paths, previous : Places, destination : Places,
             target : Optional(0 .. MaxVisits - 1)]

Scrolls == [expected : Nat \X Nat, awaited : Optional(Frames), frame : Optional(Frames),
            last : Places, pending : Optional(Places), split : BOOLEAN]

Views == [editor : Nat, preview : Nat]

Home(a, path) == a.of \in {path, Untitled}

ScrollFits(s, path, token) ==
    /\ s \in Scrolls
    /\ s.expected = token
    /\ Home(s.last, path)
    /\ s.pending # Nothing => s.pending[1] = s.last
    /\ s.frame # Nothing => s.frame[1].token = token /\ s.pending = Nothing

\* The very top is a place of every file.
LEMMA TopIsAPlace == Top \in Places /\ \A path : Home(Top, path)
BY DEF Top, In, TopAnchor, Places, Home

\* An anchor read in a file is a place of it.
LEMMA InIsAPlace ==
    ASSUME NEW a \in Anchor, NEW path \in Paths \cup {Untitled}
    PROVE  In(a, path) \in Places /\ Home(In(a, path), path)
BY DEF In, Anchor, Places, Home

\* So is a byte asked for in it.
LEMMA ToByteIsAPlace ==
    ASSUME NEW b \in Nat, NEW path \in Paths \cup {Untitled}
    PROVE  ToByte(b, path) \in Places /\ Home(ToByte(b, path), path)
<1>1. [TopAnchor EXCEPT !.byte = b] \in Anchor
  BY DEF TopAnchor, Anchor
<1> QED
  BY <1>1, InIsAPlace DEF ToByte

\* A place cut to the length of the text is still one of its file.
LEMMA WithinIsAPlace ==
    ASSUME NEW a \in Places, NEW size \in Nat, NEW path, Home(a, path)
    PROVE  Within(a, size) \in Places /\ Home(Within(a, size), path)
<1> DEFINE cut == [a EXCEPT !.byte = Least(@, size)]
<1>1. a.byte \in Nat /\ Least(a.byte, size) \in Nat
  BY DEF Places, Least
<1>2. /\ cut.byte \in Nat /\ cut.fraction \in 0 .. 99
      /\ cut.quality \in {"exact", "approximate", "unavailable"}
  BY <1>1 DEF Places
<1>3. a.of \in Paths \cup {Untitled} /\ a.of \in {path, Untitled}
  BY DEF Places, Home
<1> HIDE DEF cut
<1>4. In(cut, a.of) \in Places /\ In(cut, a.of).of \in {a.of, Untitled}
  BY <1>2, <1>3 DEF In, Places
<1>5. Within(a, size) = In(cut, a.of)
  BY DEF Within, cut
<1> QED
  BY <1>3, <1>4, <1>5 DEF Home

\* A view ends up somewhere, wherever it is sent.
LEMMA ViewsStop ==
    ASSUME NEW v \in Views
    PROVE  /\ \A b \in Nat, size \in Sizes \cup {0} : EditorAt(v, b, size) \in Views
           /\ \A y \in Nat, regions \in Layouts : PreviewAt(v, y, regions) \in Views
<1>1. ASSUME NEW b \in Nat, NEW size \in Sizes \cup {0} PROVE EditorAt(v, b, size) \in Views
  <2>1. size \in Nat
    BY NavigationAssumption
  <2>2. Least(b, size) \in 0 .. size
    BY <2>1 DEF Least
  <2>3. TopAt[size][Least(b, size)] \in 0 .. size
    BY <2>2, NavigationAssumption
  <2>4. TopAt[size][Least(b, size)] \in Nat
    BY <2>1, <2>3
  <2> QED
    BY <2>4 DEF EditorAt, Views
<1>2. ASSUME NEW y \in Nat, NEW regions \in Layouts PROVE PreviewAt(v, y, regions) \in Views
  <2>1. LastHeight[regions] \in Nat
    BY NavigationAssumption
  <2>2. Least(y, LastHeight[regions]) \in Nat
    BY <2>1 DEF Least
  <2> QED
    BY <2>2 DEF PreviewAt, Views
<1> QED
  BY <1>1, <1>2

\* While a setter moves a view, its widget's flag is up: the coordinator does
\* not hear of it.
LEMMA SettersAreSilent ==
    ASSUME NEW s, NEW v, NEW up
    PROVE  /\ \A b : SetSourceAnchor(s, v, b, up) = [s |-> s, v |-> EditorAt(v, b, doc.size)]
           /\ \A y : SetViewport(s, v, y, up) = [s |-> s, v |-> PreviewAt(v, y, s.frame[1].regions)]
BY DEF SetSourceAnchor, SetViewport

\* So restoreAnchor, and going to a heading, change the reader's place to the
\* one that was asked for, and nothing else of what the coordinator keeps.
LEMMA RestoredIs ==
    ASSUME NEW s, NEW v, NEW anchor, s.frame # Nothing
    PROVE  LET moved == [s EXCEPT !.last = anchor]
               target == MapAnchor(anchor, s.frame[1].regions)
               there == PreviewAt(v, target.y, moved.frame[1].regions)
           IN Restored(s, v, anchor) =
                IF target.quality = "unavailable" THEN [s |-> moved, v |-> v]
                ELSE [s |-> moved,
                      v |-> IF s.split THEN EditorAt(there, anchor.byte, doc.size) ELSE there]
<1> DEFINE moved == [s EXCEPT !.last = anchor]
           target == MapAnchor(anchor, s.frame[1].regions)
           there == PreviewAt(v, target.y, moved.frame[1].regions)
           shown == SetViewport(moved, v, target.y, {"synchronizing"})
           followed == SetSourceAnchor(shown.s, shown.v, anchor.byte, {"synchronizing"})
<1>1. Restored(s, v, anchor) =
        IF target.quality = "unavailable" THEN [s |-> moved, v |-> v]
        ELSE IF s.split THEN followed ELSE shown
  BY DEF Restored
<1> HIDE DEF moved, target
<1>2. shown = [s |-> moved, v |-> there]
  BY SettersAreSilent
<1> HIDE DEF there
<1>3. followed = [s |-> shown.s, v |-> EditorAt(shown.v, anchor.byte, doc.size)]
  BY SettersAreSilent
<1> HIDE DEF shown, followed
<1>4. followed = [s |-> moved, v |-> EditorAt(there, anchor.byte, doc.size)]
  BY <1>2, <1>3
<1> HIDE DEF followed
<1>5. Restored(s, v, anchor) =
        IF target.quality = "unavailable" THEN [s |-> moved, v |-> v]
        ELSE [s |-> moved,
              v |-> IF s.split THEN EditorAt(there, anchor.byte, doc.size) ELSE there]
  BY <1>1, <1>2, <1>4
<1> QED
  BY <1>5 DEF moved, target, there

\* What going to a heading leaves.
LEMMA JumpedIs ==
    ASSUME NEW s, NEW v, NEW b
    PROVE  LET restored == Restored(s, v, ToByte(b, doc.path))
           IN Jumped(s, v, b) = [s |-> restored.s, v |-> EditorAt(restored.v, b, doc.size)]
BY SettersAreSilent DEF Jumped

\* A text that is edited or replaced leaves no frame, and the place to be put
\* back.
LEMMA InvalidatedFits ==
    ASSUME NEW s, NEW path, NEW token, ScrollFits(s, path, token),
           NEW path2, NEW token2 \in Nat \X Nat, path2 = path \/ token2[1] # token[1]
    PROVE  /\ ScrollFits(Invalidated(s, token2), path2, token2)
           /\ Invalidated(s, token2).frame = Nothing
           /\ Invalidated(s, token2).pending # Nothing
<1> DEFINE other == token2[1] # token[1]
           last == IF other THEN Top ELSE s.last
           pending == IF other THEN Just(Top)
                      ELSE IF s.pending = Nothing THEN Just(s.last) ELSE s.pending
           i == Invalidated(s, token2)
<1>1. s \in Scrolls /\ s.expected = token
  BY DEF ScrollFits
<1>2. i = [s EXCEPT !.awaited = Nothing, !.expected = token2, !.frame = Nothing,
                    !.last = last, !.pending = pending]
  BY <1>1 DEF Invalidated, Scrolls
<1>3. s.last \in Places /\ s.pending \in Optional(Places)
  BY <1>1 DEF Scrolls
<1>4. last \in Places /\ Home(last, path2)
  BY <1>3, TopIsAPlace DEF ScrollFits
<1>5. pending \in Optional(Places) /\ pending # Nothing /\ pending[1] = last
  BY <1>3, TopIsAPlace, OptionalFacts DEF ScrollFits
<1>6. Nothing \in Optional(Frames)
  BY OptionalFacts
<1> HIDE DEF last, pending, i
<1>7. /\ i \in Scrolls /\ i.expected = token2 /\ i.last = last /\ i.pending = pending
      /\ i.frame = Nothing
  BY <1>1, <1>2, <1>4, <1>5, <1>6 DEF Scrolls
<1> QED
  BY <1>4, <1>5, <1>7 DEF ScrollFits, i

\* Asking for a frame disturbs nothing else.
LEMMA AwaitingFits ==
    ASSUME NEW s, NEW path, NEW token, ScrollFits(s, path, token), NEW a \in Optional(Frames)
    PROVE  ScrollFits([s EXCEPT !.awaited = a], path, token)
<1> DEFINE t == [s EXCEPT !.awaited = a]
<1>1. s \in Scrolls
  BY DEF ScrollFits
<1>2. /\ t \in Scrolls /\ t.expected = s.expected /\ t.last = s.last
      /\ t.pending = s.pending /\ t.frame = s.frame
  BY <1>1 DEF Scrolls
<1> HIDE DEF t
<1>3. ScrollFits(t, path, token)
  BY <1>2 DEF ScrollFits
<1> QED
  BY <1>3 DEF t

\* restoreAnchor, with a frame and without.
LEMMA RestoredFits ==
    ASSUME doc.size \in Sizes \cup {0},
           NEW s, NEW path, NEW token, ScrollFits(s, path, token),
           NEW v \in Views, NEW anchor \in Places, Home(anchor, path)
    PROVE  /\ ScrollFits(Restored(s, v, anchor).s, path, token)
           /\ Restored(s, v, anchor).v \in Views
<1> DEFINE moved == [s EXCEPT !.last = anchor]
           held == [moved EXCEPT !.pending = Just(anchor)]
           target == MapAnchor(anchor, s.frame[1].regions)
           there == PreviewAt(v, target.y, moved.frame[1].regions)
           both == EditorAt(there, anchor.byte, doc.size)
           r == Restored(s, v, anchor)
<1>1. s \in Scrolls
  BY DEF ScrollFits
<1>2. /\ moved \in Scrolls /\ moved.expected = s.expected /\ moved.last = anchor
      /\ moved.pending = s.pending /\ moved.frame = s.frame
  BY <1>1 DEF Scrolls
<1>3. Just(anchor) \in Optional(Places) /\ Just(anchor) # Nothing /\ Just(anchor)[1] = anchor
  BY OptionalFacts
<1>4. CASE s.frame = Nothing
  <2>1. r.s = held /\ r.v = v
    BY <1>4 DEF Restored
  <2> HIDE DEF moved, r
  <2>2. /\ held \in Scrolls /\ held.expected = s.expected /\ held.last = anchor
        /\ held.pending = Just(anchor) /\ held.frame = s.frame
    BY <1>2, <1>3 DEF Scrolls
  <2> HIDE DEF held
  <2>3. ScrollFits(held, path, token)
    BY <2>2, <1>3, <1>4 DEF ScrollFits
  <2> QED
    BY <2>1, <2>3 DEF r
<1>5. CASE s.frame # Nothing
  <2>1. r.s = moved /\ r.v \in {v, there, both}
    <3> HIDE DEF moved, target, there, both, r
    <3>1. r = IF target.quality = "unavailable" THEN [s |-> moved, v |-> v]
              ELSE [s |-> moved, v |-> IF s.split THEN both ELSE there]
      BY <1>5, RestoredIs DEF moved, target, there, both, r
    <3> QED
      BY <3>1
  <2>2. s.frame[1] \in Frames
    BY <1>1, <1>5, OptionalFacts DEF Scrolls
  <2>3. s.frame[1].regions \in Layouts /\ s.frame[1].regions \in Seq(Region)
    BY <2>2, NavigationAssumption DEF Frames
  <2>4. anchor.byte \in Nat /\ anchor.fraction \in 0..99
    BY DEF Places
  <2>5. target.y \in Nat
    BY <2>3, <2>4, MapAnchorTyped
  <2>6. there \in Views
    <3> HIDE DEF target, moved
    <3> QED
      BY <1>2, <2>3, <2>5, ViewsStop
  <2>7. both \in Views
    <3> HIDE DEF there
    <3> QED
      BY <2>4, <2>6, ViewsStop
  <2> HIDE DEF moved, r, there, both
  <2>8. ScrollFits(moved, path, token)
    BY <1>2, <1>5 DEF ScrollFits
  <2>9. r.v \in Views
    BY <2>1, <2>6, <2>7
  <2> QED
    BY <2>1, <2>8, <2>9 DEF r
<1> QED
  BY <1>4, <1>5

\* Going to a heading.
LEMMA JumpedFits ==
    ASSUME doc.size \in Sizes \cup {0}, doc.path \in Paths \cup {Untitled},
           NEW s, NEW token, ScrollFits(s, doc.path, token), NEW v \in Views, NEW b \in Nat
    PROVE  /\ ScrollFits(Jumped(s, v, b).s, doc.path, token)
           /\ Jumped(s, v, b).v \in Views
<1> DEFINE r == Restored(s, v, ToByte(b, doc.path))
<1>1. ScrollFits(r.s, doc.path, token) /\ r.v \in Views
  BY ToByteIsAPlace, RestoredFits
<1>2. Jumped(s, v, b) = [s |-> r.s, v |-> EditorAt(r.v, b, doc.size)]
  BY JumpedIs
<1> HIDE DEF r
<1> QED
  BY <1>1, <1>2, ViewsStop

\* A frame is accepted or refused.
LEMMA FramedFits ==
    ASSUME doc.size \in Sizes \cup {0},
           NEW s, NEW path, NEW token, ScrollFits(s, path, token),
           NEW v \in Views, NEW frame \in Frames
    PROVE  /\ ScrollFits(Framed(s, v, frame).s, path, token)
           /\ Framed(s, v, frame).v \in Views
<1> DEFINE shown == [s EXCEPT !.frame = Just(frame), !.pending = Nothing]
           within == PreviewAt(v, v.preview, frame.regions)
           ignored == frame.token # s.expected \/ (s.awaited # Nothing /\ s.awaited # Just(frame))
           f == Framed(s, v, frame)
<1>1. s \in Scrolls /\ s.expected = token
  BY DEF ScrollFits
<1>2. /\ Just(frame) \in Optional(Frames) /\ Just(frame)[1] = frame
      /\ Nothing \in Optional(Places)
  BY OptionalFacts
<1>3. /\ shown \in Scrolls /\ shown.expected = s.expected /\ shown.last = s.last
      /\ shown.pending = Nothing /\ shown.frame = Just(frame)
  BY <1>1, <1>2 DEF Scrolls
<1>4. within \in Views
  BY ViewsStop DEF Views, Frames
<1>5. CASE ignored
  <2>1. f.s = s /\ f.v = v
    BY <1>5 DEF Framed
  <2> QED
    BY <2>1
<1>6. CASE ~ignored
  <2>1. f = IF s.pending = Nothing THEN [s |-> shown, v |-> within]
            ELSE Restored(shown, within, s.pending[1])
    BY <1>6 DEF Framed
  <2>2. frame.token = token
    BY <1>1, <1>6
  <2> HIDE DEF shown, within, f
  <2>3. ScrollFits(shown, path, token)
    BY <1>1, <1>2, <1>3, <2>2 DEF ScrollFits
  <2>4. s.pending # Nothing => s.pending[1] \in Places /\ Home(s.pending[1], path)
    BY <1>1 DEF ScrollFits, Scrolls
  <2>5. CASE s.pending = Nothing
    BY <1>4, <2>1, <2>3, <2>5 DEF f
  <2>6. CASE s.pending # Nothing
    <3>1. f = Restored(shown, within, s.pending[1])
      BY <2>1, <2>6
    <3> QED
      BY <1>4, <3>1, <2>3, <2>4, <2>6, RestoredFits DEF f
  <2> QED
    BY <2>5, <2>6
<1> QED
  BY <1>5, <1>6

(***************************************************************************)
(* HistoryStore::commit.                                                   *)
(***************************************************************************)
\* Visits whose place belongs to their document.
Kept == {v \in Visits : Home(v.anchor, v.path)}

\* The history h with the cursor c while a document is on display.
HistoryFits(h, c, path) ==
    /\ h \in Seq(Kept) /\ Len(h) <= MaxVisits
    /\ c \in Nat
    /\ h # <<>> => c < Len(h) /\ h[c + 1].path = path

\* A visit that can be gone back or forward to.
TargetFits(h, c, path, target) ==
    target # Nothing => target[1] < Len(h) /\ target[1] # c /\ h[target[1] + 1].path = path

\* HistoryStore's commit keeps the history in order: at either end, and with
\* a visit to go back to.
LEMMA CommitFits ==
    ASSUME HistoryFits(visits, cursor, doc.path),
           NEW path \in Paths, NEW previous \in Places, Home(previous, doc.path),
           NEW target \in Optional(0 .. MaxVisits - 1), TargetFits(visits, cursor, path, target),
           Commit(path, previous, target)
    PROVE  HistoryFits(visits', cursor', path) /\ visits' # <<>>
<1> DEFINE noted == IF visits = <<>> THEN visits ELSE [visits EXCEPT ![cursor + 1].anchor = previous]
           k == IF visits = <<>> THEN 0 ELSE cursor + 1
           new == [path |-> path, anchor |-> Top]
           ahead == Append(SubSeq(noted, 1, k), new)
           kept == IF Len(ahead) > MaxVisits THEN Tail(ahead) ELSE ahead
<1>1. visits \in Seq(Kept) /\ Len(visits) <= MaxVisits /\ cursor \in Nat /\ Len(visits) \in Nat
  BY DEF HistoryFits
<1>2. \/ target # Nothing /\ visits' = noted /\ cursor' = target[1]
      \/ target = Nothing /\ visits # <<>> /\ visits[cursor + 1].path = path
           /\ visits' = noted /\ cursor' = cursor
      \/ target = Nothing /\ visits' = kept /\ cursor' = Len(kept) - 1
  BY DEF Commit
<1>3. visits # <<>> => cursor + 1 \in 1..Len(visits) /\ visits[cursor + 1] \in Kept
                       /\ visits[cursor + 1].path = doc.path
  <2>1. visits # <<>> => cursor + 1 \in 1..Len(visits) /\ visits[cursor + 1].path = doc.path
    BY <1>1 DEF HistoryFits
  <2> QED
    BY <2>1, <1>1, ElementOfSeq
<1>4. /\ noted \in Seq(Kept) /\ Len(noted) = Len(visits)
      /\ \A i \in 1..Len(visits) : noted[i].path = visits[i].path
  <2>1. CASE visits = <<>>
    BY <2>1, <1>1
  <2>2. CASE visits # <<>>
    <3> DEFINE here == [visits[cursor + 1] EXCEPT !.anchor = previous]
               with == [visits EXCEPT ![cursor + 1] = here]
    <3>1. here \in Kept /\ here.path = visits[cursor + 1].path
      <4>1. visits[cursor + 1] \in Visits
        BY <2>2, <1>3 DEF Kept
      <4>2. here \in Visits /\ here.anchor = previous /\ here.path = visits[cursor + 1].path
        BY <4>1 DEF Visits
      <4> HIDE DEF here
      <4> QED
        BY <4>2, <2>2, <1>3 DEF Kept
    <3>2. noted = with
      BY <2>2
    <3> HIDE DEF here
    <3>3. with \in Seq(Kept) /\ Len(with) = Len(visits)
      BY <1>1, <1>3, <2>2, <3>1, ExceptSeq
    <3>4. \A i \in 1..Len(visits) : with[i] = IF i = cursor + 1 THEN here ELSE visits[i]
      BY <1>1, <1>3, <2>2
    <3> HIDE DEF with, noted
    <3> QED
      BY <3>1, <3>2, <3>3, <3>4
  <2> QED
    BY <2>1, <2>2
<1>5. k \in Nat /\ k <= Len(visits)
  BY <1>1, <1>3
<1>6. new \in Kept /\ new.path = path
  BY TopIsAPlace DEF Kept, Visits
<1> HIDE DEF noted, new
<1>7. /\ ahead \in Seq(Kept) /\ Len(ahead) = k + 1 /\ ahead[k + 1] = new
  <2> DEFINE front == SubSeq(noted, 1, k)
  <2>1. front \in Seq(Kept) /\ Len(front) = k
    BY <1>4, <1>5, SubSeqProperties
  <2> HIDE DEF front, k
  <2>2. Append(front, new) \in Seq(Kept) /\ Len(Append(front, new)) = Len(front) + 1
        /\ Append(front, new)[Len(front) + 1] = new
    BY <2>1, <1>6, AppendProperties
  <2> QED
    BY <2>1, <2>2 DEF front
<1>8. /\ kept \in Seq(Kept) /\ Len(kept) <= MaxVisits /\ Len(kept) \in Nat \ {0}
      /\ kept[Len(kept)] = new
  <2> HIDE DEF ahead, k
  <2>1. CASE Len(ahead) > MaxVisits
    <3>1. ahead # <<>> /\ kept = Tail(ahead)
      BY <2>1, <1>5, <1>7, NavigationAssumption
    <3>2. /\ Tail(ahead) \in Seq(Kept) /\ Len(Tail(ahead)) = Len(ahead) - 1
          /\ \A i \in 1..Len(Tail(ahead)) : Tail(ahead)[i] = ahead[i + 1]
      BY <3>1, <1>7, HeadTailProperties
    <3>3. Len(Tail(ahead)) = k /\ k >= 1
      BY <3>2, <2>1, <1>5, <1>7, NavigationAssumption
    <3>4. Tail(ahead)[k] = new
      BY <3>2, <3>3, <1>5, <1>7
    <3>5. k <= MaxVisits /\ k \in Nat \ {0}
      BY <3>3, <1>1, <1>5, NavigationAssumption
    <3> HIDE DEF kept
    <3> QED
      BY <3>1, <3>2, <3>3, <3>4, <3>5
  <2>2. CASE ~(Len(ahead) > MaxVisits)
    <3>1. kept = ahead
      BY <2>2
    <3> QED
      BY <3>1, <2>2, <1>5, <1>7, NavigationAssumption
  <2> QED
    BY <2>1, <2>2
<1> HIDE DEF kept, k, ahead
<1>9. CASE target # Nothing
  <2>1. visits' = noted /\ cursor' = target[1]
    BY <1>2, <1>9
  <2>2. target[1] \in 0..MaxVisits - 1 /\ target[1] < Len(visits) /\ visits[target[1] + 1].path = path
    BY <1>9, OptionalFacts DEF TargetFits
  <2>3. target[1] \in Nat /\ target[1] + 1 \in 1..Len(visits)
    BY <2>2, <1>1, NavigationAssumption
  <2>4. noted # <<>>
    BY <2>3, <1>4
  <2> QED
    BY <2>1, <2>2, <2>3, <2>4, <1>1, <1>4 DEF HistoryFits
<1>10. CASE visits' = noted /\ cursor' = cursor /\ visits # <<>> /\ visits[cursor + 1].path = path
  <2>1. noted # <<>>
    BY <1>1, <1>3, <1>4, <1>10
  <2> QED
    BY <2>1, <1>1, <1>3, <1>4, <1>10 DEF HistoryFits
<1>11. CASE visits' = kept /\ cursor' = Len(kept) - 1
  <2>1. kept # <<>>
    BY <1>8
  <2>2. (Len(kept) - 1) + 1 = Len(kept) /\ Len(kept) - 1 \in Nat /\ Len(kept) - 1 < Len(kept)
    BY <1>8
  <2> QED
    BY <2>1, <2>2, <1>6, <1>8, <1>11 DEF HistoryFits
<1> QED
  BY <1>2, <1>9, <1>10, <1>11

(***************************************************************************)
(* The inductive invariant.                                                *)
(***************************************************************************)
\* What a pending request carries: where the reader was, in the document on
\* display; where to go, in the one being opened; and, going back or
\* forward, a visit of that document that is still there.
RequestFits(r) ==
    /\ Home(r.previous, doc.path) /\ Home(r.destination, r.path)
    /\ TargetFits(visits, cursor, r.path, r.target)
    /\ doc.document < MaxDocument

NavInv ==
    /\ doc \in Documents /\ view \in Views
    /\ HistoryFits(visits, cursor, doc.path)
    /\ request \in Optional(NavRequests) /\ (request # Nothing => RequestFits(request[1]))
    /\ ScrollFits(scroll, doc.path, Token)

\* What the session knows of its document is of its type.
LEMMA TokenTyped ==
    ASSUME doc \in Documents
    PROVE  /\ Token \in Nat \X Nat /\ Token[1] = doc.document
           /\ doc.path \in Paths \cup {Untitled} /\ doc.document \in Nat /\ doc.revision \in Nat
           /\ doc.size \in Nat /\ doc.size \in Sizes \cup {0}
<1>1. /\ doc.document \in 0..MaxDocument /\ doc.revision \in 0..MaxRevision
      /\ doc.path \in Paths \cup {Untitled} /\ doc.size \in Sizes \cup {0}
  BY DEF Documents
<1>2. doc.size \in Nat
  <2>1. Sizes \cup {0} \subseteq Nat
    BY NavigationAssumption
  <2> QED
    BY <2>1, <1>1
<1>3. doc.document \in Nat /\ doc.revision \in Nat
  BY <1>1, NavigationAssumption
<1> QED
  BY <1>1, <1>2, <1>3 DEF Token

\* The window starts with an untitled document and no visits.
LEMMA InitFits == NavInit => NavInv
<1> SUFFICES ASSUME NavInit PROVE NavInv
  OBVIOUS
<1>1. doc \in Documents
  BY NavigationAssumption DEF NavInit, Documents
<1>2. view \in Views
  BY DEF NavInit, Views
<1>3. HistoryFits(visits, cursor, doc.path)
  <2>1. visits = <<>> /\ cursor = 0 /\ Len(<<>>) = 0 /\ <<>> \in Seq(Kept)
    BY EmptySeq DEF NavInit
  <2> QED
    BY <2>1, NavigationAssumption DEF HistoryFits
<1>4. request = Nothing /\ Nothing \in Optional(NavRequests)
  BY OptionalFacts DEF NavInit
<1>5. ScrollFits(scroll, doc.path, Token)
  <2>1. /\ Nothing \in Optional(Frames) /\ Nothing \in Optional(Places)
        /\ Top \in Places /\ Home(Top, doc.path)
    BY OptionalFacts, TopIsAPlace
  <2>2. Token = <<0, 0>>
    BY DEF NavInit, Token
  <2>3. scroll = [expected |-> <<0, 0>>, awaited |-> Nothing, frame |-> Nothing,
                  last |-> Top, pending |-> Nothing, split |-> FALSE]
    BY DEF NavInit
  <2>4. scroll \in Scrolls
    BY <2>1, <2>3 DEF Scrolls
  <2> QED
    BY <2>1, <2>2, <2>3, <2>4 DEF ScrollFits
<1> QED
  BY <1>1, <1>2, <1>3, <1>4, <1>5 DEF NavInv

\* A step that only moves the views.
LEMMA OnlyViewsMove ==
    ASSUME NavInv, UNCHANGED <<doc, visits, cursor, request>>,
           ScrollFits(scroll', doc.path, Token), view' \in Views
    PROVE  NavInv'
BY DEF NavInv, RequestFits, HistoryFits, TargetFits, Token

\* relayout: the frame asked for is of the text on display.
LEMMA AskedFits ==
    ASSUME doc \in Documents, NEW s, NEW path, ScrollFits(s, path, Token),
           NEW regions \in Layouts
    PROVE  LET frame == [token |-> Token, regions |-> regions]
               stale == Invalidated(s, Token)
           IN /\ frame \in Frames
              /\ ScrollFits(stale, path, Token)
              /\ ScrollFits([stale EXCEPT !.awaited = Just(frame)], path, Token)
<1> DEFINE frame == [token |-> Token, regions |-> regions]
           stale == Invalidated(s, Token)
<1>1. Token \in Nat \X Nat
  BY TokenTyped
<1>2. frame \in Frames
  BY <1>1 DEF Frames
<1>3. ScrollFits(stale, path, Token)
  BY <1>1, InvalidatedFits
<1>4. Just(frame) \in Optional(Frames)
  BY <1>2, OptionalFacts
<1> HIDE DEF frame, stale
<1>5. ScrollFits([stale EXCEPT !.awaited = Just(frame)], path, Token)
  BY <1>3, <1>4, AwaitingFits
<1> QED
  BY <1>2, <1>3, <1>5 DEF frame, stale

\* relayout, whether a frame was made or not.
LEMMA LaidFits ==
    ASSUME NavInv, NEW regions \in Layouts, NEW made \in BOOLEAN
    PROVE  /\ ScrollFits(Laid(scroll, view, regions, made).s, doc.path, Token)
           /\ Laid(scroll, view, regions, made).v \in Views
<1> DEFINE frame == [token |-> Token, regions |-> regions]
           stale == Invalidated(scroll, Token)
           asked == [stale EXCEPT !.awaited = Just(frame)]
           laid == Laid(scroll, view, regions, made)
<1>1. frame \in Frames /\ ScrollFits(stale, doc.path, Token) /\ ScrollFits(asked, doc.path, Token)
  BY AskedFits DEF NavInv
<1>2. view \in Views
  BY DEF NavInv
<1>3. laid = IF ~doc.parsed THEN [s |-> stale, v |-> view]
             ELSE IF made THEN Framed(asked, view, frame) ELSE [s |-> asked, v |-> view]
  BY DEF Laid
<1> HIDE DEF frame, stale, asked, laid
<1>4. /\ ScrollFits(Framed(asked, view, frame).s, doc.path, Token)
      /\ Framed(asked, view, frame).v \in Views
  BY <1>1, <1>2, TokenTyped, FramedFits DEF NavInv
<1>5. ScrollFits(laid.s, doc.path, Token) /\ laid.v \in Views
  <2>1. CASE ~doc.parsed
    BY <2>1, <1>1, <1>2, <1>3
  <2>2. CASE doc.parsed /\ made
    BY <2>2, <1>3, <1>4
  <2>3. CASE doc.parsed /\ ~made
    BY <2>3, <1>1, <1>2, <1>3
  <2> QED
    BY <2>1, <2>2, <2>3
<1> QED
  BY <1>5 DEF laid

\* The places a running window reads are of the document on display.
LEMMA ReaderIsHome ==
    ASSUME NavInv
    PROVE  /\ scroll \in Scrolls /\ scroll.last \in Places /\ Home(scroll.last, doc.path)
           /\ scroll.frame # Nothing => scroll.frame[1].regions \in Layouts
           /\ scroll.frame # Nothing => scroll.frame[1].regions \in Seq(Region)
<1>1. scroll \in Scrolls /\ Home(scroll.last, doc.path)
  BY DEF NavInv, ScrollFits
<1>2. scroll.last \in Places /\ scroll.frame \in Optional(Frames)
  BY <1>1 DEF Scrolls
<1>3. scroll.frame # Nothing => scroll.frame[1] \in Frames
  BY <1>2, OptionalFacts
<1>4. scroll.frame # Nothing => /\ scroll.frame[1].regions \in Layouts
                               /\ scroll.frame[1].regions \in Seq(Region)
  BY <1>3, NavigationAssumption DEF Frames
<1> QED
  BY <1>1, <1>2, <1>4

\* The reader is now at another place of the same document.
LEMMA SeenFits ==
    ASSUME NEW path, NEW token, ScrollFits(scroll, path, token), scroll.frame # Nothing,
           NEW last \in Places, Home(last, path)
    PROVE  ScrollFits([scroll EXCEPT !.last = last], path, token)
<1> DEFINE t == [scroll EXCEPT !.last = last]
<1>1. scroll \in Scrolls
  BY DEF ScrollFits
<1>2. /\ t \in Scrolls /\ t.expected = scroll.expected /\ t.last = last
      /\ t.pending = scroll.pending /\ t.frame = scroll.frame
  BY <1>1 DEF Scrolls
<1> HIDE DEF t
<1>3. ScrollFits(t, path, token)
  BY <1>2 DEF ScrollFits
<1> QED
  BY <1>3 DEF t

(***************************************************************************)
(* Steps that move the views.                                              *)
(***************************************************************************)
LEMMA ScrollEditorFits ==
    ASSUME NavInv, NEW b \in 0 .. doc.size, ScrollEditor(b) PROVE NavInv'
<1> DEFINE here == ToByte(b, doc.path)
           target == MapAnchor(here, scroll.frame[1].regions)
           moved == [view EXCEPT !.editor = b]
           heard == Heard(scroll, here, {})
           seen == [scroll EXCEPT !.last = here]
           synced == Heeded(scroll, {}) /\ scroll.split /\ target.quality # "unavailable"
           follower == PreviewAt(moved, target.y, heard.frame[1].regions)
<1>1. doc \in Documents /\ view \in Views /\ ScrollFits(scroll, doc.path, Token)
  BY DEF NavInv
<1>2. b \in Nat /\ doc.path \in Paths \cup {Untitled}
  BY <1>1, TokenTyped
<1>3. here \in Places /\ Home(here, doc.path)
  BY <1>2, ToByteIsAPlace
<1>4. moved \in Views
  BY <1>1, <1>2 DEF Views
<1>5. UNCHANGED <<doc, visits, cursor, request>>
  BY DEF ScrollEditor
<1>6. scroll' = heard /\ view' = IF synced THEN follower ELSE moved
  <2> DEFINE to == SetViewport(heard, moved, target.y, {"synchronizing"})
  <2>1. to = [s |-> heard, v |-> follower]
    <3> HIDE DEF heard, moved, target
    <3> QED
      BY SettersAreSilent
  <2>2. Show(IF synced THEN to ELSE [s |-> heard, v |-> moved])
    BY DEF ScrollEditor
  <2> HIDE DEF to, heard, moved, synced, follower
  <2> QED
    BY <2>1, <2>2 DEF Show
<1>7. CASE Heeded(scroll, {})
  <2>1. scroll.frame # Nothing /\ heard = seen
    BY <1>7 DEF Heeded, Heard
  <2> HIDE DEF here
  <2>2. ScrollFits(seen, doc.path, Token)
    BY <1>1, <1>3, <2>1, SeenFits
  <2>3. seen.frame = scroll.frame
    BY ReaderIsHome DEF Scrolls
  <2>4. scroll.frame[1].regions \in Layouts /\ scroll.frame[1].regions \in Seq(Region)
    BY <2>1, ReaderIsHome
  <2>5. target.y \in Nat
    BY <1>3, <2>4, MapAnchorTyped DEF Places
  <2> HIDE DEF target, moved, seen, heard
  <2>6. follower \in Views
    BY <1>4, <2>1, <2>3, <2>4, <2>5, ViewsStop
  <2> HIDE DEF follower, synced
  <2>7. scroll' = seen /\ view' \in Views
    BY <1>4, <1>6, <2>1, <2>6
  <2> QED
    BY <1>5, <2>2, <2>7, OnlyViewsMove
<1>8. CASE ~Heeded(scroll, {})
  <2>1. heard = scroll /\ ~synced
    BY <1>8 DEF Heard
  <2> HIDE DEF heard, moved, synced, follower
  <2>2. scroll' = scroll /\ view' \in Views
    BY <1>4, <1>6, <2>1
  <2> QED
    BY <1>1, <1>5, <2>2, OnlyViewsMove
<1> QED
  BY <1>7, <1>8

\* What the reader's scrolling of the preview leaves.
LEMMA ScrollPreviewIs ==
    ASSUME NEW y, ScrollPreview(y)
    PROVE  LET here == In(AnchorAt(y, scroll.frame[1].regions), doc.path)
               moved == [view EXCEPT !.preview = y]
           IN /\ scroll.frame # Nothing
              /\ scroll' = [scroll EXCEPT !.last = here]
              /\ view' = IF scroll.split /\ here.quality # "unavailable"
                         THEN EditorAt(moved, here.byte, doc.size) ELSE moved
              /\ UNCHANGED <<doc, visits, cursor, request>>
<1> DEFINE here == In(AnchorAt(y, scroll.frame[1].regions), doc.path)
           moved == [view EXCEPT !.preview = y]
           heard == Heard(scroll, here, {})
           synced == scroll.split /\ here.quality # "unavailable"
           to == SetSourceAnchor(heard, moved, here.byte, {"synchronizing"})
<1>1. /\ scroll.frame # Nothing /\ Token = scroll.expected
      /\ Show(IF synced THEN to ELSE [s |-> heard, v |-> moved])
      /\ UNCHANGED <<doc, visits, cursor, request>>
  BY DEF ScrollPreview
<1> HIDE DEF here, moved, synced
<1>2. heard = [scroll EXCEPT !.last = here]
  BY <1>1 DEF Heard, Heeded
<1> HIDE DEF heard
<1>3. to = [s |-> heard, v |-> EditorAt(moved, here.byte, doc.size)]
  BY SettersAreSilent
<1> HIDE DEF to
<1>4. /\ scroll' = [scroll EXCEPT !.last = here]
      /\ view' = IF synced THEN EditorAt(moved, here.byte, doc.size) ELSE moved
  BY <1>1, <1>2, <1>3 DEF Show
<1> QED
  BY <1>1, <1>4 DEF here, moved, synced

\* The reader scrolls the preview.
LEMMA ScrollPreviewFits ==
    ASSUME NavInv, NEW y \in Heights, ScrollPreview(y) PROVE NavInv'
<1> DEFINE a == AnchorAt(y, scroll.frame[1].regions)
           here == In(a, doc.path)
           moved == [view EXCEPT !.preview = y]
           both == EditorAt(moved, here.byte, doc.size)
<1>1. doc \in Documents /\ view \in Views /\ ScrollFits(scroll, doc.path, Token)
  BY DEF NavInv
<1>2. /\ scroll.frame # Nothing
      /\ scroll' = [scroll EXCEPT !.last = here]
      /\ view' \in {both, moved}
      /\ UNCHANGED <<doc, visits, cursor, request>>
  BY ScrollPreviewIs
<1>3. y \in Nat /\ doc.path \in Paths \cup {Untitled} /\ doc.size \in Sizes \cup {0}
  BY <1>1, TokenTyped, NavigationAssumption
<1>4. a \in Anchor
  BY <1>2, <1>3, ReaderIsHome, AnchorAtTyped
<1> HIDE DEF a
<1>5. here \in Places /\ Home(here, doc.path) /\ here.byte \in Nat
  BY <1>3, <1>4, InIsAPlace DEF Places
<1>6. moved \in Views
  BY <1>1, <1>3 DEF Views
<1> HIDE DEF here, moved
<1>7. both \in Views
  BY <1>3, <1>5, <1>6, ViewsStop
<1> HIDE DEF both
<1>8. view' \in Views
  BY <1>2, <1>6, <1>7
<1>9. ScrollFits(scroll', doc.path, Token)
  BY <1>1, <1>2, <1>5, SeenFits
<1> QED
  BY <1>2, <1>8, <1>9, OnlyViewsMove

\* The mode of the window changes.
LEMMA SetSplitFits ==
    ASSUME NavInv, NEW split \in BOOLEAN, SetSplit(split) PROVE NavInv'
<1> DEFINE t == [scroll EXCEPT !.split = split]
<1>1. view \in Views /\ ScrollFits(scroll, doc.path, Token) /\ scroll \in Scrolls
  BY DEF NavInv, ScrollFits
<1>2. /\ t \in Scrolls /\ t.expected = scroll.expected /\ t.last = scroll.last
      /\ t.pending = scroll.pending /\ t.frame = scroll.frame
  BY <1>1 DEF Scrolls
<1>3. scroll' = t /\ UNCHANGED <<doc, visits, cursor, request, view>>
  BY DEF SetSplit
<1> HIDE DEF t
<1>4. ScrollFits(t, doc.path, Token)
  BY <1>1, <1>2 DEF ScrollFits
<1> QED
  BY <1>1, <1>3, <1>4, OnlyViewsMove

\* Another scale, in A4.
LEMMA RescaleFits ==
    ASSUME NavInv, Rescale PROVE NavInv'
<1>1. view \in Views /\ ScrollFits(scroll, doc.path, Token) /\ doc.size \in Sizes \cup {0}
  BY TokenTyped DEF NavInv
<1>2. /\ ScrollFits(Restored(scroll, view, scroll.last).s, doc.path, Token)
      /\ Restored(scroll, view, scroll.last).v \in Views
  BY <1>1, ReaderIsHome, RestoredFits
<1> QED
  BY <1>2, OnlyViewsMove DEF Rescale, Show

\* Another width or profile.
LEMMA RelayoutFits ==
    ASSUME NavInv, NEW regions \in Layouts, NEW made \in BOOLEAN, Relayout(regions, made)
    PROVE  NavInv'
BY LaidFits, OnlyViewsMove DEF Relayout, Show

\* Full-size diagrams, or another scale in Wrap.
LEMMA ReformatFits ==
    ASSUME NavInv, NEW regions \in Layouts, NEW made \in BOOLEAN, Reformat(regions, made)
    PROVE  NavInv'
<1> DEFINE laid == Laid(scroll, view, regions, made)
           back == Restored(laid.s, laid.v, scroll.last)
<1>1. ScrollFits(laid.s, doc.path, Token) /\ laid.v \in Views
  BY LaidFits
<1>2. scroll' = back.s /\ view' = back.v /\ UNCHANGED <<doc, visits, cursor, request>>
  BY DEF Reformat, Show
<1> HIDE DEF laid
<1>3. ScrollFits(back.s, doc.path, Token) /\ back.v \in Views
  BY <1>1, ReaderIsHome, TokenTyped, RestoredFits DEF NavInv
<1> HIDE DEF back
<1> QED
  BY <1>2, <1>3, OnlyViewsMove

\* A heading of the current model is gone to.
LEMMA JumpToFits ==
    ASSUME NavInv, NEW b \in 0 .. doc.size, JumpTo(b) PROVE NavInv'
<1>1. /\ doc \in Documents /\ view \in Views /\ ScrollFits(scroll, doc.path, Token)
  BY DEF NavInv
<1>2. b \in Nat /\ doc.path \in Paths \cup {Untitled} /\ doc.size \in Sizes \cup {0}
  BY <1>1, TokenTyped
<1>3. /\ ScrollFits(Jumped(scroll, view, b).s, doc.path, Token)
      /\ Jumped(scroll, view, b).v \in Views
  BY <1>1, <1>2, JumpedFits
<1> QED
  BY <1>3, OnlyViewsMove DEF JumpTo, Show

(***************************************************************************)
(* Steps of the document.                                                  *)
(***************************************************************************)
\* A heading of the current model, or none.
LEMMA HeadingFacts ==
    ASSUME doc.size \in Nat, NEW heading \in Headings, heading # Nothing
    PROVE  heading[1] \in Nat /\ heading[1] \in 0 .. doc.size /\ heading = Just(heading[1])
BY DEF Headings, Just, Nothing

\* The model of the current text arrives.
LEMMA ParseDoneFits ==
    ASSUME NavInv, NEW regions \in Layouts, NEW made \in BOOLEAN, NEW heading \in Headings,
           ParseDone(regions, made, heading)
    PROVE  NavInv'
<1> DEFINE jumped == Jumped(scroll, view, heading[1])
           there == IF heading = Nothing THEN [s |-> scroll, v |-> view] ELSE jumped
           frame == [token |-> Token, regions |-> regions]
           asked == [Invalidated(there.s, Token) EXCEPT !.awaited = Just(frame)]
           framed == Framed(asked, there.v, frame)
<1>1. doc \in Documents /\ view \in Views /\ ScrollFits(scroll, doc.path, Token)
  BY DEF NavInv
<1>2. doc' \in Documents /\ Token' = Token /\ doc'.path = doc.path /\ doc'.document = doc.document
  <2>1. doc' = [doc EXCEPT !.parsed = TRUE]
    BY DEF ParseDone
  <2> QED
    BY <2>1, <1>1 DEF Documents, Token
<1>3. UNCHANGED <<visits, cursor, request>>
  BY DEF ParseDone
<1>4. Show(IF made THEN framed ELSE [s |-> asked, v |-> there.v])
  BY DEF ParseDone
<1>5. ScrollFits(there.s, doc.path, Token) /\ there.v \in Views
  <2>1. CASE heading = Nothing
    BY <2>1, <1>1
  <2>2. CASE heading # Nothing
    <3>1. heading[1] \in Nat
      BY <1>1, <2>2, HeadingFacts, TokenTyped
    <3>2. ScrollFits(jumped.s, doc.path, Token) /\ jumped.v \in Views
      BY <1>1, <3>1, TokenTyped, JumpedFits
    <3>3. there = jumped
      BY <2>2
    <3> HIDE DEF jumped, there
    <3> QED
      BY <3>2, <3>3
  <2> QED
    BY <2>1, <2>2
<1> HIDE DEF there
<1>6. frame \in Frames /\ ScrollFits(asked, doc.path, Token)
  BY <1>1, <1>5, AskedFits
<1> HIDE DEF frame, asked
<1>7. ScrollFits(framed.s, doc.path, Token) /\ framed.v \in Views
  BY <1>1, <1>5, <1>6, TokenTyped, FramedFits
<1> HIDE DEF framed
<1>8. ScrollFits(scroll', doc'.path, Token') /\ view' \in Views
  BY <1>2, <1>4, <1>5, <1>6, <1>7 DEF Show
<1> QED
  BY <1>2, <1>3, <1>8 DEF NavInv, RequestFits, HistoryFits, TargetFits

\* The text is edited.
LEMMA EditFits ==
    ASSUME NavInv, Edit PROVE NavInv'
<1> DEFINE token == <<doc.document, doc.revision + 1>>
<1>1. doc \in Documents /\ ScrollFits(scroll, doc.path, Token)
  BY DEF NavInv
<1>2. token \in Nat \X Nat
  BY <1>1, TokenTyped
<1>3. /\ doc' \in Documents /\ Token' = token
      /\ doc'.path = doc.path /\ doc'.document = doc.document
  <2>1. doc' = [doc EXCEPT !.revision = @ + 1, !.parsed = FALSE] /\ doc.revision < MaxRevision
    BY DEF Edit
  <2>2. doc.revision + 1 \in 0..MaxRevision
    BY <2>1, <1>1, TokenTyped, NavigationAssumption
  <2> QED
    BY <2>1, <2>2, <1>1 DEF Documents, Token
<1>4. scroll' = Invalidated(scroll, token) /\ UNCHANGED <<visits, cursor, request, view>>
  BY DEF Edit
<1>5. ScrollFits(scroll', doc'.path, Token')
  <2> HIDE DEF token
  <2> QED
    BY <1>1, <1>2, <1>3, <1>4, InvalidatedFits
<1> QED
  BY <1>3, <1>4, <1>5 DEF NavInv, RequestFits, HistoryFits, TargetFits

\* A place of the document on display, and the one it is under another name.
Renamed(a, path) == IF a.of = doc.path THEN [a EXCEPT !.of = path] ELSE a

\* A place of the document is a place of it under its new name.
LEMMA RenamedIsAPlace ==
    ASSUME NEW a \in Places, NEW path \in Paths, Home(a, doc.path)
    PROVE  Renamed(a, path) \in Places /\ Home(Renamed(a, path), path)
<1>1. CASE a.of = doc.path
  <2>1. [a EXCEPT !.of = path] \in Places /\ [a EXCEPT !.of = path].of = path
    BY DEF Places
  <2> QED
    BY <2>1, <1>1 DEF Renamed, Home
<1>2. CASE a.of # doc.path
  BY <1>2 DEF Renamed, Home
<1> QED
  BY <1>1, <1>2

\* The document is saved, under its own name or another.
LEMMA SavedFits ==
    ASSUME NavInv, NEW path \in Paths, Saved(path) PROVE NavInv'
<1> DEFINE stale == Invalidated(scroll, Token)
           here == [visits[cursor + 1] EXCEPT !.path = path, !.anchor = Renamed(@, path)]
           moved == [stale EXCEPT !.last = Renamed(@, path), !.pending = Just(Renamed(@[1], path))]
           noted == [request[1] EXCEPT !.previous = Renamed(@, path)]
<1>1. /\ doc \in Documents /\ view \in Views /\ HistoryFits(visits, cursor, doc.path)
      /\ request \in Optional(NavRequests) /\ (request # Nothing => RequestFits(request[1]))
      /\ ScrollFits(scroll, doc.path, Token)
  BY DEF NavInv
<1>2. /\ doc' = [doc EXCEPT !.path = path]
      /\ visits' = IF visits = <<>> THEN visits ELSE [visits EXCEPT ![cursor + 1] = here]
      /\ scroll' = moved
      /\ request' = IF request = Nothing THEN request ELSE Just(noted)
      /\ UNCHANGED <<cursor, view>>
  <2>1. CASE visits = <<>>
    BY <2>1 DEF Saved, Renamed
  <2>2. CASE visits # <<>>
    <3>1. cursor + 1 \in 1..Len(visits) /\ visits \in Seq(Kept)
      BY <2>2, <1>1 DEF HistoryFits
    <3>2. visits[cursor + 1] \in Kept
      BY <3>1, ElementOfSeq
    <3>3. visits[cursor + 1] \in [path : Paths, anchor : Places]
      BY <3>2 DEF Kept, Visits
    <3>4. [visits EXCEPT ![cursor + 1].path = path,
                         ![cursor + 1].anchor = Renamed(@, path)]
            = [visits EXCEPT ![cursor + 1] = here]
      BY <3>1, <3>3
    <3> QED
      BY <2>2, <3>4 DEF Saved, Renamed
  <2> QED
    BY <2>1, <2>2
<1>3. doc' \in Documents /\ Token' = Token /\ doc'.path = path /\ doc'.document = doc.document
  BY <1>1, <1>2 DEF Documents, Token
<1>4. HistoryFits(visits', cursor', path)
  <2>1. CASE visits = <<>>
    BY <2>1, <1>1, <1>2 DEF HistoryFits
  <2>2. CASE visits # <<>>
    <3>1. /\ cursor + 1 \in 1..Len(visits) /\ visits \in Seq(Kept) /\ Len(visits) <= MaxVisits
          /\ cursor \in Nat /\ cursor < Len(visits) /\ visits[cursor + 1].path = doc.path
      BY <2>2, <1>1 DEF HistoryFits
    <3>2. visits[cursor + 1] \in Kept
      BY <3>1, ElementOfSeq
    <3>3. visits[cursor + 1] \in Visits /\ visits[cursor + 1].anchor \in Places
          /\ Home(visits[cursor + 1].anchor, doc.path)
      BY <3>1, <3>2 DEF Kept, Visits
    <3>4. here.path = path /\ here.anchor = Renamed(visits[cursor + 1].anchor, path) /\ here \in Visits
      BY <3>3, RenamedIsAPlace DEF Visits
    <3>5. here \in Kept
      <4> HIDE DEF here
      <4> QED
        BY <3>3, <3>4, RenamedIsAPlace DEF Kept
    <3> DEFINE with == [visits EXCEPT ![cursor + 1] = here]
    <3> HIDE DEF here
    <3>6. with \in Seq(Kept) /\ Len(with) = Len(visits) /\ with[cursor + 1] = here
      BY <3>1, <3>5, ExceptSeq
    <3>7. visits' = with /\ cursor' = cursor
      BY <1>2, <2>2
    <3> HIDE DEF with
    <3>8. with # <<>>
      BY <3>1, <3>6
    <3> QED
      BY <3>1, <3>4, <3>6, <3>7, <3>8 DEF HistoryFits
  <2> QED
    BY <2>1, <2>2
<1>5. ScrollFits(scroll', path, Token)
  <2>1. ScrollFits(stale, doc.path, Token) /\ stale.frame = Nothing /\ stale.pending # Nothing
    BY <1>1, TokenTyped, InvalidatedFits
  <2> HIDE DEF stale
  <2>2. /\ stale \in Scrolls /\ stale.last \in Places /\ Home(stale.last, doc.path)
        /\ stale.pending[1] = stale.last
    BY <2>1 DEF ScrollFits, Scrolls
  <2>3. Renamed(stale.last, path) \in Places /\ Home(Renamed(stale.last, path), path)
    BY <2>2, RenamedIsAPlace
  <2>4. moved = [stale EXCEPT !.last = Renamed(stale.last, path),
                              !.pending = Just(Renamed(stale.last, path))]
    BY <2>2 DEF Scrolls
  <2> DEFINE r == Renamed(stale.last, path)
  <2>5. Just(r) \in Optional(Places) /\ Just(r) # Nothing /\ Just(r)[1] = r
    BY <2>3, OptionalFacts
  <2> HIDE DEF r
  <2>6. /\ moved \in Scrolls /\ moved.expected = stale.expected /\ moved.last = r
        /\ moved.pending = Just(r) /\ moved.frame = Nothing
    BY <2>1, <2>2, <2>3, <2>4, <2>5 DEF Scrolls, r
  <2> HIDE DEF moved
  <2>7. ScrollFits(moved, path, Token)
    BY <2>1, <2>3, <2>5, <2>6 DEF ScrollFits, r
  <2> QED
    BY <2>7, <1>2
<1>6. /\ request' \in Optional(NavRequests)
      /\ request' # Nothing => RequestFits(request[1])'
  <2>1. CASE request = Nothing
    BY <2>1, <1>1, <1>2
  <2>2. CASE request # Nothing
    <3> DEFINE r == request[1]
    <3>1. r \in NavRequests /\ RequestFits(r)
      BY <1>1, <2>2, OptionalFacts
    <3>2. r.previous \in Places /\ Home(r.previous, doc.path)
      BY <3>1 DEF NavRequests, RequestFits
    <3>3. Renamed(r.previous, path) \in Places /\ Home(Renamed(r.previous, path), path)
      BY <3>2, RenamedIsAPlace
    <3>4. /\ noted \in NavRequests /\ noted.previous = Renamed(r.previous, path)
          /\ noted.path = r.path /\ noted.destination = r.destination /\ noted.target = r.target
      <4> DEFINE previous == Renamed(r.previous, path)
      <4>1. noted = [r EXCEPT !.previous = previous] /\ previous \in Places
        BY <3>1, <3>3 DEF NavRequests
      <4> HIDE DEF previous, r, noted
      <4>2. /\ noted \in NavRequests /\ noted.previous = previous
            /\ noted.path = r.path /\ noted.destination = r.destination /\ noted.target = r.target
        BY <3>1, <4>1 DEF NavRequests
      <4> QED
        BY <4>2 DEF previous
    <3>5. request' = Just(noted)
      BY <1>2, <2>2
    <3> HIDE DEF noted
    <3>6. request' \in Optional(NavRequests) /\ request'[1] = noted
      BY <3>4, <3>5, OptionalFacts
    <3>7. TargetFits(visits', cursor', r.path, r.target)
      <4> SUFFICES ASSUME r.target # Nothing
                   PROVE  /\ r.target[1] < Len(visits') /\ r.target[1] # cursor
                          /\ visits'[r.target[1] + 1].path = r.path
        BY <1>2 DEF TargetFits
      <4> DEFINE t == r.target[1]
      <4>1. t < Len(visits) /\ t # cursor /\ visits[t + 1].path = r.path
        BY <3>1 DEF RequestFits, TargetFits
      <4>2. t \in 0..MaxVisits - 1
        <5>1. r.target \in Optional(0..MaxVisits - 1)
          BY <3>1 DEF NavRequests
        <5> QED
          BY <5>1, OptionalFacts
      <4>3. t \in Nat
        BY <4>2, NavigationAssumption
      <4>4. /\ visits # <<>> /\ visits \in Seq(Kept) /\ cursor \in Nat
        BY <1>1, <4>1, <4>3, EmptySeq DEF HistoryFits
      <4> HIDE DEF t, here
      <4>5. t + 1 \in 1..Len(visits) /\ t + 1 # cursor + 1
        <5>1. Len(visits) \in Nat
          BY <4>4, LenProperties
        <5> QED
          BY <4>1, <4>3, <4>4, <5>1
      <4>6. visits' = [visits EXCEPT ![cursor + 1] = here]
        BY <1>2, <4>4
      <4>7. Len(visits') = Len(visits) /\ visits'[t + 1] = visits[t + 1]
        BY <4>4, <4>5, <4>6
      <4> QED
        BY <4>1, <4>7 DEF t
    <3>8. /\ Home(noted.previous, path) /\ Home(noted.destination, noted.path)
          /\ TargetFits(visits', cursor', noted.path, noted.target)
          /\ doc.document < MaxDocument
      BY <3>1, <3>3, <3>4, <3>7 DEF RequestFits
    <3> QED
      BY <1>3, <3>6, <3>8 DEF RequestFits
  <2> QED
    BY <2>1, <2>2
<1> HIDE DEF moved, here, stale, noted
<1> QED
  BY <1>1, <1>2, <1>3, <1>4, <1>5, <1>6 DEF NavInv

(***************************************************************************)
(* Steps of the navigation coordinator.                                    *)
(***************************************************************************)
LEMMA AskFits ==
    ASSUME NavInv, NEW path \in Paths, NEW destination \in Places, Home(destination, path),
           NEW target \in Optional(0 .. MaxVisits - 1), TargetFits(visits, cursor, path, target),
           Ask(path, target, destination)
    PROVE  NavInv'
<1> DEFINE r == [path |-> path, previous |-> scroll.last, target |-> target,
                 destination |-> destination]
<1>1. r \in NavRequests
  BY ReaderIsHome DEF NavRequests
<1>2. /\ r.previous = scroll.last /\ r.path = path /\ r.destination = destination
      /\ r.target = target
  OBVIOUS
<1>3. /\ request' = Just(r) /\ UNCHANGED <<doc, visits, cursor, scroll, view>>
      /\ doc.document < MaxDocument
  BY DEF Ask
<1> HIDE DEF r
<1>4. RequestFits(r)
  BY <1>2, <1>3, ReaderIsHome DEF RequestFits
<1>5. request' \in Optional(NavRequests) /\ request'[1] = r
  BY <1>1, <1>3, OptionalFacts
<1>6. RequestFits(request[1])'
  BY <1>3, <1>4, <1>5 DEF RequestFits
<1>7. ScrollFits(scroll', doc'.path, Token') <=> ScrollFits(scroll, doc.path, Token)
  BY <1>3 DEF Token
<1> QED
  BY <1>3, <1>5, <1>6, <1>7 DEF NavInv

\* A file is asked for.
LEMMA OpenTargetFits ==
    ASSUME NavInv, NEW path \in Paths, OpenTarget(path) PROVE NavInv'
<1>1. Nothing \in Optional(0 .. MaxVisits - 1) /\ TargetFits(visits, cursor, path, Nothing)
  BY OptionalFacts DEF TargetFits
<1>2. Top \in Places /\ Home(Top, path)
  BY TopIsAPlace
<1>3. Ask(path, Nothing, Top)
  BY DEF OpenTarget
<1> QED
  BY <1>1, <1>2, <1>3, AskFits

\* Back or forward: the visit that is asked for is there, and not the current
\* one.
LEMMA GoFits ==
    ASSUME NavInv, NEW back \in BOOLEAN, Go(back) PROVE NavInv'
<1> DEFINE target == Propose(back)
           path == visits[target[1] + 1].path
<1>1. HistoryFits(visits, cursor, doc.path) /\ target # Nothing
  BY DEF NavInv, Go
<1>2. visits # <<>>
  BY <1>1 DEF Propose, Nothing
<1>3. /\ cursor \in Nat /\ cursor < Len(visits) /\ Len(visits) \in Nat /\ Len(visits) <= MaxVisits
      /\ visits \in Seq(Kept)
  BY <1>1, <1>2 DEF HistoryFits
<1>4. PICK t \in 0..MaxVisits - 1 : target = Just(t) /\ t < Len(visits) /\ t # cursor
  <2>1. CASE back
    <3>1. cursor > 0 /\ target = Just(cursor - 1)
      BY <2>1, <1>1, <1>2 DEF Propose
    <3>2. cursor - 1 \in 0..MaxVisits - 1 /\ cursor - 1 < Len(visits) /\ cursor - 1 # cursor
      BY <3>1, <1>3, NavigationAssumption
    <3> QED
      BY <3>1, <3>2
  <2>2. CASE ~back
    <3>1. cursor + 1 < Len(visits) /\ target = Just(cursor + 1)
      BY <2>2, <1>1, <1>2 DEF Propose
    <3>2. cursor + 1 \in 0..MaxVisits - 1 /\ cursor + 1 # cursor
      BY <3>1, <1>3, NavigationAssumption
    <3> QED
      BY <3>1, <3>2
  <2> QED
    BY <2>1, <2>2
<1>5. target \in Optional(0..MaxVisits - 1) /\ target[1] = t
  <2> HIDE DEF target
  <2> QED
    BY <1>4, OptionalFacts
<1>6. t + 1 \in 1..Len(visits)
  BY <1>3, <1>4, NavigationAssumption
<1>7. visits[t + 1] \in Kept
  BY <1>3, <1>6, ElementOfSeq
<1>8. path \in Paths /\ TargetFits(visits, cursor, path, target)
  BY <1>4, <1>5, <1>7 DEF Kept, Visits, TargetFits
<1>9. Ask(path, target, Top)
  BY DEF Go
<1> HIDE DEF target, path
<1> QED
  BY <1>5, <1>8, <1>9, TopIsAPlace, AskFits

\* A place is asked for, in another file or in this one.
LEMMA OpenAtFits ==
    ASSUME NavInv, NEW path \in Paths \cup {doc.path}, NEW b \in Sizes, NEW heading \in Headings,
           OpenAt(path, b, heading)
    PROVE  NavInv'
<1>1. /\ doc \in Documents /\ view \in Views /\ ScrollFits(scroll, doc.path, Token)
  BY DEF NavInv
<1>2. /\ b \in Nat /\ doc.size \in Nat /\ doc.size \in Sizes \cup {0}
      /\ doc.path \in Paths \cup {Untitled}
  BY <1>1, TokenTyped, NavigationAssumption
<1>3. ToByte(b, path) \in Places /\ Home(ToByte(b, path), path)
  BY <1>2, ToByteIsAPlace
<1>4. CASE path \in Paths /\ Ask(path, Nothing, ToByte(b, path))
  <2>1. Nothing \in Optional(0 .. MaxVisits - 1) /\ TargetFits(visits, cursor, path, Nothing)
    BY OptionalFacts DEF TargetFits
  <2> QED
    BY <2>1, <1>3, <1>4, AskFits
<1>5. CASE ~(path \in Paths /\ Ask(path, Nothing, ToByte(b, path)))
  <2> DEFINE anchor == Within(ToByte(b, path), doc.size)
             there == Restored(scroll, view, anchor)
             stop == Least(b, doc.size)
             top == SetSourceAnchor(there.s, there.v, stop, {})
             jumped == Jumped(there.s, there.v, heading[1])
  <2>1. /\ path = doc.path
        /\ Show(IF heading = Nothing THEN top ELSE jumped)
        /\ UNCHANGED <<doc, visits, cursor, request>>
    BY <1>5 DEF OpenAt
  <2>2. anchor \in Places /\ Home(anchor, doc.path)
    BY <1>2, <1>3, <2>1, WithinIsAPlace
  <2>3. stop \in Nat
    BY <1>2 DEF Least
  <2> HIDE DEF anchor, stop
  <2>4. ScrollFits(there.s, doc.path, Token) /\ there.v \in Views
    BY <1>1, <1>2, <2>2, RestoredFits
  <2> HIDE DEF there
  <2>5. CASE heading = Nothing
    <3>1. top = [s |-> there.s, v |-> EditorAt(there.v, stop, doc.size)]
      BY SettersAreSilent
    <3> HIDE DEF top
    <3>2. scroll' = there.s /\ view' = EditorAt(there.v, stop, doc.size)
      BY <2>1, <2>5, <3>1 DEF Show
    <3>3. view' \in Views
      BY <1>2, <2>3, <2>4, <3>2, ViewsStop
    <3> QED
      BY <2>1, <2>4, <3>2, <3>3, OnlyViewsMove
  <2>6. CASE heading # Nothing
    <3>1. heading[1] \in Nat
      BY <1>2, <2>6, HeadingFacts
    <3>2. ScrollFits(jumped.s, doc.path, Token) /\ jumped.v \in Views
      BY <1>2, <2>4, <3>1, JumpedFits
    <3> HIDE DEF jumped
    <3>3. scroll' = jumped.s /\ view' = jumped.v
      BY <2>1, <2>6 DEF Show
    <3> QED
      BY <2>1, <3>2, <3>3, OnlyViewsMove
  <2> QED
    BY <2>5, <2>6
<1> QED
  BY <1>4, <1>5

\* The file that was asked for is not opened.
LEMMA NotOpenedFits ==
    ASSUME NavInv, NotOpened PROVE NavInv'
<1>1. Nothing \in Optional(NavRequests)
  BY OptionalFacts
<1> QED
  BY <1>1 DEF NavInv, NotOpened, HistoryFits, Token

\* The file that was asked for is on display, and no frame of the one before.
LEMMA OpenedFits ==
    ASSUME NavInv, NEW size \in Sizes, Opened(size)
    PROVE  NavInv' /\ scroll'.frame = Nothing
<1> DEFINE r == request[1]
           restore == IF r.target # Nothing THEN visits[r.target[1] + 1].anchor ELSE r.destination
           token == <<doc.document + 1, 0>>
           atTop == EditorAt(view, 0, size)
           stop == Least(r.destination.byte, size)
           stale == Invalidated(scroll, token)
           anchor == Within(restore, size)
           placed == Restored(stale, atTop, anchor)
<1>1. /\ doc \in Documents /\ view \in Views /\ HistoryFits(visits, cursor, doc.path)
      /\ request \in Optional(NavRequests) /\ (request # Nothing => RequestFits(request[1]))
      /\ ScrollFits(scroll, doc.path, Token)
  BY DEF NavInv
<1>2. /\ request # Nothing
      /\ doc' = [path |-> r.path, document |-> doc.document + 1, revision |-> 0,
                 size |-> size, parsed |-> FALSE]
      /\ Commit(r.path, r.previous, r.target)
      /\ scroll' = Invalidated(placed.s, token) /\ view' = EditorAt(placed.v, stop, size)
      /\ request' = Nothing
  BY DEF Opened
<1>3. r \in NavRequests /\ RequestFits(r)
  BY <1>1, <1>2, OptionalFacts
<1> HIDE DEF r
<1>4. /\ r.path \in Paths /\ r.previous \in Places /\ r.destination \in Places
      /\ r.target \in Optional(0 .. MaxVisits - 1)
      /\ Home(r.previous, doc.path) /\ Home(r.destination, r.path)
      /\ TargetFits(visits, cursor, r.path, r.target) /\ doc.document < MaxDocument
  BY <1>3 DEF NavRequests, RequestFits
<1>5. size \in Nat /\ size \in Sizes \cup {0} /\ doc.document \in Nat /\ Token[1] = doc.document
  BY <1>1, TokenTyped, NavigationAssumption
<1>6. HistoryFits(visits', cursor', r.path)
  BY <1>1, <1>2, <1>4, CommitFits
<1>7. restore \in Places /\ Home(restore, r.path)
  <2>1. CASE r.target = Nothing
    BY <2>1, <1>4
  <2>2. CASE r.target # Nothing
    <3> DEFINE t == r.target[1]
    <3>1. t \in 0..MaxVisits - 1 /\ t < Len(visits) /\ visits[t + 1].path = r.path
      BY <2>2, <1>4, OptionalFacts DEF TargetFits
    <3>2. t + 1 \in 1..Len(visits) /\ visits \in Seq(Kept)
      <4> HIDE DEF t
      <4>1. visits \in Seq(Kept) /\ t \in Nat
        BY <3>1, <1>1, NavigationAssumption DEF HistoryFits
      <4>2. Len(visits) \in Nat
        BY <4>1, LenProperties
      <4> QED
        BY <3>1, <4>1, <4>2
    <3>3. visits[t + 1] \in Kept
      BY <3>2, ElementOfSeq
    <3> QED
      BY <2>2, <3>1, <3>3 DEF Kept, Visits
  <2> QED
    BY <2>1, <2>2
<1> HIDE DEF restore
<1>8. anchor \in Places /\ Home(anchor, r.path)
  BY <1>5, <1>7, WithinIsAPlace
<1>9. atTop \in Views /\ stop \in Nat
  <2>1. stop \in Nat
    BY <1>4, <1>5 DEF Least, Places
  <2> HIDE DEF stop
  <2> QED
    BY <1>1, <1>5, <2>1, ViewsStop
<1>10. token \in Nat \X Nat /\ token[1] # Token[1]
  BY <1>5
<1> HIDE DEF token, anchor, atTop, stop
<1>11. ScrollFits(stale, r.path, token)
  BY <1>1, <1>10, InvalidatedFits
<1> HIDE DEF stale
<1>12. ScrollFits(placed.s, r.path, token) /\ placed.v \in Views
  BY <1>1, <1>8, <1>9, <1>11, TokenTyped, RestoredFits
<1> HIDE DEF placed
<1>13. /\ ScrollFits(Invalidated(placed.s, token), r.path, token)
       /\ Invalidated(placed.s, token).frame = Nothing
  BY <1>10, <1>12, InvalidatedFits
<1>14. doc' \in Documents /\ Token' = token /\ doc'.path = r.path
  <2>1. doc.document + 1 \in 0..MaxDocument /\ 0 \in 0..MaxRevision
    BY <1>4, <1>5, NavigationAssumption
  <2> QED
    BY <2>1, <1>2, <1>4 DEF Documents, Token, token
<1>15. request' \in Optional(NavRequests) /\ request' = Nothing
  BY <1>2, OptionalFacts
<1>16. ScrollFits(scroll', doc'.path, Token') /\ view' \in Views
  BY <1>2, <1>5, <1>9, <1>12, <1>13, <1>14, ViewsStop
<1>17. NavInv'
  BY <1>6, <1>14, <1>15, <1>16 DEF NavInv
<1> QED
  BY <1>2, <1>13, <1>17

\* Every step keeps the invariant.
LEMMA NavStepKeepsInv == NavInv /\ [NavNext]_navVars => NavInv'
<1> SUFFICES ASSUME NavInv, [NavNext]_navVars PROVE NavInv'
  OBVIOUS
<1>1. ASSUME NEW p \in Paths, OpenTarget(p) PROVE NavInv'
  BY <1>1, OpenTargetFits
<1>2. ASSUME NEW p \in Paths, Saved(p) PROVE NavInv'
  BY <1>2, SavedFits
<1>3. ASSUME NEW p \in Paths \cup {doc.path}, NEW b \in Sizes, NEW heading \in Headings,
             OpenAt(p, b, heading)
      PROVE  NavInv'
  BY <1>3, OpenAtFits
<1>4. ASSUME NEW back \in BOOLEAN, Go(back) PROVE NavInv'
  BY <1>4, GoFits
<1>5. ASSUME NEW size \in Sizes, Opened(size) PROVE NavInv'
  BY <1>5, OpenedFits
<1>6. CASE Edit
  BY <1>6, EditFits
<1>7. CASE NotOpened
  BY <1>7, NotOpenedFits
<1>8. ASSUME NEW b \in 0 .. doc.size, ScrollEditor(b) PROVE NavInv'
  BY <1>8, ScrollEditorFits
<1>9. ASSUME NEW b \in 0 .. doc.size, JumpTo(b) PROVE NavInv'
  BY <1>9, JumpToFits
<1>10. ASSUME NEW y \in Heights, ScrollPreview(y) PROVE NavInv'
  BY <1>10, ScrollPreviewFits
<1>11. ASSUME NEW split \in BOOLEAN, SetSplit(split) PROVE NavInv'
  BY <1>11, SetSplitFits
<1>12. CASE Rescale
  BY <1>12, RescaleFits
<1>13. ASSUME NEW regions \in Layouts, NEW made \in BOOLEAN, Relayout(regions, made) PROVE NavInv'
  BY <1>13, RelayoutFits
<1>14. ASSUME NEW regions \in Layouts, NEW made \in BOOLEAN, Reformat(regions, made) PROVE NavInv'
  BY <1>14, ReformatFits
<1>15. ASSUME NEW regions \in Layouts, NEW made \in BOOLEAN, NEW heading \in Headings,
              ParseDone(regions, made, heading)
       PROVE  NavInv'
  BY <1>15, ParseDoneFits
<1>16. CASE UNCHANGED navVars
  BY <1>16 DEF navVars, NavInv, RequestFits, Token
<1> QED
  BY <1>1, <1>2, <1>3, <1>4, <1>5, <1>6, <1>7, <1>8, <1>9, <1>10, <1>11, <1>12, <1>13,
     <1>14, <1>15, <1>16 DEF NavNext

\* Navigation keeps its invariant: the facts above hold together in every
\* state of the window.
THEOREM NavInvariance == NavSpec => []NavInv
<1>1. NavInit => NavInv
  BY InitFits
<1>2. NavInv /\ [NavNext]_navVars => NavInv'
  BY NavStepKeepsInv
<1> QED
  BY <1>1, <1>2, PTL DEF NavSpec

\* NavTypeOK: the navigation state stays within its type, the history
\* within HistoryStore's limit.
THEOREM NavTypeCorrect == NavSpec => []NavTypeOK
<1>1. NavInv => NavTypeOK
  <2> SUFFICES ASSUME NavInv PROVE NavTypeOK
    OBVIOUS
  <2>1. /\ doc \in Documents /\ view \in Views /\ request \in Optional(NavRequests)
        /\ scroll \in Scrolls /\ visits \in Seq(Kept) /\ Len(visits) <= MaxVisits /\ cursor \in Nat
    BY DEF NavInv, HistoryFits, ScrollFits
  <2>2. visits \in Seq(Visits)
    <3>1. Kept \subseteq Visits
      BY DEF Kept
    <3> QED
      BY <2>1, <3>1, SeqMonotonic
  <2> QED
    BY <2>1, <2>2 DEF NavTypeOK, Documents, Views, NavRequests, Scrolls, Visits
<1> QED
  BY <1>1, NavInvariance, PTL

\* VisitIsShown: the visit under the cursor is the document on display, and
\* the visit a pending request goes back to is still there when the request
\* is committed.
THEOREM HistoryFollowsDisplay == NavSpec => []VisitIsShown
<1>1. NavInv => VisitIsShown
  BY DEF NavInv, HistoryFits, RequestFits, TargetFits, VisitIsShown
<1> QED
  BY <1>1, NavInvariance, PTL

\* AnchorsStayHome: a place that is kept was read in the document it is kept
\* for, and a frame on display is one of the current text.
THEOREM PlacesStayHome == NavSpec => []AnchorsStayHome
<1>1. NavInv => AnchorsStayHome
  <2> SUFFICES ASSUME NavInv PROVE AnchorsStayHome
    OBVIOUS
  <2>1. ASSUME NEW i \in DOMAIN visits
        PROVE  visits[i].anchor.of \in {visits[i].path, Untitled}
    <3>1. visits \in Seq(Kept) /\ i \in 1..Len(visits)
      BY DEF NavInv, HistoryFits
    <3>2. visits[i] \in Kept
      BY <3>1, ElementOfSeq
    <3> QED
      BY <3>2 DEF Kept, Home
  <2> QED
    BY <2>1 DEF NavInv, ScrollFits, Home, AnchorsStayHome
<1> QED
  BY <1>1, NavInvariance, PTL

(***************************************************************************)
(* The two views.                                                          *)
(***************************************************************************)
\* In split mode both views stand at the place last seen, in a text of this
\* path and length.
Agree(s, v, path, size) ==
    s.frame # Nothing /\ s.split
      => LET regions == s.frame[1].regions
             target == MapAnchor(s.last, regions)
         IN \/ target.quality = "unavailable" \/ s.last.quality = "unavailable"
            \/ /\ v.editor = TopAt[size][Least(s.last.byte, size)]
               /\ \/ v.preview = Least(target.y, LastHeight[regions])
                  \/ In(AnchorAt(v.preview, regions), path) = s.last

\* Moving one view leaves the other.
LEMMA ViewsApart ==
    ASSUME NEW v \in Views, NEW x
    PROVE  /\ \A size : /\ EditorAt(v, x, size).editor = TopAt[size][Least(x, size)]
                        /\ EditorAt(v, x, size).preview = v.preview
           /\ \A regions : PreviewAt(v, x, regions).preview = Least(x, LastHeight[regions])
BY DEF EditorAt, PreviewAt, Views

\* Whether or not there is a frame to move, restoreAnchor leaves the reader
\* at the place asked for.
LEMMA RestoredKeeps ==
    ASSUME NEW s \in Scrolls, NEW v, NEW anchor
    PROVE  /\ Restored(s, v, anchor).s.last = anchor
           /\ Restored(s, v, anchor).s.frame = s.frame
           /\ Restored(s, v, anchor).s.split = s.split
<1> DEFINE moved == [s EXCEPT !.last = anchor]
           held == [moved EXCEPT !.pending = Just(anchor)]
           r == Restored(s, v, anchor)
<1>1. moved.last = anchor /\ moved.frame = s.frame /\ moved.split = s.split
  BY DEF Scrolls
<1>2. held.last = anchor /\ held.frame = s.frame /\ held.split = s.split
  BY DEF Scrolls
<1>3. r.s = moved \/ r.s = held
  <2>1. CASE s.frame = Nothing
    <3>1. r = [s |-> held, v |-> v]
      BY <2>1 DEF Restored
    <3> HIDE DEF r, held
    <3> QED
      BY <3>1
  <2>2. CASE s.frame # Nothing
    <3> DEFINE target == MapAnchor(anchor, s.frame[1].regions)
               there == PreviewAt(v, target.y, moved.frame[1].regions)
               both == EditorAt(there, anchor.byte, doc.size)
    <3> HIDE DEF moved, target, there, both, r
    <3>1. r = IF target.quality = "unavailable" THEN [s |-> moved, v |-> v]
              ELSE [s |-> moved, v |-> IF s.split THEN both ELSE there]
      BY <2>2, RestoredIs DEF moved, target, there, both, r
    <3> QED
      BY <3>1
  <2> QED
    BY <2>1, <2>2
<1> HIDE DEF moved, held, r
<1>4. r.s.last = anchor /\ r.s.frame = s.frame /\ r.s.split = s.split
  BY <1>1, <1>2, <1>3
<1> QED
  BY <1>4 DEF r

\* After restoreAnchor both views stand at the place asked for.
LEMMA RestoredAgrees ==
    ASSUME doc.size \in Sizes \cup {0},
           NEW s \in Scrolls, NEW v \in Views, NEW anchor \in Places, NEW path
    PROVE  Agree(Restored(s, v, anchor).s, Restored(s, v, anchor).v, path, doc.size)
<1> DEFINE moved == [s EXCEPT !.last = anchor]
           target == MapAnchor(anchor, s.frame[1].regions)
           there == PreviewAt(v, target.y, moved.frame[1].regions)
           both == EditorAt(there, anchor.byte, doc.size)
           r == Restored(s, v, anchor)
<1>1. r.s.last = anchor /\ r.s.frame = s.frame /\ r.s.split = s.split
  BY RestoredKeeps
<1>2. CASE s.frame # Nothing /\ s.split /\ target.quality # "unavailable"
  <2>1. moved.frame = s.frame
    BY DEF Scrolls
  <2>2. r.v = both
    <3> HIDE DEF moved, target, there, both, r
    <3>1. r = IF target.quality = "unavailable" THEN [s |-> moved, v |-> v]
              ELSE [s |-> moved, v |-> IF s.split THEN both ELSE there]
      BY <1>2, RestoredIs DEF moved, target, there, both, r
    <3> QED
      BY <1>2, <3>1
  <2>3. s.frame[1] \in Frames
    BY <1>2, OptionalFacts DEF Scrolls
  <2>4. s.frame[1].regions \in Layouts /\ s.frame[1].regions \in Seq(Region)
    BY <2>3, NavigationAssumption DEF Frames
  <2>5. anchor.byte \in Nat /\ anchor.fraction \in 0..99
    BY DEF Places
  <2>6. target.y \in Nat
    BY <2>4, <2>5, MapAnchorTyped
  <2> HIDE DEF moved, target
  <2>7. there \in Views /\ there.preview = Least(target.y, LastHeight[s.frame[1].regions])
    BY <2>1, <2>4, <2>6, ViewsStop, ViewsApart
  <2> HIDE DEF there
  <2>8. /\ both.editor = TopAt[doc.size][Least(anchor.byte, doc.size)]
        /\ both.preview = there.preview
    BY <2>7, ViewsApart
  <2> HIDE DEF both, r
  <2>9. /\ r.v.editor = TopAt[doc.size][Least(r.s.last.byte, doc.size)]
        /\ r.v.preview = Least(target.y, LastHeight[r.s.frame[1].regions])
        /\ target = MapAnchor(r.s.last, r.s.frame[1].regions)
    BY <1>1, <2>2, <2>7, <2>8 DEF target
  <2>10. Agree(r.s, r.v, path, doc.size)
    BY <2>9 DEF Agree
  <2> QED
    BY <2>10 DEF r
<1>3. CASE ~(s.frame # Nothing /\ s.split /\ target.quality # "unavailable")
  <2> HIDE DEF r, target
  <2>1. /\ target = MapAnchor(r.s.last, r.s.frame[1].regions)
        /\ ~(r.s.frame # Nothing /\ r.s.split /\ target.quality # "unavailable")
    BY <1>1, <1>3 DEF target
  <2>2. Agree(r.s, r.v, path, doc.size)
    BY <2>1 DEF Agree
  <2> QED
    BY <2>2 DEF r
<1> QED
  BY <1>2, <1>3

\* The same of going to a heading: the editor stops where it stands already.
LEMMA JumpedAgrees ==
    ASSUME doc.size \in Sizes \cup {0}, doc.path \in Paths \cup {Untitled},
           NEW s, NEW token, ScrollFits(s, doc.path, token),
           NEW v \in Views, NEW b \in Nat, NEW path
    PROVE  /\ Jumped(s, v, b).s.last = ToByte(b, doc.path)
           /\ Agree(Jumped(s, v, b).s, Jumped(s, v, b).v, path, doc.size)
<1> DEFINE place == ToByte(b, doc.path)
           r == Restored(s, v, place)
           there == EditorAt(r.v, b, doc.size)
           j == Jumped(s, v, b)
<1>1. j = [s |-> r.s, v |-> there]
  BY JumpedIs
<1>2. place \in Places /\ Home(place, doc.path) /\ place.byte = b
  <2>1. place.byte = b
    BY DEF ToByte, In, TopAnchor
  <2> QED
    BY <2>1, ToByteIsAPlace
<1>0. s \in Scrolls
  BY DEF ScrollFits
<1> HIDE DEF place
<1>3. r.s.last = place
  BY <1>0, RestoredKeeps
<1>4. r.v \in Views
  BY <1>2, RestoredFits
<1>5. Agree(r.s, r.v, path, doc.size)
  BY <1>0, <1>2, RestoredAgrees
<1> HIDE DEF r
<1>6. /\ there.editor = TopAt[doc.size][Least(r.s.last.byte, doc.size)]
      /\ there.preview = r.v.preview
  BY <1>2, <1>3, <1>4, ViewsApart
<1> HIDE DEF there
<1>7. Agree(r.s, there, path, doc.size)
  BY <1>5, <1>6 DEF Agree
<1> HIDE DEF j
<1>8. j.s.last = place /\ Agree(j.s, j.v, path, doc.size)
  BY <1>1, <1>3, <1>7
<1> QED
  BY <1>8 DEF j, place

\* A new frame takes over the place the coordinator holds for it.
LEMMA FramedAgrees ==
    ASSUME doc.size \in Sizes \cup {0},
           NEW s, NEW token, NEW home, ScrollFits(s, home, token),
           s.frame = Nothing, s.pending # Nothing,
           NEW v \in Views, NEW frame \in Frames, NEW path
    PROVE  /\ Framed(s, v, frame).s.last = s.last
           /\ Agree(Framed(s, v, frame).s, Framed(s, v, frame).v, path, doc.size)
<1> DEFINE shown == [s EXCEPT !.frame = Just(frame), !.pending = Nothing]
           within == PreviewAt(v, v.preview, frame.regions)
           ignored == frame.token # s.expected \/ (s.awaited # Nothing /\ s.awaited # Just(frame))
           f == Framed(s, v, frame)
           r == Restored(shown, within, s.pending[1])
<1>0. s \in Scrolls /\ s.pending[1] = s.last /\ s.last \in Places
  BY DEF ScrollFits, Scrolls
<1>1. CASE ignored
  <2>1. f.s = s
    BY <1>1 DEF Framed
  <2> HIDE DEF f
  <2> QED
    BY <2>1 DEF Agree, f
<1>2. CASE ~ignored
  <2>1. f = r
    BY <1>2 DEF Framed
  <2>2. shown \in Scrolls
    BY <1>0, OptionalFacts DEF Scrolls
  <2>3. within \in Views
    BY ViewsStop DEF Views, Frames
  <2> HIDE DEF shown, within, f
  <2>4. r.s.last = s.last /\ Agree(r.s, r.v, path, doc.size)
    BY <1>0, <2>2, <2>3, RestoredKeeps, RestoredAgrees
  <2> HIDE DEF r
  <2>5. f.s.last = s.last /\ Agree(f.s, f.v, path, doc.size)
    BY <2>1, <2>4
  <2> QED
    BY <2>5 DEF f
<1> QED
  BY <1>1, <1>2

\* A frame that was asked for anew, whether it was made or not.
LEMMA AskedAgrees ==
    ASSUME doc \in Documents,
           NEW s, ScrollFits(s, doc.path, Token), NEW v \in Views,
           NEW regions \in Layouts, NEW path
    PROVE  LET frame == [token |-> Token, regions |-> regions]
               stale == Invalidated(s, Token)
               asked == [stale EXCEPT !.awaited = Just(frame)]
           IN /\ stale.frame = Nothing /\ stale.last = s.last
              /\ asked.frame = Nothing /\ asked.last = s.last
              /\ Framed(asked, v, frame).s.last = s.last
              /\ Agree(Framed(asked, v, frame).s, Framed(asked, v, frame).v, path, doc.size)
<1> DEFINE frame == [token |-> Token, regions |-> regions]
           stale == Invalidated(s, Token)
           asked == [stale EXCEPT !.awaited = Just(frame)]
<1>1. /\ frame \in Frames
      /\ ScrollFits(stale, doc.path, Token) /\ ScrollFits(asked, doc.path, Token)
  BY AskedFits
<1>2. stale.frame = Nothing /\ stale.pending # Nothing
  BY TokenTyped, InvalidatedFits
<1>3. stale.last = s.last
  BY DEF Invalidated, ScrollFits, Scrolls
<1> HIDE DEF stale, frame
<1>4. asked.frame = Nothing /\ asked.pending # Nothing /\ asked.last = stale.last
  BY <1>1, <1>2 DEF ScrollFits, Scrolls
<1> HIDE DEF asked
<1>5. /\ Framed(asked, v, frame).s.last = asked.last
      /\ Agree(Framed(asked, v, frame).s, Framed(asked, v, frame).v, path, doc.size)
  BY <1>1, <1>4, TokenTyped, FramedAgrees
<1> QED
  BY <1>2, <1>3, <1>4, <1>5 DEF asked, stale, frame

\* relayout leaves the reader where he is, and the views at it.
LEMMA LaidAgrees ==
    ASSUME NavInv, NEW regions \in Layouts, NEW made \in BOOLEAN, NEW path
    PROVE  /\ Laid(scroll, view, regions, made).s.last = scroll.last
           /\ Agree(Laid(scroll, view, regions, made).s, Laid(scroll, view, regions, made).v,
                    path, doc.size)
<1> DEFINE frame == [token |-> Token, regions |-> regions]
           stale == Invalidated(scroll, Token)
           asked == [stale EXCEPT !.awaited = Just(frame)]
           framed == Framed(asked, view, frame)
           laid == Laid(scroll, view, regions, made)
<1>1. /\ stale.frame = Nothing /\ stale.last = scroll.last
      /\ asked.frame = Nothing /\ asked.last = scroll.last
      /\ framed.s.last = scroll.last /\ Agree(framed.s, framed.v, path, doc.size)
  BY AskedAgrees DEF NavInv
<1>2. laid = IF ~doc.parsed THEN [s |-> stale, v |-> view]
             ELSE IF made THEN framed ELSE [s |-> asked, v |-> view]
  BY DEF Laid
<1> HIDE DEF framed, asked, stale, laid
<1>3. laid.s.last = scroll.last /\ (laid = framed \/ laid.s.frame = Nothing)
  BY <1>1, <1>2
<1>4. CASE laid = framed
  BY <1>1, <1>3, <1>4 DEF laid
<1>5. CASE laid.s.frame = Nothing
  BY <1>3, <1>5 DEF Agree, laid
<1> QED
  BY <1>3, <1>4, <1>5

(***************************************************************************)
(* What a step leaves: a place that stays where it was or is the reader's  *)
(* own, and views that agree at it.                                        *)
(***************************************************************************)
Stays == scroll'.last = scroll.last \/ doc'.document # doc.document \/ doc'.path # doc.path

\* The place and the frame stay.
LEMMA NothingMoves ==
    ASSUME scroll'.last = scroll.last, scroll'.frame = scroll.frame
    PROVE  Follows /\ NoEcho
BY DEF Follows, NoEcho

\* There is no frame, and the place stays or the document is another.
LEMMA NothingIsShown ==
    ASSUME scroll'.frame = Nothing, Stays PROVE Follows /\ NoEcho
BY DEF Follows, NoEcho, Stays

\* The views agree in the text on display.
LEMMA SettledFollows ==
    ASSUME Agree(scroll', view', doc.path, doc.size),
           doc'.path = doc.path, doc'.size = doc.size
    PROVE  Follows
BY DEF Agree, Follows

\* Asking for a file moves nothing.
LEMMA AskAgrees ==
    ASSUME NEW path, NEW target, NEW destination, Ask(path, target, destination)
    PROVE  Follows /\ NoEcho
<1>1. scroll' = scroll
  BY DEF Ask
<1> QED
  BY <1>1, NothingMoves

\* Under its own name, the reader stays where he is.
LEMMA SavedAgrees ==
    ASSUME NavInv, NEW path \in Paths, Saved(path) PROVE Follows /\ NoEcho
<1> DEFINE stale == Invalidated(scroll, Token)
           moved == [stale EXCEPT !.last = Renamed(@, path), !.pending = Just(Renamed(@[1], path))]
<1>1. doc \in Documents /\ scroll \in Scrolls /\ scroll.expected = Token /\ scroll.last \in Places
  BY DEF NavInv, ScrollFits, Scrolls
<1>2. stale \in Scrolls /\ stale.frame = Nothing
  BY TokenTyped, InvalidatedFits DEF NavInv, ScrollFits
<1>3. stale.last = scroll.last
  BY <1>1 DEF Invalidated, Scrolls
<1>4. scroll' = moved /\ doc' = [doc EXCEPT !.path = path]
  BY DEF Saved, Renamed
<1> HIDE DEF stale
<1>5. moved.frame = Nothing /\ moved.last = Renamed(scroll.last, path)
  BY <1>2, <1>3 DEF Scrolls
<1>6. doc'.path = path
  BY <1>1, <1>4 DEF Documents
<1>7. path = doc.path => Renamed(scroll.last, path) = scroll.last
  BY <1>1 DEF Renamed, Places
<1> HIDE DEF moved
<1> QED
  BY <1>4, <1>5, <1>6, <1>7, NothingIsShown DEF Stays

\* Another document is on display.
LEMMA OpenedAgrees ==
    ASSUME NavInv, NEW size \in Sizes, Opened(size) PROVE Follows /\ NoEcho
<1>1. scroll'.frame = Nothing
  BY OpenedFits
<1>2. doc'.document = doc.document + 1
  BY DEF Opened
<1>3. doc.document \in Nat
  BY TokenTyped DEF NavInv
<1> QED
  BY <1>1, <1>2, <1>3, NothingIsShown DEF Stays

\* An edit leaves the place and no frame.
LEMMA EditAgrees ==
    ASSUME NavInv, Edit PROVE Follows /\ NoEcho
<1> DEFINE token == <<doc.document, doc.revision + 1>>
<1>1. scroll' = Invalidated(scroll, token)
  BY DEF Edit
<1>2. /\ token \in Nat \X Nat /\ ScrollFits(scroll, doc.path, Token)
      /\ token[1] = Token[1] /\ scroll.expected = Token /\ scroll \in Scrolls
  BY TokenTyped DEF NavInv, ScrollFits
<1> HIDE DEF token
<1>3. scroll'.frame = Nothing
  BY <1>1, <1>2, InvalidatedFits
<1>4. scroll'.last = scroll.last
  BY <1>1, <1>2 DEF Invalidated, Scrolls
<1> QED
  BY <1>3, <1>4, NothingIsShown DEF Stays

\* The reader's own steps.
LEMMA ScrollEditorAgrees ==
    ASSUME NavInv, NEW b \in 0 .. doc.size, ScrollEditor(b) PROVE Follows /\ NoEcho
<1> DEFINE here == ToByte(b, doc.path)
           target == MapAnchor(here, scroll.frame[1].regions)
           moved == [view EXCEPT !.editor = b]
           heard == Heard(scroll, here, {})
           seen == [scroll EXCEPT !.last = here]
           synced == Heeded(scroll, {}) /\ scroll.split /\ target.quality # "unavailable"
           follower == PreviewAt(moved, target.y, heard.frame[1].regions)
           to == SetViewport(heard, moved, target.y, {"synchronizing"})
<1>1. doc \in Documents /\ view \in Views /\ scroll \in Scrolls
  BY DEF NavInv, ScrollFits
<1>2. b \in Nat /\ doc.size \in Nat /\ doc.path \in Paths \cup {Untitled}
  BY <1>1, TokenTyped
<1>3. moved \in Views /\ moved.editor = b
  BY <1>1, <1>2 DEF Views
<1>4. /\ UNCHANGED <<doc, visits, cursor, request>> /\ TopAt[doc.size][b] = b
      /\ Show(IF synced THEN to ELSE [s |-> heard, v |-> moved])
  BY DEF ScrollEditor
<1>5. here.byte = b
  BY DEF ToByte, In, TopAnchor
<1>6. Least(b, doc.size) = b
  BY <1>2 DEF Least
<1>7. seen.last = here /\ seen.frame = scroll.frame /\ seen.split = scroll.split
  BY <1>1 DEF Scrolls
<1>8. scroll' = heard /\ view' = IF synced THEN follower ELSE moved
  <2> HIDE DEF heard, moved, target
  <2>1. to = [s |-> heard, v |-> follower]
    BY SettersAreSilent
  <2> HIDE DEF to, synced, follower
  <2> QED
    BY <1>4, <2>1 DEF Show
<1>9. CASE ~Heeded(scroll, {})
  <2>1. heard = scroll
    BY <1>9 DEF Heard
  <2> QED
    BY <1>8, <2>1, NothingMoves
<1>10. CASE Heeded(scroll, {})
  <2>1. heard = seen
    BY <1>10 DEF Heard
  <2>2. ReaderGoes(here)
    BY DEF ReaderGoes
  <2> HIDE DEF here
  <2>3. scroll' = seen /\ scroll'.last = here /\ scroll'.frame = scroll.frame
        /\ scroll'.split = scroll.split
    BY <1>7, <1>8, <2>1
  <2>4. NoEcho
    BY <2>2, <2>3 DEF NoEcho
  <2>5. CASE synced
    <3> HIDE DEF moved, heard, target
    <3>1. follower.editor = b
      BY <1>3 DEF PreviewAt, Views
    <3>2. follower.preview = Least(target.y, LastHeight[heard.frame[1].regions])
      BY <1>3, ViewsApart
    <3> HIDE DEF follower
    <3>3. view'.editor = b /\ view'.preview = Least(target.y, LastHeight[scroll'.frame[1].regions])
      BY <1>8, <2>5, <3>1, <3>2
    <3>4. target = MapAnchor(scroll'.last, scroll'.frame[1].regions)
      BY <2>3 DEF target
    <3>5. scroll'.last.byte = b
      BY <1>5, <2>3
    <3>6. Agree(scroll', view', doc.path, doc.size)
      BY <1>4, <1>6, <3>3, <3>4, <3>5 DEF Agree
    <3> QED
      BY <1>4, <2>4, <3>6, SettledFollows
  <2>6. CASE ~synced
    <3>1. ~scroll.split \/ target.quality = "unavailable"
      BY <1>10, <2>6
    <3>2. target = MapAnchor(scroll'.last, scroll'.frame[1].regions)
      BY <2>3 DEF target
    <3> HIDE DEF target
    <3>3. Agree(scroll', view', doc.path, doc.size)
      BY <2>3, <3>1, <3>2 DEF Agree
    <3> QED
      BY <1>4, <2>4, <3>3, SettledFollows
  <2> QED
    BY <2>5, <2>6
<1> QED
  BY <1>9, <1>10

\* The editor stands at the place the reader scrolled the preview to.
LEMMA ScrollPreviewAgrees ==
    ASSUME NavInv, NEW y \in Heights, ScrollPreview(y) PROVE Follows /\ NoEcho
<1> DEFINE here == In(AnchorAt(y, scroll.frame[1].regions), doc.path)
           moved == [view EXCEPT !.preview = y]
           seen == [scroll EXCEPT !.last = here]
           both == EditorAt(moved, here.byte, doc.size)
<1>1. scroll \in Scrolls /\ view \in Views /\ y \in Nat
  BY NavigationAssumption DEF NavInv, ScrollFits
<1>2. /\ scroll.frame # Nothing /\ scroll' = seen
      /\ view' = IF scroll.split /\ here.quality # "unavailable" THEN both ELSE moved
      /\ UNCHANGED <<doc, visits, cursor, request>>
  BY ScrollPreviewIs
<1>3. seen.last = here /\ seen.frame = scroll.frame /\ seen.split = scroll.split
  BY <1>1 DEF Scrolls
<1>4. moved \in Views /\ moved.preview = y
  BY <1>1 DEF Views
<1>5. ReaderGoes(here)
  BY <1>2 DEF ReaderGoes
<1>6. here = In(AnchorAt(y, seen.frame[1].regions), doc.path)
  BY <1>3
<1> HIDE DEF here, moved, seen
<1>7. both.editor = TopAt[doc.size][Least(here.byte, doc.size)] /\ both.preview = y
  BY <1>4, ViewsApart
<1> HIDE DEF both
<1>8. NoEcho
  BY <1>2, <1>3, <1>5 DEF NoEcho
<1>9. CASE ~(scroll.split /\ here.quality # "unavailable")
  BY <1>2, <1>3, <1>8, <1>9, SettledFollows DEF Agree
<1>10. CASE scroll.split /\ here.quality # "unavailable"
  <2>1. /\ view'.editor = TopAt[doc.size][Least(scroll'.last.byte, doc.size)]
        /\ In(AnchorAt(view'.preview, scroll'.frame[1].regions), doc.path) = scroll'.last
    BY <1>2, <1>3, <1>6, <1>7, <1>10
  <2>2. Agree(scroll', view', doc.path, doc.size)
    BY <2>1 DEF Agree
  <2> QED
    BY <1>2, <1>8, <2>2, SettledFollows
<1> QED
  BY <1>9, <1>10

\* Both views stand at the heading he went to.
LEMMA JumpToAgrees ==
    ASSUME NavInv, NEW b \in 0 .. doc.size, JumpTo(b) PROVE Follows /\ NoEcho
<1> DEFINE j == Jumped(scroll, view, b)
<1>1. /\ b \in Nat /\ doc.path \in Paths \cup {Untitled} /\ doc.size \in Sizes \cup {0}
      /\ ScrollFits(scroll, doc.path, Token) /\ view \in Views
  BY TokenTyped DEF NavInv
<1>2. scroll' = j.s /\ view' = j.v /\ UNCHANGED doc
  BY DEF JumpTo, Show
<1>3. j.s.last = ToByte(b, doc.path) /\ Agree(j.s, j.v, doc.path, doc.size)
  BY <1>1, JumpedAgrees
<1> HIDE DEF j
<1>4. ReaderGoes(ToByte(b, doc.path))
  BY DEF ReaderGoes
<1>5. Follows
  BY <1>2, <1>3, SettledFollows
<1>6. NoEcho
  BY <1>2, <1>3, <1>4 DEF NoEcho
<1> QED
  BY <1>5, <1>6

\* A byte of another text, cut to the length of this one.
LEMMA WithinIsCut ==
    ASSUME NEW b \in Nat, NEW size \in Nat, NEW path \in Paths \cup {Untitled}
    PROVE  Within(ToByte(b, path), size) = ToByte(Least(b, size), path)
<1> DEFINE a == [TopAnchor EXCEPT !.byte = b]
           cut == [In(a, path) EXCEPT !.byte = Least(@, size)]
<1>1. /\ a.byte = b /\ a.fraction = TopAnchor.fraction /\ a.quality = TopAnchor.quality
  BY DEF TopAnchor
<1>2. TopAnchor.fraction = 0
  BY DEF TopAnchor
<1>3. Least(b, size) \in Nat /\ (b = 0 => Least(b, size) = 0)
  BY DEF Least
<1> HIDE DEF a
<1>4. /\ cut.byte = Least(b, size) /\ cut.fraction = 0 /\ cut.quality = TopAnchor.quality
      /\ In(a, path).of = IF b = 0 THEN Untitled ELSE path
  BY <1>1, <1>2 DEF In
<1> HIDE DEF cut
<1>5. In(cut, In(a, path).of)
        = [byte |-> Least(b, size), fraction |-> 0, quality |-> TopAnchor.quality,
           of |-> IF Least(b, size) = 0 THEN Untitled ELSE path]
  BY <1>3, <1>4 DEF In
<1>6. ToByte(Least(b, size), path)
        = [byte |-> Least(b, size), fraction |-> 0, quality |-> TopAnchor.quality,
           of |-> IF Least(b, size) = 0 THEN Untitled ELSE path]
  BY <1>2 DEF ToByte, In, TopAnchor
<1> QED
  BY <1>5, <1>6 DEF Within, ToByte, a, cut

\* Both views stand at the place in this document he went to.
LEMMA OpenAtAgrees ==
    ASSUME NavInv, NEW path \in Paths \cup {doc.path}, NEW b \in Sizes, NEW heading \in Headings,
           OpenAt(path, b, heading)
    PROVE  Follows /\ NoEcho
<1>1. /\ doc.size \in Nat /\ doc.size \in Sizes \cup {0} /\ doc.path \in Paths \cup {Untitled}
      /\ ScrollFits(scroll, doc.path, Token) /\ scroll \in Scrolls /\ view \in Views /\ b \in Nat
  BY TokenTyped, NavigationAssumption DEF NavInv, ScrollFits
<1>2. CASE Ask(path, Nothing, ToByte(b, path))
  BY <1>2, AskAgrees
<1>3. CASE ~Ask(path, Nothing, ToByte(b, path))
  <2> DEFINE stop == Least(b, doc.size)
             anchor == Within(ToByte(b, path), doc.size)
             there == Restored(scroll, view, anchor)
             top == SetSourceAnchor(there.s, there.v, stop, {})
             jumped == Jumped(there.s, there.v, heading[1])
             place == ToByte(IF heading = Nothing THEN stop ELSE heading[1], doc.path)
  <2>1. /\ path = doc.path
        /\ Show(IF heading = Nothing THEN top ELSE jumped)
        /\ UNCHANGED <<doc, visits, cursor, request>>
    BY <1>3 DEF OpenAt
  <2>2. ReaderGoes(place)
    BY <2>1 DEF ReaderGoes
  <2>3. stop \in Nat /\ Least(stop, doc.size) = stop
    BY <1>1 DEF Least
  <2>4. anchor = ToByte(stop, doc.path)
    BY <1>1, <2>1, WithinIsCut
  <2>5. anchor \in Places /\ Home(anchor, doc.path)
    <3> HIDE DEF anchor, stop
    <3> QED
      BY <1>1, <2>3, <2>4, ToByteIsAPlace
  <2>6. anchor.byte = stop
    <3> HIDE DEF stop
    <3>1. ToByte(stop, doc.path).byte = stop
      BY DEF ToByte, In, TopAnchor
    <3> QED
      BY <2>4, <3>1
  <2> HIDE DEF anchor, stop
  <2>7. /\ there.s.last = anchor /\ there.s \in Scrolls
        /\ ScrollFits(there.s, doc.path, Token) /\ there.v \in Views
        /\ Agree(there.s, there.v, doc.path, doc.size)
    <3>1. ScrollFits(there.s, doc.path, Token) /\ there.v \in Views
      BY <1>1, <2>5, RestoredFits
    <3>2. there.s.last = anchor
      BY <1>1, RestoredKeeps
    <3>3. Agree(there.s, there.v, doc.path, doc.size)
      BY <1>1, <2>5, RestoredAgrees
    <3> QED
      BY <3>1, <3>2, <3>3 DEF ScrollFits
  <2> HIDE DEF there
  <2>8. CASE heading = Nothing
    <3> DEFINE stopped == EditorAt(there.v, stop, doc.size)
    <3>1. top = [s |-> there.s, v |-> stopped]
      BY SettersAreSilent
    <3> HIDE DEF top
    <3>2. stopped.editor = TopAt[doc.size][stop] /\ stopped.preview = there.v.preview
      BY <2>3, <2>7, ViewsApart
    <3> HIDE DEF stopped
    <3>3. scroll' = there.s /\ view' = stopped
      BY <2>1, <2>8, <3>1 DEF Show
    <3>4. stopped.editor = TopAt[doc.size][Least(there.s.last.byte, doc.size)]
      BY <2>3, <2>6, <2>7, <3>2
    <3>5. Agree(there.s, stopped, doc.path, doc.size)
      BY <2>7, <3>2, <3>4 DEF Agree
    <3>6. Agree(scroll', view', doc.path, doc.size)
      BY <3>3, <3>5
    <3>7. scroll'.last = place
      BY <2>4, <2>7, <2>8, <3>3
    <3> HIDE DEF place
    <3>8. NoEcho
      BY <2>2, <3>7 DEF NoEcho
    <3> QED
      BY <2>1, <3>6, <3>8, SettledFollows
  <2>9. CASE heading # Nothing
    <3>1. heading[1] \in Nat
      BY <1>1, <2>9, HeadingFacts
    <3>2. /\ jumped.s.last = ToByte(heading[1], doc.path)
          /\ Agree(jumped.s, jumped.v, doc.path, doc.size)
      BY <1>1, <2>7, <3>1, JumpedAgrees
    <3> HIDE DEF jumped
    <3>3. scroll' = jumped.s /\ view' = jumped.v
      BY <2>1, <2>9 DEF Show
    <3>4. scroll'.last = place
      BY <2>9, <3>2, <3>3
    <3> HIDE DEF place
    <3>5. Agree(scroll', view', doc.path, doc.size)
      BY <3>2, <3>3
    <3>6. NoEcho
      BY <2>2, <3>4 DEF NoEcho
    <3> QED
      BY <2>1, <3>5, <3>6, SettledFollows
  <2> QED
    BY <2>8, <2>9
<1> QED
  BY <1>2, <1>3

\* Steps that show another frame or another scale.
LEMMA RescaleAgrees ==
    ASSUME NavInv, Rescale PROVE Follows /\ NoEcho
<1> DEFINE back == Restored(scroll, view, scroll.last)
<1>1. /\ doc.size \in Sizes \cup {0} /\ view \in Views
      /\ scroll \in Scrolls /\ scroll.last \in Places
  BY TokenTyped, ReaderIsHome DEF NavInv
<1>2. scroll' = back.s /\ view' = back.v /\ UNCHANGED doc
  BY DEF Rescale, Show
<1>3. back.s.last = scroll.last /\ Agree(back.s, back.v, doc.path, doc.size)
  BY <1>1, RestoredKeeps, RestoredAgrees
<1> HIDE DEF back
<1>4. Follows
  BY <1>2, <1>3, SettledFollows
<1> QED
  BY <1>2, <1>3, <1>4 DEF NoEcho

\* Another width or profile: no other place.
LEMMA RelayoutAgrees ==
    ASSUME NavInv, NEW regions \in Layouts, NEW made \in BOOLEAN, Relayout(regions, made)
    PROVE  Follows /\ NoEcho
<1> DEFINE laid == Laid(scroll, view, regions, made)
<1>1. scroll' = laid.s /\ view' = laid.v /\ UNCHANGED doc
  BY DEF Relayout, Show
<1>2. laid.s.last = scroll.last /\ Agree(laid.s, laid.v, doc.path, doc.size)
  BY LaidAgrees
<1> HIDE DEF laid
<1>3. Follows
  BY <1>1, <1>2, SettledFollows
<1> QED
  BY <1>1, <1>2, <1>3 DEF NoEcho

\* Full-size diagrams, or another scale in Wrap: no other place.
LEMMA ReformatAgrees ==
    ASSUME NavInv, NEW regions \in Layouts, NEW made \in BOOLEAN, Reformat(regions, made)
    PROVE  Follows /\ NoEcho
<1> DEFINE laid == Laid(scroll, view, regions, made)
           back == Restored(laid.s, laid.v, scroll.last)
<1>1. ScrollFits(laid.s, doc.path, Token) /\ laid.v \in Views
  BY LaidFits
<1>2. scroll' = back.s /\ view' = back.v /\ UNCHANGED doc
  BY DEF Reformat, Show
<1> HIDE DEF laid
<1>0. doc.size \in Sizes \cup {0} /\ scroll.last \in Places /\ laid.s \in Scrolls
  BY <1>1, TokenTyped, ReaderIsHome DEF NavInv, ScrollFits
<1>3. back.s.last = scroll.last /\ Agree(back.s, back.v, doc.path, doc.size)
  <2>1. back.s.last = scroll.last
    BY <1>0, RestoredKeeps
  <2>2. Agree(back.s, back.v, doc.path, doc.size)
    BY <1>0, <1>1, RestoredAgrees
  <2> QED
    BY <2>1, <2>2
<1> HIDE DEF back
<1>4. Follows
  BY <1>2, <1>3, SettledFollows
<1> QED
  BY <1>2, <1>3, <1>4 DEF NoEcho

\* A new model: no other place but a heading he had asked for.
LEMMA ParseDoneAgrees ==
    ASSUME NavInv, NEW regions \in Layouts, NEW made \in BOOLEAN, NEW heading \in Headings,
           ParseDone(regions, made, heading)
    PROVE  Follows /\ NoEcho
<1> DEFINE jumped == Jumped(scroll, view, heading[1])
           there == IF heading = Nothing THEN [s |-> scroll, v |-> view] ELSE jumped
           frame == [token |-> Token, regions |-> regions]
           asked == [Invalidated(there.s, Token) EXCEPT !.awaited = Just(frame)]
           framed == Framed(asked, there.v, frame)
<1>1. /\ doc \in Documents /\ view \in Views /\ ScrollFits(scroll, doc.path, Token)
      /\ doc.size \in Nat /\ doc.size \in Sizes \cup {0} /\ doc.path \in Paths \cup {Untitled}
  BY TokenTyped DEF NavInv
<1>2. doc'.path = doc.path /\ doc'.size = doc.size
  <2>1. doc' = [doc EXCEPT !.parsed = TRUE]
    BY DEF ParseDone
  <2> QED
    BY <2>1, <1>1 DEF Documents
<1>3. Show(IF made THEN framed ELSE [s |-> asked, v |-> there.v])
  BY DEF ParseDone
<1>4. /\ ScrollFits(there.s, doc.path, Token) /\ there.v \in Views
      /\ there.s.last # scroll.last => ReaderGoes(there.s.last)
  <2>1. CASE heading = Nothing
    BY <2>1, <1>1
  <2>2. CASE heading # Nothing
    <3>1. heading[1] \in Nat
      BY <1>1, <2>2, HeadingFacts
    <3>2. /\ ScrollFits(jumped.s, doc.path, Token) /\ jumped.v \in Views
          /\ jumped.s.last = ToByte(heading[1], doc.path)
      BY <1>1, <3>1, JumpedFits, JumpedAgrees
    <3>3. there = jumped
      BY <2>2
    <3>4. ReaderGoes(ToByte(heading[1], doc.path))
      BY <2>2 DEF ReaderGoes
    <3> HIDE DEF jumped, there
    <3> QED
      BY <3>2, <3>3, <3>4
  <2> QED
    BY <2>1, <2>2
<1> HIDE DEF there
<1>5. /\ asked.frame = Nothing /\ asked.last = there.s.last
      /\ framed.s.last = there.s.last /\ Agree(framed.s, framed.v, doc.path, doc.size)
  BY <1>1, <1>4, AskedAgrees
<1> HIDE DEF asked, framed
<1>6. scroll'.last = there.s.last /\ Agree(scroll', view', doc.path, doc.size)
  <2>1. CASE made
    <3>1. scroll' = framed.s /\ view' = framed.v
      BY <1>3, <2>1 DEF Show
    <3> QED
      BY <1>5, <3>1
  <2>2. CASE ~made
    <3>1. scroll' = asked
      BY <1>3, <2>2 DEF Show
    <3> QED
      BY <1>5, <3>1 DEF Agree
  <2> QED
    BY <2>1, <2>2
<1>7. Follows
  BY <1>2, <1>6, SettledFollows
<1> QED
  BY <1>4, <1>6, <1>7 DEF NoEcho

\* Every step.
LEMMA StepAgrees == NavInv /\ [NavNext]_navVars => [Follows /\ NoEcho]_navVars
<1> SUFFICES ASSUME NavInv, NavNext PROVE Follows /\ NoEcho
  OBVIOUS
<1>1. ASSUME NEW p \in Paths, OpenTarget(p) PROVE Follows /\ NoEcho
  BY <1>1, AskAgrees DEF OpenTarget
<1>2. ASSUME NEW p \in Paths, Saved(p) PROVE Follows /\ NoEcho
  BY <1>2, SavedAgrees
<1>3. ASSUME NEW p \in Paths \cup {doc.path}, NEW b \in Sizes, NEW heading \in Headings,
             OpenAt(p, b, heading)
      PROVE  Follows /\ NoEcho
  BY <1>3, OpenAtAgrees
<1>4. ASSUME NEW back \in BOOLEAN, Go(back) PROVE Follows /\ NoEcho
  BY <1>4, AskAgrees DEF Go
<1>5. ASSUME NEW size \in Sizes, Opened(size) PROVE Follows /\ NoEcho
  BY <1>5, OpenedAgrees
<1>6. CASE Edit
  BY <1>6, EditAgrees
<1>7. CASE NotOpened
  BY <1>7, NothingMoves DEF NotOpened
<1>8. ASSUME NEW b \in 0 .. doc.size, ScrollEditor(b) PROVE Follows /\ NoEcho
  BY <1>8, ScrollEditorAgrees
<1>9. ASSUME NEW b \in 0 .. doc.size, JumpTo(b) PROVE Follows /\ NoEcho
  BY <1>9, JumpToAgrees
<1>10. ASSUME NEW y \in Heights, ScrollPreview(y) PROVE Follows /\ NoEcho
  BY <1>10, ScrollPreviewAgrees
<1>11. ASSUME NEW split \in BOOLEAN, SetSplit(split) PROVE Follows /\ NoEcho
  <2>1. scroll \in Scrolls
    BY DEF NavInv, ScrollFits
  <2>2. scroll'.last = scroll.last /\ scroll'.frame = scroll.frame
    BY <1>11, <2>1 DEF SetSplit, Scrolls
  <2> QED
    BY <2>2, NothingMoves
<1>12. CASE Rescale
  BY <1>12, RescaleAgrees
<1>13. ASSUME NEW regions \in Layouts, NEW made \in BOOLEAN, Relayout(regions, made)
       PROVE  Follows /\ NoEcho
  BY <1>13, RelayoutAgrees
<1>14. ASSUME NEW regions \in Layouts, NEW made \in BOOLEAN, Reformat(regions, made)
       PROVE  Follows /\ NoEcho
  BY <1>14, ReformatAgrees
<1>15. ASSUME NEW regions \in Layouts, NEW made \in BOOLEAN, NEW heading \in Headings,
              ParseDone(regions, made, heading)
       PROVE  Follows /\ NoEcho
  BY <1>15, ParseDoneAgrees
<1> QED
  BY <1>1, <1>2, <1>3, <1>4, <1>5, <1>6, <1>7, <1>8, <1>9, <1>10, <1>11, <1>12, <1>13,
     <1>14, <1>15 DEF NavNext

\* ViewsAgree: whenever the reader's place changes or a frame takes it over,
\* in split mode both views stand at it, each as nearly as it can; and the
\* place changes only where the reader himself scrolls or goes, though every
\* view that is moved calls back.
THEOREM ViewsFollow == NavSpec => ViewsAgree
<1>1. NavInv /\ [NavNext]_navVars => [Follows /\ NoEcho]_navVars
  BY StepAgrees
<1> QED
  BY <1>1, NavInvariance, PTL DEF NavSpec, ViewsAgree
=============================================================================
