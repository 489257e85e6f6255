--------------------------- MODULE Panels_proofs ----------------------------
(***************************************************************************)
(* Proofs for the panels and services around the document: the file tree   *)
(* (Workspace), the preferences (Settings), the lists of the sidebar and   *)
(* the path field (Lists), view modes and scale (Zoom), the wheel (Wheel)  *)
(* and the hand in the preview (Pointer); and for Services, which has them *)
(* side by side with export and references (Services_proofs).  Each part   *)
(* states its inductive invariant, proves that every operation keeps it,   *)
(* and what it means.                                                      *)
(***************************************************************************)
EXTENDS Services, Services_proofs, SequenceTheorems, FiniteSetTheorems, TLAPS

-----------------------------------------------------------------------------
(***************************************************************************)
(* The elements of a sequence under the operations of the model.           *)
(***************************************************************************)

\* A sequence has no element exactly when it is empty.
LEMMA NoElements ==
    ASSUME NEW S, NEW s \in Seq(S)
    PROVE  /\ ToSet(<<>>) = {} /\ ToSet(s) \subseteq S
           /\ s = <<>> <=> ToSet(s) = {}
           /\ s # <<>> => Len(s) \in Nat \ {0}
<1>1. /\ Len(s) \in Nat /\ DOMAIN s = 1 .. Len(s) /\ s \in [1 .. Len(s) -> S]
      /\ s # <<>> => Len(s) \in Nat \ {0}
  BY LenProperties, EmptySeq
<1>2. DOMAIN <<>> = {}
  OBVIOUS
<1>3. s # <<>> => 1 \in DOMAIN s
  BY <1>1
<1> QED
  BY <1>1, <1>2, <1>3 DEF ToSet

\* The elements of a concatenation.
LEMMA Concatenated ==
    ASSUME NEW S, NEW s \in Seq(S), NEW t \in Seq(S)
    PROVE  s \o t \in Seq(S) /\ ToSet(s \o t) = ToSet(s) \cup ToSet(t)
<1>1. \A r : Range(r) = ToSet(r)
  BY DEF Range, ToSet
<1>2. Range(s \o t) = Range(s) \cup Range(t)
  BY RangeConcatenation
<1>3. s \o t \in Seq(S)
  BY ConcatProperties
<1> QED
  BY <1>1, <1>2, <1>3

\* One more element at the end.
LEMMA Appended ==
    ASSUME NEW S, NEW s \in Seq(S), NEW x \in S
    PROVE  /\ Append(s, x) \in Seq(S) /\ Len(Append(s, x)) = Len(s) + 1 /\ Len(s) \in Nat
           /\ ToSet(Append(s, x)) = ToSet(s) \cup {x}
<1> DEFINE t == Append(s, x)
<1>1. /\ t \in Seq(S) /\ Len(t) = Len(s) + 1 /\ Len(s) \in Nat
      /\ \A i \in 1 .. Len(s) : t[i] = s[i]
      /\ t[Len(s) + 1] = x
      /\ DOMAIN s = 1 .. Len(s) /\ DOMAIN t = 1 .. Len(t)
  BY AppendProperties, LenProperties
<1>2. DOMAIN t = 1 .. Len(s) \cup {Len(s) + 1}
  BY <1>1
<1> HIDE DEF t
<1>3. ToSet(t) = ToSet(s) \cup {x}
  BY <1>1, <1>2 DEF ToSet
<1> QED
  BY <1>1, <1>3 DEF t

\* Without its first element.
LEMMA HeadTaken ==
    ASSUME NEW S, NEW s \in Seq(S), s # <<>>
    PROVE  /\ Head(s) \in S /\ Tail(s) \in Seq(S)
           /\ ToSet(s) = {Head(s)} \cup ToSet(Tail(s))
<1> DEFINE t == Tail(s)
<1>1. /\ Head(s) \in S /\ t \in Seq(S) /\ Len(t) = Len(s) - 1 /\ Len(s) \in Nat \ {0}
      /\ \A i \in 1 .. Len(t) : t[i] = s[i + 1]
      /\ DOMAIN s = 1 .. Len(s) /\ DOMAIN t = 1 .. Len(t)
  BY HeadTailProperties, LenProperties, EmptySeq
<1>2. Head(s) = s[1] /\ 1 \in DOMAIN s
  BY <1>1
<1> HIDE DEF t
<1>3. /\ \A j \in DOMAIN s : j = 1 \/ (j - 1 \in 1 .. Len(t) /\ (j - 1) + 1 = j)
      /\ \A i \in 1 .. Len(t) : i + 1 \in DOMAIN s
  BY <1>1
<1>4. ToSet(s) \subseteq {s[1]} \cup ToSet(t)
  <2> SUFFICES ASSUME NEW j \in DOMAIN s PROVE s[j] \in {s[1]} \cup ToSet(t)
    BY DEF ToSet
  <2>1. CASE j = 1
    BY <2>1
  <2>2. CASE j # 1
    <3>1. t[j - 1] = s[j] /\ j - 1 \in DOMAIN t
      BY <1>1, <1>3, <2>2
    <3> QED
      BY <3>1 DEF ToSet
  <2> QED
    BY <2>1, <2>2
<1>5. ToSet(t) \subseteq ToSet(s) /\ s[1] \in ToSet(s)
  BY <1>1, <1>2, <1>3 DEF ToSet
<1> QED
  BY <1>1, <1>2, <1>4, <1>5 DEF t

\* A sequence is cut in two.
LEMMA CutInTwo ==
    ASSUME NEW S, NEW s \in Seq(S), NEW n \in 0 .. Len(s)
    PROVE  /\ SubSeq(s, 1, n) \in Seq(S) /\ SubSeq(s, n + 1, Len(s)) \in Seq(S)
           /\ Len(SubSeq(s, n + 1, Len(s))) = Len(s) - n /\ Len(s) \in Nat
           /\ ToSet(s) = ToSet(SubSeq(s, 1, n)) \cup ToSet(SubSeq(s, n + 1, Len(s)))
<1> DEFINE m == Len(s)  a == SubSeq(s, 1, n)  b == SubSeq(s, n + 1, m)
<1>1. m \in Nat /\ n \in Nat /\ n <= m /\ \A i \in 1 .. m : s[i] \in S
  BY LenProperties, ElementOfSeq
<1>2. n + 1 \in 1 .. m + 1 /\ n \in 1 - 1 .. m /\ m \in n .. m /\ 1 \in 1 .. m + 1 /\ n + 1 \in Int
  BY <1>1
<1> HIDE DEF m
<1>3. a \in Seq(S) /\ b \in Seq(S) /\ Len(b) = m - n
  <2>1. \A i \in 1 .. n : s[i] \in S
    BY <1>1
  <2>2. \A i \in n + 1 .. m : s[i] \in S
    BY <1>1
  <2>3. Len(b) = (IF n + 1 <= m THEN m - (n + 1) + 1 ELSE 0) /\ b \in Seq(S)
    BY <1>1, <1>2, <2>2, SubSeqProperties
  <2>4. a \in Seq(S)
    BY <1>1, <2>1, SubSeqProperties
  <2> QED
    BY <1>1, <2>3, <2>4
<1>4. a \o b = s
  BY <1>1, <1>2, ConcatAdjacentSubSeq, SubSeqFull DEF m
<1>5. ToSet(a \o b) = ToSet(a) \cup ToSet(b)
  <2> HIDE DEF a, b
  <2> QED
    BY <1>3, Concatenated
<1> QED
  BY <1>1, <1>3, <1>4, <1>5 DEF m

\* Without its last element.
LEMMA LastTaken ==
    ASSUME NEW S, NEW s \in Seq(S), s # <<>>
    PROVE  /\ Last(s) \in S /\ Front(s) \in Seq(S)
           /\ ToSet(s) = {Last(s)} \cup ToSet(Front(s))
<1> DEFINE m == Len(s)  b == SubSeq(s, m, m)
<1>1. m \in Nat \ {0} /\ m - 1 \in 0 .. m /\ (m - 1) + 1 = m /\ m \in 1 .. m /\ s[m] \in S
  BY LenProperties, EmptySeq, ElementOfSeq
<1>2. /\ SubSeq(s, 1, m - 1) \in Seq(S)
      /\ ToSet(s) = ToSet(SubSeq(s, 1, m - 1)) \cup ToSet(SubSeq(s, m, m))
  BY <1>1, CutInTwo
<1>3. ToSet(b) = {s[m]}
  <2> HIDE DEF m
  <2>1. /\ b \in Seq(S)
        /\ Len(b) = IF m <= m THEN m - m + 1 ELSE 0
        /\ \A i \in 1 .. m - m + 1 : b[i] = s[m + i - 1]
    <3>1. \A i \in m .. m : s[i] \in S
      BY <1>1
    <3> QED
      BY <1>1, <3>1, SubSeqProperties
  <2>2. Len(b) = 1 /\ b[1] = s[m]
    BY <1>1, <2>1
  <2>3. DOMAIN b = {1}
    <3> HIDE DEF b
    <3>1. DOMAIN b = 1 .. Len(b)
      BY <2>1, LenProperties
    <3> QED
      BY <2>2, <3>1
  <2> HIDE DEF b
  <2> QED
    BY <2>2, <2>3 DEF ToSet
<1> QED
  BY <1>1, <1>2, <1>3 DEF Front, Last

\* SetToSeq lists a set: every element, and nothing else.
LEMMA SetListed ==
    ASSUME NEW S, IsFiniteSet(S)
    PROVE  /\ SetToSeq(S) \in Seq(S) /\ ToSet(SetToSeq(S)) = S
           /\ \A s \in Seq(S) : /\ s \o SetToSeq(S) \in Seq(S)
                                /\ ToSet(s \o SetToSeq(S)) = ToSet(s) \cup S
<1> DEFINE n == Cardinality(S)
           f == SetToSeq(S)
<1>1. n \in Nat /\ ExistsBijection(1..n, S)
  BY FS_CardinalityType
<1>2. f \in [1..n -> S] /\ IsInjective(f)
  <2>1. \E g \in [1..n -> S] : IsInjective(g)
    BY <1>1 DEF ExistsBijection, Bijection, Injection
  <2> QED
    BY <2>1 DEF SetToSeq
<1>3. f \in Seq(S) /\ DOMAIN f = 1..n
  BY <1>1, <1>2
<1>4. f \in Surjection(1..n, S)
  <2>1. Cardinality(1..n) = Cardinality(S)
    BY <1>1, FS_Interval
  <2>2. f \in Injection(1..n, S)
    BY <1>2 DEF Injection
  <2> QED
    BY <2>1, <2>2, FS_Injection
<1>5. ToSet(f) = S
  BY <1>2, <1>3, <1>4 DEF Surjection, ToSet
<1>6. ASSUME NEW s \in Seq(S)
      PROVE  s \o f \in Seq(S) /\ ToSet(s \o f) = ToSet(s) \cup S
  <2>1. ToSet(s \o f) = ToSet(s) \cup ToSet(f) /\ s \o f \in Seq(S)
    <3> HIDE DEF f
    <3> QED
      BY <1>3, Concatenated
  <2> QED
    BY <1>5, <2>1
<1> QED
  BY <1>3, <1>5, <1>6

-----------------------------------------------------------------------------
(***************************************************************************)
(* The file tree: what lies above a path.                                  *)
(***************************************************************************)

\* Above is a recursive function; because nesting is well-founded it is the
\* least set with the path and the parents of its members.
LEMMA AboveIsLeast ==
    \A p \in Paths :
       Above[p] = {q \in Paths : \A S \in SUBSET Paths :
                      p \in S /\ (\A x \in S : Parent[x] \in S) => q \in S}
<1> DEFINE Least(p) == {q \in Paths : \A S \in SUBSET Paths :
                           p \in S /\ (\A x \in S : Parent[x] \in S) => q \in S}
           C == [p \in Paths |-> Least(p)]
           Equation(f) == f = [p \in Paths |-> IF Parent[p] = p THEN {p} ELSE {p} \cup f[Parent[p]]]
<1>1. Directories \subseteq Paths /\ \A p \in Paths : Parent[p] \in Paths
  BY WorkspaceAssumption
<1>2. ASSUME NEW p \in Paths
      PROVE  /\ p \in Least(p) /\ Least(p) \subseteq Paths /\ \A x \in Least(p) : Parent[x] \in Least(p)
             /\ \A S \in SUBSET Paths : p \in S /\ (\A x \in S : Parent[x] \in S) => Least(p) \subseteq S
  BY <1>1, <1>2
<1>3. ASSUME NEW p \in Paths
      PROVE  Least(p) = IF Parent[p] = p THEN {p} ELSE {p} \cup Least(Parent[p])
  <2>1. /\ p \in Least(p) /\ Least(p) \subseteq Paths /\ \A x \in Least(p) : Parent[x] \in Least(p)
        /\ \A S \in SUBSET Paths : p \in S /\ (\A x \in S : Parent[x] \in S) => Least(p) \subseteq S
        /\ Parent[p] \in Paths
    BY <1>1, <1>2, <1>3
  <2>2. /\ Parent[p] \in Least(Parent[p]) /\ Least(Parent[p]) \subseteq Paths
        /\ \A x \in Least(Parent[p]) : Parent[x] \in Least(Parent[p])
        /\ \A S \in SUBSET Paths : Parent[p] \in S /\ (\A x \in S : Parent[x] \in S)
                                    => Least(Parent[p]) \subseteq S
    BY <1>2, <2>1
  <2> HIDE DEF Least
  <2>3. CASE Parent[p] = p
    <3>1. {p} \in SUBSET Paths /\ p \in {p} /\ \A x \in {p} : Parent[x] \in {p}
      BY <1>3, <2>3
    <3>2. Least(p) \subseteq {p}
      BY <2>1, <3>1
    <3> QED
      BY <2>1, <2>3, <3>2
  <2>4. CASE Parent[p] # p
    <3>1. /\ {p} \cup Least(Parent[p]) \in SUBSET Paths
          /\ \A x \in {p} \cup Least(Parent[p]) : Parent[x] \in {p} \cup Least(Parent[p])
      BY <1>3, <2>2
    <3>2. Least(p) \subseteq {p} \cup Least(Parent[p])
      BY <2>1, <3>1
    <3>3. Least(Parent[p]) \subseteq Least(p)
      BY <2>1, <2>2
    <3> QED
      BY <2>1, <2>4, <3>2, <3>3
  <2> QED
    BY <2>3, <2>4
<1>4. Equation(C)
  <2> HIDE DEF Least
  <2>1. ASSUME NEW p \in Paths
        PROVE  Least(p) = IF Parent[p] = p THEN {p} ELSE {p} \cup C[Parent[p]]
    BY <1>1, <1>3, <2>1
  <2>2. C = [p \in Paths |-> IF Parent[p] = p THEN {p} ELSE {p} \cup C[Parent[p]]]
    BY <2>1
  <2> QED
    BY <2>2
<1>5. Equation(Above)
  <2>1. \E f : Equation(f)
    BY <1>4
  <2>2. Equation(CHOOSE f : Equation(f))
    <3> HIDE DEF Equation
    <3> QED
      BY <2>1
  <2>3. Above = CHOOSE f : Equation(f)
    BY DEF Above
  <2> QED
    BY <2>2, <2>3
<1>6. \A p \in Paths : Above[p] = IF Parent[p] = p THEN {p} ELSE {p} \cup Above[Parent[p]]
  BY <1>5
<1> DEFINE Wrong == {p \in Paths : Above[p] # Least(p)}
<1>7. Wrong = {}
  <2> HIDE DEF Least
  <2> SUFFICES ASSUME Wrong # {} PROVE FALSE
    OBVIOUS
  <2>1. Wrong \in SUBSET Paths
    OBVIOUS
  <2>2. PICK p \in Wrong : Parent[p] = p \/ Parent[p] \notin Wrong
    BY <2>1, WorkspaceAssumption
  <2>3. p \in Paths /\ Parent[p] \in Paths
    BY <1>1, <2>2
  <2>4. CASE Parent[p] = p
    <3>1. Above[p] = {p}
      BY <1>6, <2>3, <2>4
    <3>2. Least(p) = {p}
      BY <1>3, <2>3, <2>4
    <3> QED
      BY <2>2, <3>1, <3>2
  <2>5. CASE Parent[p] # p
    <3>1. Above[Parent[p]] = Least(Parent[p])
      BY <2>2, <2>3, <2>5
    <3>2. Above[p] = {p} \cup Above[Parent[p]]
      BY <1>6, <2>3, <2>5
    <3>3. Least(p) = {p} \cup Least(Parent[p])
      BY <1>3, <2>3, <2>5
    <3> QED
      BY <2>2, <3>1, <3>2, <3>3
  <2> QED
    BY <2>4, <2>5
<1> QED
  BY <1>7

\* A path is above itself; with a path its parent is; what is above that is
\* above the path.  Below something else, so is the parent.
LEMMA AboveFacts ==
    /\ \A p \in Paths : /\ p \in Above[p] /\ Above[p] \subseteq Paths
                        /\ Parent[p] \in Directories /\ Parent[p] \in Paths
    /\ \A p \in Paths : \A q \in Above[p] :
          /\ Parent[q] \in Above[p]
          /\ Above[q] \subseteq Above[p]
          /\ q # p => Parent[p] # p /\ q \in Above[Parent[p]]
          /\ q \notin Directories => q = p
<1>1. Directories \subseteq Paths /\ \A p \in Paths : Parent[p] \in Directories /\ Parent[p] \in Paths
  BY WorkspaceAssumption
<1>2. ASSUME NEW p \in Paths
      PROVE  /\ p \in Above[p] /\ Above[p] \subseteq Paths /\ \A x \in Above[p] : Parent[x] \in Above[p]
             /\ \A S \in SUBSET Paths : p \in S /\ (\A x \in S : Parent[x] \in S) => Above[p] \subseteq S
  BY <1>1, <1>2, AboveIsLeast
<1>3. ASSUME NEW p \in Paths, NEW q \in Above[p]
      PROVE  /\ Parent[q] \in Above[p]
             /\ Above[q] \subseteq Above[p]
             /\ q # p => Parent[p] # p /\ q \in Above[Parent[p]]
             /\ q \notin Directories => q = p
  <2>1. q \in Paths /\ Parent[p] \in Paths
    BY <1>1, <1>2, <1>3
  <2>2. Parent[q] \in Above[p] /\ Above[q] \subseteq Above[p]
    BY <1>2, <1>3, <2>1
  <2>3. ASSUME q # p PROVE Parent[p] # p /\ q \in Above[Parent[p]]
    <3>1. {p} \cup Above[Parent[p]] \in SUBSET Paths
      BY <1>2, <1>3, <2>1
    <3>2. \A x \in {p} \cup Above[Parent[p]] : Parent[x] \in {p} \cup Above[Parent[p]]
      BY <1>2, <2>1
    <3>3. q \in Above[Parent[p]]
      BY <1>2, <1>3, <2>3, <3>1, <3>2
    <3>4. Parent[p] = p => \A x \in {p} : Parent[x] \in {p}
      OBVIOUS
    <3>5. Parent[p] # p
      BY <1>2, <1>3, <2>3, <3>4
    <3> QED
      BY <3>3, <3>5
  <2>4. q \notin Directories => q = p
    <3>1. Directories \cup {p} \in SUBSET Paths /\ \A x \in Directories \cup {p} : Parent[x] \in Directories \cup {p}
      BY <1>1, <1>3
    <3>2. Above[p] \subseteq Directories \cup {p}
      BY <1>2, <3>1
    <3> QED
      BY <1>3, <3>2
  <2> QED
    BY <2>2, <2>3, <2>4
<1> QED
  BY <1>1, <1>2, <1>3

\* Between a path and a directory above it is an entry of that directory.
LEMMA EntryBetween ==
    ASSUME NEW p \in Paths, NEW d \in Above[p], d # p
    PROVE  \E c \in Above[p] : c \in Children(d)
<1> SUFFICES ASSUME \A c \in Above[p] : c \notin Children(d) PROVE FALSE
  OBVIOUS
<1> DEFINE S == Above[p] \ {d}
<1>1. p \in S /\ S \in SUBSET Paths
  BY AboveFacts
<1>2. \A x \in S : Parent[x] \in S
  <2> SUFFICES ASSUME NEW x \in S, Parent[x] = d PROVE FALSE
    BY AboveFacts
  <2>1. x \in Children(d)
    BY <1>1 DEF Children
  <2> QED
    BY <2>1
<1>3. d \in S
  <2>1. \A T \in SUBSET Paths : p \in T /\ (\A x \in T : Parent[x] \in T) => d \in T
    BY AboveIsLeast
  <2> HIDE DEF S
  <2> QED
    BY <1>1, <1>2, <2>1
<1> QED
  BY <1>3

\* The same for what lies below the work path.
LEMMA WithinFacts ==
    ASSUME NEW root \in Roots
    PROVE  /\ Within(root, root) /\ root \in Paths /\ root \in Directories
           /\ \A p \in Paths : Within(root, p) =>
                 /\ \A c \in Children(p) : Within(root, c)
                 /\ p # root => Parent[p] # p /\ Within(root, Parent[p])
           /\ \A p \in Paths, q \in Paths : q \in Above[p] /\ Within(root, q) => Within(root, p)
<1>1. root \in Paths /\ root \in Directories
  BY WorkspaceAssumption
<1>2. Within(root, root)
  BY <1>1, AboveFacts DEF Within
<1>3. ASSUME NEW p \in Paths, NEW q \in Paths, q \in Above[p], Within(root, q)
      PROVE  Within(root, p)
  BY <1>3, AboveFacts DEF Within
<1>4. ASSUME NEW p \in Paths, Within(root, p)
      PROVE  /\ \A c \in Children(p) : Within(root, c)
             /\ p # root => Parent[p] # p /\ Within(root, Parent[p])
  <2>1. ASSUME NEW c \in Children(p) PROVE Within(root, c)
    <3>1. c \in Paths /\ Parent[c] = p
      BY DEF Children
    <3>2. p \in Above[c]
      BY <3>1, AboveFacts
    <3> QED
      BY <1>3, <1>4, <3>1, <3>2
  <2>2. ASSUME p # root PROVE Parent[p] # p /\ Within(root, Parent[p])
    BY <1>4, <2>2, AboveFacts DEF Within
  <2> QED
    BY <2>1, <2>2
<1> QED
  BY <1>1, <1>2, <1>3, <1>4

\* What hangs together below the work path has everything between.
LEMMA HangsTogether ==
    ASSUME NEW root \in Roots, NEW X \in SUBSET Paths,
           \A x \in X : x = root \/ Parent[x] \in X,
           NEW f \in X, NEW d \in Above[f], Within(root, d)
    PROVE  d \in X
<1> DEFINE S == X \cup Above[root]
           Both == {x \in Above[root] : root \in Above[x]}
<1>1. root \in Paths /\ f \in Paths /\ d \in Paths /\ root \in Above[d]
  BY WithinFacts, AboveFacts DEF Within
<1>2. d \in S
  <2>1. f \in S /\ S \in SUBSET Paths /\ root \in Above[root]
    BY <1>1, AboveFacts
  <2>2. \A x \in S : Parent[x] \in S
    BY <1>1, <2>1, AboveFacts
  <2>3. \A T \in SUBSET Paths : f \in T /\ (\A x \in T : Parent[x] \in T) => d \in T
    BY <1>1, AboveIsLeast
  <2> HIDE DEF S
  <2> QED
    BY <2>1, <2>2, <2>3
<1>3. CASE d \in Above[root] /\ d # root
  <2>1. d \in Both /\ Both \in SUBSET Paths
    BY <1>1, <1>3, AboveFacts
  <2>2. PICK z \in Both : Parent[z] = z \/ Parent[z] \notin Both
    <3> HIDE DEF Both
    <3> QED
      BY <2>1, WorkspaceAssumption
  <2>3. z \in Above[root] /\ root \in Above[z] /\ z \in Paths /\ Parent[z] \in Above[root]
    BY <1>1, <2>2, AboveFacts
  <2>4. z = root
    <3> SUFFICES ASSUME z # root PROVE FALSE
      OBVIOUS
    <3>1. Parent[z] # z /\ root \in Above[Parent[z]]
      BY <2>3, AboveFacts
    <3> QED
      BY <2>2, <2>3, <3>1
  <2>5. Parent[root] # root /\ d \in Above[Parent[root]] /\ Parent[root] \in Paths
    BY <1>1, <1>3, AboveFacts
  <2>6. root \in Above[Parent[root]]
    BY <1>1, <2>5, AboveFacts
  <2> QED
    BY <2>2, <2>3, <2>4, <2>5, <2>6
<1>4. root \in X
  <2> SUFFICES ASSUME root \notin X PROVE FALSE
    OBVIOUS
  <2>1. X \in SUBSET Paths /\ \A x \in X : Parent[x] \in X
    OBVIOUS
  <2>2. d \in X
    <3>1. \A T \in SUBSET Paths : f \in T /\ (\A x \in T : Parent[x] \in T) => d \in T
      BY <1>1, AboveIsLeast
    <3> QED
      BY <2>1, <3>1
  <2>3. \A T \in SUBSET Paths : d \in T /\ (\A x \in T : Parent[x] \in T) => root \in T
    BY <1>1, AboveIsLeast
  <2> QED
    BY <2>1, <2>2, <2>3
<1> QED
  BY <1>2, <1>3, <1>4

-----------------------------------------------------------------------------
(***************************************************************************)
(* The file tree: the inductive invariant.                                 *)
(***************************************************************************)

\* What can be shown of a tree: all of it, or with a filter the files that
\* match and the directories above them.
Showable(root, filtered) ==
    {q \in Paths : Within(root, q)
                     /\ (filtered => q = root \/ \E p \in Matching : Within(root, p) /\ q \in Above[p])}

Scans == [root : Roots, filter : BOOLEAN, queue : Seq(Paths), jobs : Seq(Directories),
          working : BOOLEAN, errors : {0, 1}, cancelled : BOOLEAN]
ScanThreads == [pc : {"none", "idle", "scan"}, dirs : Seq(Directories), left : SUBSET Paths]
Trees == [root : Roots, filter : BOOLEAN, items : SUBSET Paths, requested : SUBSET Directories,
          expanded : SUBSET Directories, scanning : BOOLEAN, restoring : BOOLEAN,
          restore : SUBSET Directories, open : Paths \cup {None}]
Goals == [root : Roots, filter : BOOLEAN, restore : SUBSET Directories]

WorkShape ==
    /\ scan \in Scans /\ Len(scan.queue) <= MaxPending /\ thread \in ScanThreads /\ tree \in Trees
    /\ goal = <<>> \/ \E g \in Goals : goal = <<g>>
    /\ panel \in [path : Roots \cup {None}, filter : BOOLEAN, pending : BOOLEAN, quit : BOOLEAN]
    /\ wanted \subseteq Directories

\* The thread works on the tree on display, until it is told to stop, and a
\* scan that has ended has nothing left to do.
WorkAgrees ==
    /\ scan.root = tree.root /\ scan.filter = tree.filter
    /\ scan.cancelled <=> goal # <<>> \/ panel.quit
    /\ goal # <<>> => ~panel.quit
    /\ thread.pc = "scan" <=> scan.working
    /\ thread.pc # "scan" => thread.dirs = <<>> /\ thread.left = {}
    /\ ~tree.scanning => scan.jobs = <<>> /\ scan.queue = <<>> /\ ~scan.working

\* What is shown hangs together, and can be shown.
TreeHangs ==
    /\ tree.root \in tree.items
    /\ \A p \in tree.items : p = tree.root \/ (Within(tree.root, p) /\ Parent[p] \in tree.items)
    /\ tree.items \subseteq Showable(tree.root, tree.filter)
    /\ tree.expanded \subseteq tree.items
    /\ ~tree.filter => tree.expanded \subseteq tree.requested
    /\ tree.open \in tree.items \cup {None}

\* Everything on its way to the tree lies below its root.
WorkIsBelow ==
    /\ \A p \in ToSet(scan.queue) \cup thread.left : Within(tree.root, p)
    /\ \A d \in ToSet(scan.jobs) \cup ToSet(thread.dirs) \cup tree.requested : Within(tree.root, d)
    /\ tree.filter => ToSet(scan.queue) \subseteq Matching

\* A matching file, or a directory that was requested, has arrived or is on
\* its way.
FileComes(p) ==
    \/ p \in tree.items \cup ToSet(scan.queue)
    \/ \E a \in Above[p] : a \in ToSet(scan.jobs) \cup ToSet(thread.dirs) \cup thread.left
EntriesCome(d) ==
    \/ d \in ToSet(scan.jobs) \cup ToSet(thread.dirs)
    \/ Children(d) \subseteq tree.items \cup ToSet(scan.queue) \cup thread.left

\* Nothing is lost on its way, unless it was unreadable or the scan is being
\* stopped.
NothingLost ==
    (~scan.cancelled \/ ~tree.scanning) /\ scan.errors = 0 =>
       /\ tree.filter => \A p \in Matching : Within(tree.root, p) => FileComes(p)
       /\ ~tree.filter => \A d \in tree.requested : EntriesCome(d)

\* What was open before the refresh is open, or will be when it appears.
OpenAgain ==
    \A d \in wanted : {a \in Above[d] : Within(tree.root, a)} \subseteq wanted => d \in tree.expanded

Reopened ==
    /\ goal = <<>> =>
          /\ tree.restoring => tree.scanning
                            /\ \A d \in wanted : d \in tree.expanded \/ d \in tree.restore \ tree.items
          /\ ~tree.restoring /\ scan.errors = 0 => OpenAgain
          /\ wanted \subseteq Showable(tree.root, tree.filter)
    /\ goal # <<>> =>
          /\ wanted = goal[1].restore
          /\ wanted \subseteq Showable(goal[1].root, goal[1].filter)

WorkInv == WorkShape /\ WorkAgrees /\ TreeHangs /\ WorkIsBelow /\ NothingLost /\ Reopened

\* No thread has begun, and nothing is shown.
LEMMA WorkInitHolds == WorkInit => WorkInv
<1> SUFFICES ASSUME WorkInit PROVE WorkInv
  OBVIOUS
<1>1. PICK root \in Roots :
         /\ scan = Started(root, FALSE) /\ tree = Idle({}, FALSE, root)
         /\ thread = [NoThread EXCEPT !.pc = "idle"] /\ goal = <<>> /\ wanted = {}
         /\ panel = [path |-> None, filter |-> FALSE, pending |-> FALSE, quit |-> FALSE]
  BY DEF WorkInit
<1> USE DEF Started, Idle, NoThread
<1>2. root \in Paths /\ root \in Directories /\ Within(root, root)
  BY WithinFacts
<1>3. ToSet(scan.jobs) = {root} /\ ToSet(<<>>) = {} /\ Len(<<>>) = 0
  <2>1. DOMAIN <<root>> = {1} /\ <<root>>[1] = root /\ DOMAIN <<>> = {} /\ Len(<<>>) = 0
    OBVIOUS
  <2> QED
    BY <1>1, <2>1 DEF ToSet
<1>4. WorkShape
  <2>1. scan \in Scans /\ Len(scan.queue) <= MaxPending
    BY <1>1, <1>2, <1>3, WorkspaceAssumption DEF Scans
  <2>2. thread \in ScanThreads /\ tree \in Trees
    <3>1. <<>> \in Seq(Directories)
      BY EmptySeq
    <3>2. thread = [pc |-> "idle", dirs |-> <<>>, left |-> {}]
      BY <1>1
    <3>3. thread \in ScanThreads
      BY <3>1, <3>2 DEF ScanThreads
    <3> QED
      BY <1>1, <1>2, <3>3 DEF Trees
  <2> QED
    BY <1>1, <2>1, <2>2 DEF WorkShape
<1>5. WorkAgrees
  BY <1>1 DEF WorkAgrees
<1>6. TreeHangs
  BY <1>1, <1>2 DEF TreeHangs, Showable
<1>7. WorkIsBelow
  BY <1>1, <1>2, <1>3 DEF WorkIsBelow
<1>8. NothingLost
  BY <1>1, <1>3 DEF NothingLost, EntriesCome
<1>9. Reopened
  BY <1>1 DEF Reopened, OpenAgain
<1> QED
  BY <1>4, <1>5, <1>6, <1>7, <1>8, <1>9 DEF WorkInv

\* The tree is told to change: the thread is stopped.
LEMMA SetRootKeeps ==
    ASSUME WorkInv, NEW root \in Roots, NEW filtered \in BOOLEAN, NEW restore \in SUBSET Directories,
           restore \subseteq Showable(root, filtered),
           goal = <<>>, ~panel.quit, SetRoot(root, filtered, restore),
           panel' \in [path : Roots \cup {None}, filter : BOOLEAN, pending : BOOLEAN, quit : {FALSE}]
    PROVE  WorkInv'
<1> USE DEF WorkInv
<1>1. /\ goal' = <<[root |-> root, filter |-> filtered, restore |-> restore]>> /\ goal' # <<>>
      /\ scan' = [scan EXCEPT !.cancelled = TRUE]
      /\ tree' = [tree EXCEPT !.open = None]
      /\ wanted' = restore /\ thread' = thread /\ ~panel'.quit
  BY DEF SetRoot
<1>2. WorkShape'
  <2>1. scan' \in Scans /\ tree' \in Trees /\ scan'.queue = scan.queue
    BY <1>1 DEF WorkShape, Scans, Trees
  <2>2. \E g \in Goals : goal' = <<g>>
    BY <1>1 DEF Goals
  <2>3. panel' \in [path : Roots \cup {None}, filter : BOOLEAN, pending : BOOLEAN, quit : BOOLEAN]
    OBVIOUS
  <2> QED
    BY <1>1, <2>1, <2>2, <2>3 DEF WorkShape
<1>3. /\ scan'.root = scan.root /\ scan'.filter = scan.filter /\ scan'.queue = scan.queue
      /\ scan'.jobs = scan.jobs /\ scan'.working = scan.working /\ scan'.errors = scan.errors
      /\ scan'.cancelled
      /\ tree'.root = tree.root /\ tree'.filter = tree.filter /\ tree'.items = tree.items
      /\ tree'.requested = tree.requested /\ tree'.expanded = tree.expanded
      /\ tree'.scanning = tree.scanning /\ tree'.open = None
  BY <1>1 DEF WorkShape, Scans, Trees
<1>4. WorkAgrees'
  BY <1>1, <1>3 DEF WorkAgrees
<1>5. TreeHangs'
  BY <1>3 DEF TreeHangs
<1>6. WorkIsBelow' /\ NothingLost'
  BY <1>1, <1>3 DEF WorkIsBelow, NothingLost, FileComes, EntriesCome
<1>7. Reopened'
  BY <1>1 DEF Reopened
<1> QED
  BY <1>2, <1>4, <1>5, <1>6, <1>7

\* Commands that only note what to do, and those that stop the thread.
LEMMA CommandKeeps ==
    ASSUME WorkInv,
           \/ ApplyFilter \/ Filter \/ OnRefresh \/ (\E r \in Roots : RequestWorkPath(r))
           \/ (\E listed \in BOOLEAN : SetWorkPath(listed))
    PROVE  WorkInv'
<1> DEFINE PanelOnly == /\ panel' \in [path : Roots \cup {None}, filter : BOOLEAN, pending : BOOLEAN,
                                       quit : BOOLEAN]
                        /\ panel'.quit = panel.quit
                        /\ scan' = scan /\ thread' = thread /\ tree' = tree /\ goal' = goal
                        /\ wanted' = wanted
           Panels == [path : Roots \cup {None}, filter : BOOLEAN, pending : BOOLEAN, quit : {FALSE}]
<1>1. /\ tree.root \in Roots /\ tree.filter \in BOOLEAN /\ tree.expanded \in SUBSET Directories
      /\ panel \in [path : Roots \cup {None}, filter : BOOLEAN, pending : BOOLEAN, quit : BOOLEAN]
      /\ tree.expanded \subseteq Showable(tree.root, tree.filter)
      /\ {} \in SUBSET Directories /\ \A root, filtered : {} \subseteq Showable(root, filtered)
  BY DEF WorkInv, WorkShape, Trees, TreeHangs
<1>2. ASSUME PanelOnly PROVE WorkInv'
  <2>1. WorkShape' /\ WorkAgrees'
    BY <1>2 DEF WorkInv, WorkShape, WorkAgrees
  <2>2. TreeHangs' /\ WorkIsBelow' /\ NothingLost' /\ Reopened'
    BY <1>2 DEF WorkInv, TreeHangs, WorkIsBelow, NothingLost, FileComes, EntriesCome, Reopened, OpenAgain
  <2> QED
    BY <2>1, <2>2 DEF WorkInv
<1>3. CASE Filter \/ (\E r \in Roots : RequestWorkPath(r))
  <2>1. PanelOnly
    BY <1>1, <1>3 DEF Filter, RequestWorkPath
  <2> QED
    BY <1>2, <2>1
<1>4. CASE ApplyFilter
  <2>1. /\ goal = <<>> /\ ~panel.quit /\ SetRoot(tree.root, panel.filter, {})
        /\ panel' \in Panels /\ panel.filter \in BOOLEAN
    BY <1>1, <1>4 DEF ApplyFilter, Responsive
  <2> QED
    BY <1>1, <2>1, SetRootKeeps
<1>5. CASE OnRefresh
  <2>1. goal = <<>> /\ ~panel.quit /\ SetRoot(tree.root, tree.filter, tree.expanded) /\ panel' \in Panels
    BY <1>1, <1>5 DEF OnRefresh, Responsive
  <2> QED
    BY <1>1, <2>1, SetRootKeeps
<1>6. CASE \E listed \in BOOLEAN : SetWorkPath(listed)
  <2>1. PICK listed \in BOOLEAN : SetWorkPath(listed)
    BY <1>6
  <2>2. CASE listed
    <3>1. /\ goal = <<>> /\ ~panel.quit /\ SetRoot(panel.path, tree.filter, {})
          /\ panel' \in Panels /\ panel.path \in Roots
      BY <1>1, <2>1, <2>2 DEF SetWorkPath, Responsive
    <3> QED
      BY <1>1, <3>1, SetRootKeeps
  <2>3. CASE ~listed
    <3>1. PanelOnly
      BY <1>1, <2>1, <2>3 DEF SetWorkPath
    <3> QED
      BY <1>2, <3>1
  <2> QED
    BY <2>2, <2>3
<1> QED
  BY <1>3, <1>4, <1>5, <1>6

\* The thread is gone: another one begins with the root alone.
LEMMA JoinedKeeps == ASSUME WorkInv, Joined PROVE WorkInv'
<1> USE DEF WorkInv
<1>1. PICK g \in Goals : goal = <<g>>
  BY DEF WorkShape, Joined
<1>2. /\ goal[1] = g /\ g.root \in Roots /\ g.filter \in BOOLEAN /\ g.restore \in SUBSET Directories
      /\ goal' = <<>> /\ wanted' = wanted /\ panel' = panel
      /\ scan' = Started(g.root, g.filter) /\ tree' = Idle(g.restore, g.filter, g.root)
      /\ thread' = [pc |-> "idle", dirs |-> <<>>, left |-> {}]
      /\ wanted = g.restore /\ wanted \subseteq Showable(g.root, g.filter) /\ ~panel.quit
  BY <1>1 DEF Goals, Joined, NoThread, Reopened, WorkAgrees
<1>3. g.root \in Paths /\ g.root \in Directories /\ Within(g.root, g.root)
  BY <1>2, WithinFacts
<1>4. /\ scan'.root = g.root /\ scan'.filter = g.filter /\ scan'.queue = <<>> /\ scan'.jobs = <<g.root>>
      /\ ~scan'.working /\ scan'.errors = 0 /\ ~scan'.cancelled
      /\ tree'.root = g.root /\ tree'.filter = g.filter /\ tree'.items = {g.root}
      /\ tree'.requested = {g.root} /\ tree'.expanded = {g.root} /\ tree'.scanning
      /\ tree'.restoring = (g.restore # {}) /\ tree'.restore = g.restore /\ tree'.open = None
      /\ thread'.pc = "idle" /\ thread'.dirs = <<>> /\ thread'.left = {}
  BY <1>2 DEF Started, Idle
<1>5. ToSet(<<g.root>>) = {g.root} /\ ToSet(<<>>) = {} /\ Len(<<>>) = 0
  <2>1. DOMAIN <<g.root>> = {1} /\ <<g.root>>[1] = g.root /\ DOMAIN <<>> = {} /\ Len(<<>>) = 0
    OBVIOUS
  <2> QED
    BY <2>1 DEF ToSet
<1>6. WorkShape'
  <2>1. scan' \in Scans /\ Len(scan'.queue) <= MaxPending
    BY <1>2, <1>3, <1>5, WorkspaceAssumption DEF Scans, Started
  <2>2. thread' \in ScanThreads
    BY <1>2, EmptySeq DEF ScanThreads
  <2>3. tree' \in Trees
    BY <1>2, <1>3 DEF Trees, Idle
  <2> QED
    BY <1>2, <2>1, <2>2, <2>3 DEF WorkShape
<1>7. WorkAgrees'
  BY <1>2, <1>4 DEF WorkAgrees
<1>8. TreeHangs'
  BY <1>3, <1>4 DEF TreeHangs, Showable
<1>9. WorkIsBelow'
  BY <1>3, <1>4, <1>5 DEF WorkIsBelow
<1>10. NothingLost'
  <2>1. ASSUME NEW p \in Matching, Within(g.root, p) PROVE FileComes(p)'
    BY <1>4, <1>5, <2>1 DEF FileComes, Within
  <2>2. EntriesCome(g.root)'
    BY <1>4, <1>5 DEF EntriesCome
  <2> QED
    BY <1>4, <2>1, <2>2 DEF NothingLost
<1>11. Reopened'
  BY <1>2, <1>4 DEF Reopened, OpenAgain
<1> QED
  BY <1>6, <1>7, <1>8, <1>9, <1>10, <1>11

\* What the reader does in the tree.
LEMMA ReaderKeeps ==
    ASSUME WorkInv,
           \/ OnActivate \/ Quit
           \/ \E p \in Paths : Collapse(p) \/ Click(p)
    PROVE  WorkInv'
<1> USE DEF WorkInv
<1>1. CASE Quit
  <2>1. /\ scan'.root = scan.root /\ scan'.filter = scan.filter /\ scan'.queue = scan.queue
        /\ scan'.jobs = scan.jobs /\ scan'.working = scan.working /\ scan'.errors = scan.errors
        /\ scan'.cancelled /\ scan' \in Scans /\ panel'.quit /\ goal = <<>>
        /\ panel' \in [path : Roots \cup {None}, filter : BOOLEAN, pending : BOOLEAN, quit : BOOLEAN]
        /\ thread' = thread /\ tree' = tree /\ goal' = goal /\ wanted' = wanted
    BY <1>1 DEF Quit, Responsive, WorkShape, Scans
  <2>2. WorkShape' /\ WorkAgrees' /\ TreeHangs'
    BY <2>1 DEF WorkShape, WorkAgrees, TreeHangs
  <2>3. WorkIsBelow' /\ NothingLost' /\ Reopened'
    BY <2>1 DEF WorkIsBelow, NothingLost, FileComes, EntriesCome, Reopened, OpenAgain
  <2> QED
    BY <2>2, <2>3
<1>2. CASE OnActivate \/ \E p \in Paths : Click(p)
  <2>1. /\ scan' = scan /\ thread' = thread /\ goal' = goal /\ panel' = panel /\ wanted' = wanted
        /\ \E f \in tree.items \cup {None} : tree' = [tree EXCEPT !.open = f]
    BY <1>2 DEF OnActivate, Click
  <2>2. /\ tree' \in Trees
        /\ tree'.root = tree.root /\ tree'.filter = tree.filter /\ tree'.items = tree.items
        /\ tree'.requested = tree.requested /\ tree'.expanded = tree.expanded
        /\ tree'.scanning = tree.scanning /\ tree'.restoring = tree.restoring
        /\ tree'.restore = tree.restore /\ tree'.open \in tree.items \cup {None}
    BY <2>1 DEF WorkShape, Trees
  <2>3. WorkShape' /\ WorkAgrees' /\ TreeHangs'
    BY <2>1, <2>2 DEF WorkShape, WorkAgrees, TreeHangs
  <2>4. WorkIsBelow' /\ NothingLost' /\ Reopened'
    BY <2>1, <2>2 DEF WorkIsBelow, NothingLost, FileComes, EntriesCome, Reopened, OpenAgain
  <2> QED
    BY <2>3, <2>4
<1>3. CASE \E p \in Paths : Collapse(p)
  <2>1. PICK d \in Paths :
           /\ scan' = scan /\ thread' = thread /\ goal' = goal /\ panel' = panel /\ goal = <<>>
           /\ wanted' = wanted \ {d}
           /\ tree' = [tree EXCEPT !.expanded = @ \ {d}]
    BY <1>3 DEF Collapse, Responsive
  <2>2. /\ tree' \in Trees
        /\ tree'.root = tree.root /\ tree'.filter = tree.filter /\ tree'.items = tree.items
        /\ tree'.requested = tree.requested /\ tree'.expanded = tree.expanded \ {d}
        /\ tree'.scanning = tree.scanning /\ tree'.restoring = tree.restoring
        /\ tree'.restore = tree.restore /\ tree'.open = tree.open
    BY <2>1 DEF WorkShape, Trees
  <2>3. WorkShape' /\ WorkAgrees' /\ TreeHangs'
    BY <2>1, <2>2 DEF WorkShape, WorkAgrees, TreeHangs
  <2>4. WorkIsBelow' /\ NothingLost'
    BY <2>1, <2>2 DEF WorkIsBelow, NothingLost, FileComes, EntriesCome
  <2>5. Reopened'
    <3>1. OpenAgain => OpenAgain'
      BY <2>1, <2>2 DEF OpenAgain
    <3> QED
      BY <2>1, <2>2, <3>1 DEF Reopened
  <2> QED
    BY <2>3, <2>4, <2>5
<1> QED
  BY <1>1, <1>2, <1>3

\* A directory is opened; it is listed unless it was, or a filter is active.
LEMMA ExpandKeeps == ASSUME WorkInv, NEW d \in Paths, Expand(d) PROVE WorkInv'
<1> USE DEF WorkInv
<1> DEFINE new == ~tree.filter /\ d \notin tree.requested
<1>1. /\ goal = <<>> /\ ~panel.quit /\ ~scan.cancelled /\ d \in tree.items /\ d \in Directories
      /\ thread' = thread /\ goal' = goal /\ panel' = panel /\ wanted' = wanted
  BY DEF Expand, Responsive, WorkAgrees
<1>a. /\ tree' = [Expanded(tree, {d}) EXCEPT !.scanning = @ \/ new]
      /\ scan' = IF new THEN [scan EXCEPT !.jobs = Append(@, d)] ELSE scan
  BY DEF Expand
<1>2. /\ tree' \in Trees
      /\ tree'.root = tree.root /\ tree'.filter = tree.filter /\ tree'.items = tree.items
      /\ tree'.requested = IF tree.filter THEN tree.requested ELSE tree.requested \cup {d}
      /\ tree'.expanded = tree.expanded \cup {d}
      /\ tree'.scanning = (tree.scanning \/ new) /\ tree'.restoring = tree.restoring
      /\ tree'.restore = tree.restore /\ tree'.open = tree.open
  BY <1>1, <1>a DEF WorkShape, Trees, Expanded
<1>3. /\ scan' \in Scans
      /\ scan'.root = scan.root /\ scan'.filter = scan.filter /\ scan'.queue = scan.queue
      /\ scan'.working = scan.working /\ scan'.errors = scan.errors /\ scan'.cancelled = scan.cancelled
      /\ ToSet(scan'.jobs) = IF new THEN ToSet(scan.jobs) \cup {d} ELSE ToSet(scan.jobs)
      /\ ~new => scan'.jobs = scan.jobs
  <2>1. scan.jobs \in Seq(Directories)
    BY DEF WorkShape, Scans
  <2>2. /\ Append(scan.jobs, d) \in Seq(Directories)
        /\ ToSet(Append(scan.jobs, d)) = ToSet(scan.jobs) \cup {d}
    BY <1>1, <2>1, Appended
  <2> HIDE DEF new
  <2> QED
    BY <1>1, <1>a, <2>2 DEF WorkShape, Scans
<1>4. WorkShape'
  BY <1>1, <1>2, <1>3 DEF WorkShape
<1>5. WorkAgrees'
  BY <1>1, <1>2, <1>3 DEF WorkAgrees
<1>6. TreeHangs'
  <2> HIDE DEF new
  <2> QED
    BY <1>1, <1>2 DEF TreeHangs
<1>7. WorkIsBelow'
  <2>1. Within(tree.root, d)
    BY <1>1 DEF TreeHangs, Showable
  <2> QED
    BY <1>1, <1>2, <1>3, <2>1 DEF WorkIsBelow
<1>8. NothingLost'
  <2>1. CASE tree.filter
    BY <1>1, <1>2, <1>3, <2>1 DEF NothingLost, FileComes
  <2>2. CASE ~tree.filter
    BY <1>1, <1>2, <1>3, <2>2 DEF NothingLost, EntriesCome
  <2> QED
    BY <2>1, <2>2
<1>9. Reopened'
  <2>1. OpenAgain => OpenAgain'
    BY <1>1, <1>2 DEF OpenAgain
  <2> QED
    BY <1>1, <1>2, <1>3, <2>1 DEF Reopened
<1> QED
  BY <1>4, <1>5, <1>6, <1>7, <1>8, <1>9

\* The thread starts a job, ends one, or leaves.
LEMMA JobKeeps == ASSUME WorkInv, Leave \/ Begin \/ EndJob PROVE WorkInv'
<1> USE DEF WorkInv
<1>1. /\ ToSet(<<>>) = {} /\ scan.jobs \in Seq(Directories) /\ <<>> \in Seq(Directories)
      /\ thread.dirs \in Seq(Directories)
  BY NoElements, EmptySeq DEF WorkShape, Scans, ScanThreads
<1>2. CASE Leave
  <2>1. /\ scan' = scan /\ tree' = tree /\ goal' = goal /\ panel' = panel /\ wanted' = wanted
        /\ thread' = [pc |-> "none", dirs |-> <<>>, left |-> {}]
        /\ thread.dirs = <<>> /\ thread.left = {} /\ thread.pc = "idle"
    BY <1>2 DEF Leave, ThreadOnly, NoThread, WorkAgrees
  <2>2. WorkShape' /\ WorkAgrees'
    BY <1>1, <2>1 DEF WorkShape, WorkAgrees, ScanThreads
  <2>3. TreeHangs' /\ WorkIsBelow' /\ NothingLost' /\ Reopened'
    BY <2>1 DEF TreeHangs, WorkIsBelow, NothingLost, FileComes, EntriesCome, Reopened, OpenAgain
  <2> QED
    BY <2>2, <2>3
<1>3. CASE Begin
  <2> DEFINE d == Head(scan.jobs)
  <2>1. /\ tree' = tree /\ goal' = goal /\ panel' = panel /\ wanted' = wanted
        /\ thread' = [pc |-> "scan", dirs |-> <<d>>, left |-> {}]
        /\ scan' = [scan EXCEPT !.jobs = Tail(@), !.working = TRUE]
        /\ thread.dirs = <<>> /\ thread.left = {} /\ scan.jobs # <<>> /\ ~scan.cancelled
    BY <1>3 DEF Begin, WorkAgrees
  <2>2. /\ d \in Directories /\ Tail(scan.jobs) \in Seq(Directories)
        /\ ToSet(scan.jobs) = {d} \cup ToSet(Tail(scan.jobs))
    BY <1>1, <2>1, HeadTaken
  <2> HIDE DEF d
  <2>3. ToSet(<<d>>) = {d} /\ <<d>> \in Seq(Directories)
    <3>1. DOMAIN <<d>> = {1} /\ <<d>>[1] = d
      OBVIOUS
    <3> QED
      BY <2>2, <3>1 DEF ToSet
  <2>4. /\ scan' \in Scans
        /\ scan'.root = scan.root /\ scan'.filter = scan.filter /\ scan'.queue = scan.queue
        /\ scan'.working /\ scan'.errors = scan.errors /\ scan'.cancelled = scan.cancelled
        /\ scan'.jobs = Tail(scan.jobs)
        /\ thread' \in ScanThreads
        /\ thread'.pc = "scan" /\ thread'.dirs = <<d>> /\ thread'.left = {}
    BY <2>1, <2>2, <2>3 DEF WorkShape, Scans, ScanThreads
  <2>5. WorkShape' /\ WorkAgrees' /\ TreeHangs'
    BY <2>1, <2>4 DEF WorkShape, WorkAgrees, TreeHangs
  <2>6. ToSet(scan'.jobs) \cup ToSet(thread'.dirs) = ToSet(scan.jobs) \cup ToSet(thread.dirs)
    BY <1>1, <2>1, <2>2, <2>3, <2>4
  <2>7. WorkIsBelow' /\ NothingLost' /\ Reopened'
    BY <2>1, <2>4, <2>6 DEF WorkIsBelow, NothingLost, FileComes, EntriesCome, Reopened, OpenAgain
  <2> QED
    BY <2>5, <2>7
<1>4. CASE EndJob
  <2>1. /\ tree' = tree /\ goal' = goal /\ panel' = panel /\ wanted' = wanted
        /\ thread' = [pc |-> "idle", dirs |-> <<>>, left |-> {}]
        /\ scan' = [scan EXCEPT !.working = FALSE]
        /\ thread.left = {} /\ (thread.dirs = <<>> \/ scan.cancelled)
        /\ scan.working /\ tree.scanning
    BY <1>4 DEF EndJob, NoThread, WorkAgrees
  <2>2. /\ scan' \in Scans
        /\ scan'.root = scan.root /\ scan'.filter = scan.filter /\ scan'.queue = scan.queue
        /\ scan'.jobs = scan.jobs /\ ~scan'.working /\ scan'.errors = scan.errors
        /\ scan'.cancelled = scan.cancelled
        /\ thread' \in ScanThreads
        /\ thread'.pc = "idle" /\ thread'.dirs = <<>> /\ thread'.left = {}
    BY <1>1, <2>1 DEF WorkShape, Scans, ScanThreads
  <2>3. WorkShape' /\ WorkAgrees' /\ TreeHangs'
    BY <2>1, <2>2 DEF WorkShape, WorkAgrees, TreeHangs
  <2>4. WorkIsBelow' /\ NothingLost' /\ Reopened'
    BY <1>1, <2>1, <2>2 DEF WorkIsBelow, NothingLost, FileComes, EntriesCome, Reopened, OpenAgain
  <2> QED
    BY <2>3, <2>4
<1> QED
  BY <1>2, <1>3, <1>4

\* A directory is read: its entries take its place.
LEMMA ListKeeps == ASSUME WorkInv, NEW readable \in BOOLEAN, List(readable) PROVE WorkInv'
<1> USE DEF WorkInv
<1> DEFINE d == Last(thread.dirs)
           dirs == Front(thread.dirs)
           left == IF readable THEN Children(d) ELSE {}
<1>1. /\ tree' = tree /\ goal' = goal /\ panel' = panel /\ wanted' = wanted
      /\ thread' = [thread EXCEPT !.dirs = dirs, !.left = left]
      /\ scan' = IF readable THEN scan ELSE [scan EXCEPT !.errors = 1]
      /\ thread.pc = "scan" /\ thread.left = {} /\ thread.dirs # <<>> /\ ~scan.cancelled
  BY DEF List
<1>2. /\ d \in Directories /\ dirs \in Seq(Directories) /\ ToSet(thread.dirs) = {d} \cup ToSet(dirs)
  <2>1. thread.dirs \in Seq(Directories)
    BY DEF WorkShape, ScanThreads
  <2> QED
    BY <1>1, <2>1, LastTaken
<1>3. left \in SUBSET Paths /\ d \in Paths
  BY <1>2, WorkspaceAssumption DEF Children
<1> HIDE DEF d, dirs
<1>4. /\ scan' \in Scans
      /\ scan'.root = scan.root /\ scan'.filter = scan.filter /\ scan'.queue = scan.queue
      /\ scan'.jobs = scan.jobs /\ scan'.working = scan.working /\ scan'.cancelled = scan.cancelled
      /\ scan'.errors = IF readable THEN scan.errors ELSE 1
      /\ thread' \in ScanThreads
      /\ thread'.pc = "scan" /\ thread'.dirs = dirs /\ thread'.left = left
  BY <1>1, <1>2, <1>3 DEF WorkShape, Scans, ScanThreads
<1>5. WorkShape' /\ WorkAgrees' /\ TreeHangs'
  BY <1>1, <1>4 DEF WorkShape, WorkAgrees, TreeHangs
<1>6. WorkIsBelow'
  <2>1. Within(tree.root, d) /\ tree.root \in Roots
    BY <1>2 DEF WorkIsBelow, WorkShape, Trees
  <2>2. \A p \in left : Within(tree.root, p)
    BY <1>3, <2>1, WithinFacts
  <2> HIDE DEF left
  <2> QED
    BY <1>1, <1>2, <1>4, <2>2 DEF WorkIsBelow
<1>7. NothingLost'
  <2> SUFFICES ASSUME readable, scan.errors = 0
               PROVE  NothingLost'
    BY <1>4 DEF NothingLost
  <2>1. /\ tree.filter => \A p \in Matching : Within(tree.root, p) => FileComes(p)
        /\ ~tree.filter => \A e \in tree.requested : EntriesCome(e)
    BY <1>1 DEF NothingLost
  <2>2. ASSUME NEW p \in Matching, FileComes(p) PROVE FileComes(p)'
    <3>1. p \in Paths /\ p \notin Directories
      BY WorkspaceAssumption
    <3>2. CASE d \in Above[p]
      <4>1. PICK c \in Above[p] : c \in Children(d)
        BY <1>2, <3>1, <3>2, EntryBetween
      <4> QED
        BY <1>4, <4>1 DEF FileComes
    <3>3. CASE d \notin Above[p]
      BY <1>1, <1>2, <1>4, <2>2, <3>3 DEF FileComes
    <3> QED
      BY <3>2, <3>3
  <2>3. ASSUME NEW e \in tree.requested, EntriesCome(e) PROVE EntriesCome(e)'
    <3>1. CASE e = d
      BY <1>4, <3>1 DEF EntriesCome
    <3>2. CASE e # d
      BY <1>1, <1>2, <1>4, <2>3, <3>2 DEF EntriesCome
    <3> QED
      BY <3>1, <3>2
  <2> QED
    BY <1>1, <2>1, <2>2, <2>3 DEF NothingLost
<1>8. Reopened'
  BY <1>1, <1>4 DEF Reopened, OpenAgain
<1> QED
  BY <1>5, <1>6, <1>7, <1>8

\* An entry is shown, descended into or passed over.
LEMMA EntryKeeps == ASSUME WorkInv, NEW p \in Paths, Entry(p) PROVE WorkInv'
<1> USE DEF WorkInv
<1> DEFINE descend == p \in Directories /\ scan.filter
           shown == ~descend /\ (p \in Directories \/ ~scan.filter \/ p \in Matching)
           left == IF scan.cancelled THEN {} ELSE thread.left \ {p}
           dirs == IF descend THEN Append(thread.dirs, p) ELSE thread.dirs
           queue == IF shown /\ ~scan.cancelled THEN Append(scan.queue, p) ELSE scan.queue
<1>1. /\ tree' = tree /\ goal' = goal /\ panel' = panel /\ wanted' = wanted
      /\ thread' = [thread EXCEPT !.left = left, !.dirs = dirs]
      /\ scan' = IF shown /\ ~scan.cancelled THEN [scan EXCEPT !.queue = Append(@, p)] ELSE scan
      /\ thread.pc = "scan" /\ p \in thread.left
      /\ shown /\ ~scan.cancelled => Len(scan.queue) < MaxPending
      /\ tree.scanning /\ scan.filter = tree.filter /\ Within(tree.root, p)
  BY DEF Entry, Admitted, WorkAgrees, WorkIsBelow
<1>2. /\ dirs \in Seq(Directories)
      /\ ToSet(dirs) = IF descend THEN ToSet(thread.dirs) \cup {p} ELSE ToSet(thread.dirs)
  <2>1. thread.dirs \in Seq(Directories)
    BY DEF WorkShape, ScanThreads
  <2>2. CASE descend
    BY <2>1, <2>2, Appended
  <2>3. CASE ~descend
    BY <2>1, <2>3
  <2> QED
    BY <2>2, <2>3
<1>3. /\ queue \in Seq(Paths) /\ Len(queue) <= MaxPending
      /\ ToSet(queue) = IF shown /\ ~scan.cancelled THEN ToSet(scan.queue) \cup {p} ELSE ToSet(scan.queue)
  <2>1. scan.queue \in Seq(Paths) /\ Len(scan.queue) <= MaxPending /\ MaxPending \in Nat
    BY WorkspaceAssumption DEF WorkShape, Scans
  <2>2. CASE shown /\ ~scan.cancelled
    <3>1. /\ Append(scan.queue, p) \in Seq(Paths) /\ Len(Append(scan.queue, p)) = Len(scan.queue) + 1
          /\ Len(scan.queue) \in Nat
          /\ ToSet(Append(scan.queue, p)) = ToSet(scan.queue) \cup {p}
      BY <2>1, Appended
    <3>2. queue = Append(scan.queue, p) /\ Len(scan.queue) < MaxPending
      BY <1>1, <2>2
    <3> HIDE DEF queue, shown
    <3> QED
      BY <2>1, <2>2, <3>1, <3>2
  <2>3. CASE ~(shown /\ ~scan.cancelled)
    BY <2>1, <2>3
  <2> QED
    BY <2>2, <2>3
<1>4. /\ scan' = [scan EXCEPT !.queue = queue] /\ left \in SUBSET Paths
  BY <1>1 DEF WorkShape, Scans, ScanThreads
<1> HIDE DEF dirs, queue
<1>5. /\ scan' \in Scans
      /\ scan'.root = scan.root /\ scan'.filter = scan.filter /\ scan'.queue = queue
      /\ scan'.jobs = scan.jobs /\ scan'.working = scan.working /\ scan'.cancelled = scan.cancelled
      /\ scan'.errors = scan.errors
      /\ thread' \in ScanThreads
      /\ thread'.pc = "scan" /\ thread'.dirs = dirs /\ thread'.left = left
  <2> HIDE DEF left
  <2> QED
    BY <1>1, <1>2, <1>3, <1>4 DEF WorkShape, Scans, ScanThreads
<1>b. /\ tree' = tree /\ goal' = goal /\ panel' = panel /\ wanted' = wanted
      /\ thread.pc = "scan" /\ p \in thread.left
      /\ tree.scanning /\ scan.filter = tree.filter /\ Within(tree.root, p)
  BY <1>1
<1>6. WorkShape' /\ WorkAgrees' /\ TreeHangs'
  BY <1>1, <1>3, <1>5 DEF WorkShape, WorkAgrees, TreeHangs
<1>7. WorkIsBelow'
  BY <1>b, <1>2, <1>3, <1>5 DEF WorkIsBelow
<1>8. NothingLost'
  <2> SUFFICES ASSUME ~scan.cancelled, scan.errors = 0
               PROVE  NothingLost'
    BY <1>b, <1>5 DEF NothingLost
  <2>1. /\ tree.filter => \A f \in Matching : Within(tree.root, f) => FileComes(f)
        /\ ~tree.filter => \A e \in tree.requested : EntriesCome(e)
    BY <1>b DEF NothingLost
  <2>2. ASSUME tree.filter, NEW f \in Matching, FileComes(f) PROVE FileComes(f)'
    <3>1. f \in Paths /\ f \notin Directories
      BY WorkspaceAssumption
    <3>2. CASE p \in Above[f]
      <4>1. CASE p \in Directories
        BY <1>b, <1>2, <1>5, <2>2, <3>2, <4>1 DEF FileComes
      <4>2. CASE p \notin Directories
        <5>1. p = f
          BY <3>1, <3>2, <4>2, AboveFacts
        <5>2. shown
          BY <4>2, <5>1
        <5>3. f \in ToSet(queue)
          BY <1>3, <5>1, <5>2
        <5>4. f \in ToSet(scan'.queue)
          BY <1>5, <5>3
        <5> QED
          BY <1>b, <5>4 DEF FileComes
      <4> QED
        BY <4>1, <4>2
    <3>3. CASE p \notin Above[f]
      BY <1>b, <1>2, <1>3, <1>5, <2>2, <3>3 DEF FileComes
    <3> QED
      BY <3>2, <3>3
  <2>3. ASSUME ~tree.filter, NEW e \in tree.requested, EntriesCome(e) PROVE EntriesCome(e)'
    BY <1>b, <1>2, <1>3, <1>5, <2>3 DEF EntriesCome
  <2> QED
    BY <1>b, <1>5, <2>1, <2>2, <2>3 DEF NothingLost
<1>9. Reopened'
  BY <1>b, <1>5 DEF Reopened, OpenAgain
<1> QED
  BY <1>6, <1>7, <1>8, <1>9

\* A batch is added to the tree, and what was open in it is opened.  The
\* search ends with every ancestor on display: the topmost wanted directory
\* that is still closed would be an entry of an open one, so that it is on
\* display and has just been opened.
LEMMA PollKeeps == ASSUME WorkInv, Poll PROVE WorkInv'
<1> USE DEF WorkInv
<1> DEFINE n == IF Len(scan.queue) < MaxBatch THEN Len(scan.queue) ELSE MaxBatch
           batch == {p \in ToSet(SubSeq(scan.queue, 1, n)) : Within(tree.root, p)}
           queue == SubSeq(scan.queue, n + 1, Len(scan.queue))
           items == tree.items \cup {q \in Paths : Within(tree.root, q) /\ \E p \in batch : q \in Above[p]}
           again == IF tree.restoring THEN tree.restore \cap items ELSE {}
           grown == Expanded([tree EXCEPT !.items = items], again)
           requested == IF tree.filter THEN tree.requested ELSE tree.requested \cup again
           new == requested \ tree.requested
           done == ~Busy(queue) /\ new = {}
           jobs == scan.jobs \o SetToSeq(new)
           restore == IF done THEN {} ELSE tree.restore \ again
<1>1. /\ goal = <<>> /\ ~panel.quit /\ ~scan.cancelled
      /\ thread' = thread /\ goal' = goal /\ panel' = panel /\ wanted' = wanted
      /\ tree.root \in Roots /\ tree.filter \in BOOLEAN /\ scan.filter = tree.filter /\ scan.root = tree.root
  BY DEF Poll, Responsive, WorkAgrees, WorkShape, Trees
<1>2. /\ queue \in Seq(Paths) /\ Len(queue) <= MaxPending
      /\ ToSet(queue) \subseteq ToSet(scan.queue)
      /\ batch \cup ToSet(queue) = ToSet(scan.queue) /\ batch \subseteq ToSet(scan.queue)
  <2>1. /\ scan.queue \in Seq(Paths) /\ Len(scan.queue) <= MaxPending /\ MaxPending \in Nat
        /\ MaxBatch \in Nat /\ Len(scan.queue) \in Nat
    BY WorkspaceAssumption, LenProperties DEF WorkShape, Scans
  <2>2. n \in 0 .. Len(scan.queue)
    BY <2>1
  <2> HIDE DEF n
  <2>3. /\ queue \in Seq(Paths) /\ Len(queue) = Len(scan.queue) - n
        /\ ToSet(scan.queue) = ToSet(SubSeq(scan.queue, 1, n)) \cup ToSet(queue)
    BY <2>1, <2>2, CutInTwo
  <2>4. batch = ToSet(SubSeq(scan.queue, 1, n))
    BY <2>3 DEF WorkIsBelow
  <2> HIDE DEF queue, batch
  <2> QED
    BY <2>1, <2>2, <2>3, <2>4
<1>3. /\ items \subseteq Paths /\ tree.items \subseteq items /\ batch \subseteq items
      /\ \A q \in items : Within(tree.root, q)
      /\ \A q \in items : q = tree.root \/ Parent[q] \in items
      /\ items \subseteq Showable(tree.root, tree.filter)
  <2>1. \A p \in batch : p \in Paths /\ Within(tree.root, p)
    BY <1>2, NoElements DEF WorkShape, Scans
  <2>2. tree.items \subseteq Paths /\ \A q \in tree.items : Within(tree.root, q)
    BY DEF TreeHangs, WorkShape, Trees, Showable
  <2>3. batch \subseteq items
    BY <2>1, AboveFacts
  <2>4. ASSUME NEW q \in items PROVE q = tree.root \/ Parent[q] \in items
    <3>1. CASE q \in tree.items
      BY <3>1 DEF TreeHangs
    <3>2. CASE q \notin tree.items
      <4>1. PICK p \in batch : q \in Above[p]
        BY <2>4, <3>2
      <4>2. q \in Paths /\ Within(tree.root, q) /\ p \in Paths
        BY <2>1, <2>4, <3>2
      <4>3. CASE q # tree.root
        <5>1. Within(tree.root, Parent[q]) /\ Parent[q] \in Above[p] /\ Parent[q] \in Paths
          BY <1>1, <4>1, <4>2, <4>3, WithinFacts, AboveFacts
        <5> QED
          BY <4>1, <5>1
      <4> QED
        BY <4>3
    <3> QED
      BY <3>1, <3>2
  <2>5. ASSUME NEW q \in items PROVE q \in Showable(tree.root, tree.filter)
    <3>1. CASE q \in tree.items
      BY <3>1 DEF TreeHangs
    <3>2. CASE q \notin tree.items
      <4>1. PICK p \in batch : q \in Above[p]
        BY <2>5, <3>2
      <4>2. q \in Paths /\ Within(tree.root, q) /\ p \in Paths /\ Within(tree.root, p)
        BY <2>1, <2>5, <3>2
      <4>3. tree.filter => p \in Matching
        BY <1>2 DEF WorkIsBelow
      <4> QED
        BY <4>1, <4>2, <4>3 DEF Showable
    <3> QED
      BY <3>1, <3>2
  <2>6. items \subseteq Paths /\ tree.items \subseteq items /\ \A q \in items : Within(tree.root, q)
    BY <2>2
  <2> HIDE DEF items
  <2> QED
    BY <2>3, <2>4, <2>5, <2>6
<1> HIDE DEF n, batch, queue, items
<1>4. /\ again \subseteq Directories /\ again \subseteq items /\ again \subseteq tree.restore
      /\ tree.restoring => again = tree.restore \cap items
      /\ ~tree.restoring => again = {}
      /\ requested \subseteq Directories /\ tree.requested \subseteq requested
      /\ \A d \in requested \ tree.requested : d \in again
      /\ ~tree.filter => requested = tree.requested \cup again
      /\ tree.filter => requested = tree.requested
  BY DEF WorkShape, Trees
<1>5. /\ grown.requested = requested /\ grown.expanded = tree.expanded \cup again
      /\ grown = [tree EXCEPT !.items = items, !.expanded = tree.expanded \cup again, !.requested = requested]
  BY <1>4 DEF WorkShape, Trees, Expanded
<1>6. /\ jobs \in Seq(Directories) /\ ToSet(jobs) = ToSet(scan.jobs) \cup new
      /\ new \subseteq again /\ (tree.filter => new = {})
  <2>1. scan.jobs \in Seq(Directories)
    BY DEF WorkShape, Scans
  <2>2. new \subseteq again /\ new \subseteq Directories /\ new \subseteq Paths /\ (tree.filter => new = {})
    BY <1>4, WorkspaceAssumption
  <2> HIDE DEF new, again
  <2>3. IsFiniteSet(new)
    BY <2>2, WorkspaceAssumption, FS_Subset
  <2>4. SetToSeq(new) \in Seq(new) /\ ToSet(SetToSeq(new)) = new
    BY <2>3, SetListed
  <2>5. SetToSeq(new) \in Seq(Directories)
    BY <2>2, <2>4, SeqMonotonic
  <2>6. jobs \in Seq(Directories) /\ ToSet(jobs) = ToSet(scan.jobs) \cup ToSet(SetToSeq(new))
    BY <2>1, <2>5, Concatenated
  <2> QED
    BY <2>2, <2>4, <2>6
<1>7. /\ scan' = [scan EXCEPT !.queue = queue, !.jobs = jobs]
      /\ tree' = [grown EXCEPT !.restoring = @ /\ ~done, !.scanning = ~done, !.restore = restore]
  <2>1. grown.requested \ tree.requested = new /\ grown.restore = tree.restore
    BY <1>5 DEF WorkShape, Trees
  <2>2. /\ scan' = [scan EXCEPT !.queue = queue, !.jobs = @ \o SetToSeq(grown.requested \ tree.requested)]
        /\ tree' = [grown EXCEPT !.restoring = @ /\ ~(~Busy(queue) /\ grown.requested \ tree.requested = {}),
                                 !.scanning = ~(~Busy(queue) /\ grown.requested \ tree.requested = {}),
                                 !.restore = IF ~Busy(queue) /\ grown.requested \ tree.requested = {}
                                             THEN {} ELSE @ \ again]
    BY DEF Poll, n, batch, queue, items
  <2> HIDE DEF grown, new, again
  <2> QED
    BY <2>1, <2>2
<1>8. done => /\ queue = <<>> /\ jobs = <<>> /\ scan.jobs = <<>> /\ ~scan.working /\ new = {}
              /\ ToSet(jobs) = {} /\ ToSet(queue) = {} /\ ToSet(scan.jobs) = {}
              /\ thread.dirs = <<>> /\ thread.left = {} /\ ToSet(thread.dirs) = {}
  <2> SUFFICES ASSUME done PROVE /\ queue = <<>> /\ jobs = <<>> /\ scan.jobs = <<>> /\ ~scan.working /\ new = {}
                                 /\ ToSet(jobs) = {} /\ ToSet(queue) = {} /\ ToSet(scan.jobs) = {}
                                 /\ thread.dirs = <<>> /\ thread.left = {} /\ ToSet(thread.dirs) = {}
    OBVIOUS
  <2>1. /\ queue = <<>> /\ scan.jobs = <<>> /\ ~scan.working /\ new = {}
        /\ thread.dirs = <<>> /\ thread.left = {}
    BY DEF Busy, WorkAgrees
  <2>2. ToSet(<<>>) = {}
    BY NoElements, EmptySeq
  <2> HIDE DEF new
  <2>3. ToSet(jobs) = {}
    BY <1>6, <2>1, <2>2
  <2> QED
    BY <1>6, <2>1, <2>2, <2>3, NoElements
<1> HIDE DEF grown, new, jobs, done, again, restore, requested
<1>9. /\ scan' \in Scans
      /\ scan'.root = scan.root /\ scan'.filter = scan.filter /\ scan'.queue = queue
      /\ scan'.working = scan.working /\ scan'.errors = scan.errors /\ scan'.cancelled = scan.cancelled
      /\ scan'.jobs = jobs
  BY <1>2, <1>6, <1>7 DEF WorkShape, Scans
<1>10. /\ tree' \in Trees
       /\ tree'.root = tree.root /\ tree'.filter = tree.filter /\ tree'.items = items
       /\ tree'.requested = requested
       /\ tree'.expanded = tree.expanded \cup again
       /\ (tree'.scanning <=> ~done) /\ (tree'.restoring <=> tree.restoring /\ ~done)
       /\ tree'.restore = restore /\ tree'.open = tree.open
  <2>1. restore \subseteq Directories /\ done \in BOOLEAN
    BY DEF WorkShape, Trees, restore, done
  <2>2. tree' = [tree EXCEPT !.items = items, !.expanded = tree.expanded \cup again,
                             !.requested = requested, !.restoring = tree.restoring /\ ~done,
                             !.scanning = ~done, !.restore = restore]
    BY <1>5, <1>7 DEF WorkShape, Trees
  <2>3. tree \in Trees /\ tree.restoring \in BOOLEAN /\ tree.expanded \cup again \subseteq Directories
    BY <1>4 DEF WorkShape, Trees
  <2>4. (tree.restoring /\ ~done) \in BOOLEAN /\ (~done) \in BOOLEAN
    BY <2>1, <2>3
  <2> QED
    BY <1>3, <1>4, <2>1, <2>2, <2>3, <2>4 DEF Trees
<1>11. WorkShape'
  BY <1>1, <1>2, <1>9, <1>10 DEF WorkShape
<1>12. WorkAgrees'
  BY <1>1, <1>8, <1>9, <1>10 DEF WorkAgrees
<1>13. TreeHangs'
  BY <1>1, <1>3, <1>4, <1>10 DEF TreeHangs
<1>14. WorkIsBelow'
  BY <1>1, <1>2, <1>3, <1>4, <1>6, <1>9, <1>10 DEF WorkIsBelow
<1>15. NothingLost'
  <2> SUFFICES ASSUME scan.errors = 0 PROVE NothingLost'
    BY <1>9 DEF NothingLost
  <2>1. /\ tree.filter => \A f \in Matching : Within(tree.root, f) => FileComes(f)
        /\ ~tree.filter => \A e \in tree.requested : EntriesCome(e)
    BY <1>1 DEF NothingLost
  <2>2. ASSUME NEW f \in Matching, FileComes(f) PROVE FileComes(f)'
    BY <1>1, <1>2, <1>3, <1>6, <1>9, <1>10, <2>2 DEF FileComes
  <2>3. ASSUME ~tree.filter, NEW e \in requested PROVE EntriesCome(e)'
    <3>1. CASE e \in tree.requested
      BY <1>1, <1>2, <1>3, <1>6, <1>9, <1>10, <2>1, <2>3, <3>1 DEF EntriesCome
    <3>2. CASE e \notin tree.requested
      <4>1. e \in new
        BY <2>3, <3>2 DEF new
      <4> QED
        BY <1>6, <1>9, <4>1 DEF EntriesCome
    <3> QED
      BY <3>1, <3>2
  <2> QED
    BY <1>10, <2>1, <2>2, <2>3 DEF NothingLost
<1>16. ASSUME done, scan.errors = 0, tree.restoring PROVE OpenAgain'
  <2> SUFFICES ASSUME NEW d \in wanted, {a \in Above[d] : Within(tree.root, a)} \subseteq wanted
               PROVE  d \in tree.expanded \cup again
    BY <1>1, <1>10 DEF OpenAgain
  <2>1. /\ wanted \subseteq Directories /\ wanted \subseteq Paths
        /\ wanted \subseteq Showable(tree.root, tree.filter)
        /\ \A a \in wanted : a \in tree.expanded \/ a \in tree.restore \ tree.items
    BY <1>1, <1>16, WorkspaceAssumption DEF WorkShape, Reopened
  <2>2. \A a \in wanted : a \in items => a \in tree.expanded \cup again
    BY <1>4, <1>16, <2>1
  <2>3. CASE tree.filter
    <3>1. \A f \in Matching : Within(tree.root, f) => f \in items
      <4> SUFFICES ASSUME NEW f \in Matching, Within(tree.root, f) PROVE f \in items
        OBVIOUS
      <4>1. FileComes(f)
        BY <1>1, <1>16, <2>3 DEF NothingLost
      <4> QED
        BY <1>2, <1>3, <1>8, <1>16, <4>1 DEF FileComes
    <3>2. CASE d = tree.root
      BY <1>3, <2>2, <3>2 DEF TreeHangs
    <3>3. CASE d # tree.root
      <4>1. PICK f \in Matching : Within(tree.root, f) /\ d \in Above[f]
        BY <2>1, <2>3, <3>3 DEF Showable
      <4>2. f \in items /\ f \in Paths /\ Within(tree.root, d) /\ d \in Paths
        BY <2>1, <3>1, <4>1, WorkspaceAssumption DEF Showable
      <4>6. d \in items
        BY <1>1, <1>3, <4>1, <4>2, HangsTogether
      <4> QED
        BY <2>2, <4>6
    <3> QED
      BY <3>2, <3>3
  <2>4. CASE ~tree.filter
    <3> DEFINE Shut == {a \in Above[d] : Within(tree.root, a) /\ a \notin tree.expanded \cup again}
    <3>1. d \in Paths /\ Within(tree.root, d) /\ Above[d] \subseteq Paths
      BY <2>1, AboveFacts DEF Showable
    <3>2. CASE Shut = {}
      BY <3>1, <3>2, AboveFacts
    <3>3. CASE Shut # {}
      <4>1. PICK a \in Shut : Parent[a] = a \/ Parent[a] \notin Shut
        <5>1. Shut \in SUBSET Paths
          BY <3>1
        <5> HIDE DEF Shut
        <5> QED
          BY <3>3, <5>1, WorkspaceAssumption
      <4>2. a \in Paths /\ a \in wanted /\ Within(tree.root, a) /\ a \in Above[d]
        BY <3>1
      <4>3. a # tree.root
        BY <1>3, <2>2, <4>1, <4>2 DEF TreeHangs
      <4>4. /\ Parent[a] # a /\ Within(tree.root, Parent[a]) /\ Parent[a] \in Above[d]
            /\ Parent[a] \in Paths
        BY <1>1, <3>1, <4>2, <4>3, WithinFacts, AboveFacts
      <4>5. Parent[a] \in tree.expanded \cup again
        BY <4>1, <4>4
      <4>6. Parent[a] \in tree.requested
        <5>1. Parent[a] \in requested
          BY <1>4, <2>4, <4>5 DEF TreeHangs
        <5> QED
          BY <1>8, <1>16, <5>1 DEF new
      <4>7. Children(Parent[a]) \subseteq items
        <5>1. EntriesCome(Parent[a])
          BY <1>1, <1>16, <2>4, <4>6 DEF NothingLost
        <5> QED
          BY <1>2, <1>3, <1>8, <1>16, <5>1 DEF EntriesCome
      <4>8. a \in items
        BY <4>2, <4>4, <4>7 DEF Children
      <4> QED
        BY <2>2, <4>1, <4>2, <4>8
    <3> QED
      BY <3>2, <3>3
  <2> QED
    BY <1>1, <2>3, <2>4
<1>17. Reopened'
  <2>1. ASSUME tree'.restoring
        PROVE  /\ tree'.scanning
               /\ \A d \in wanted : d \in tree'.expanded \/ d \in tree'.restore \ tree'.items
    <3>1. ~done /\ tree.restoring
      BY <1>10, <2>1
    <3>2. restore = tree.restore \ again
      BY <3>1 DEF restore
    <3> QED
      BY <1>1, <1>3, <1>4, <1>10, <3>1, <3>2 DEF Reopened
  <2>2. ASSUME ~tree'.restoring, scan.errors = 0 PROVE OpenAgain'
    <3>1. CASE tree.restoring
      BY <1>10, <1>16, <2>2, <3>1
    <3>2. CASE ~tree.restoring
      <4>1. OpenAgain
        BY <1>1, <2>2, <3>2 DEF Reopened
      <4> QED
        BY <1>1, <1>10, <4>1 DEF OpenAgain
    <3> QED
      BY <3>1, <3>2
  <2>3. wanted \subseteq Showable(tree.root, tree.filter)
    BY <1>1 DEF Reopened
  <2> QED
    BY <1>1, <1>9, <1>10, <2>1, <2>2, <2>3 DEF Reopened
<1> QED
  BY <1>11, <1>12, <1>13, <1>14, <1>15, <1>17

\* Every step of the scanner, the panel and the reader keeps the invariant.
LEMMA WorkStepKeeps == WorkInv /\ [WorkNext]_workVars => WorkInv'
<1> SUFFICES ASSUME WorkInv, [WorkNext]_workVars PROVE WorkInv'
  OBVIOUS
<1>1. CASE UNCHANGED workVars
  BY <1>1 DEF workVars, WorkInv, WorkShape, WorkAgrees, TreeHangs, WorkIsBelow, NothingLost, FileComes,
              EntriesCome, Reopened, OpenAgain
<1>2. CASE ApplyFilter \/ Filter \/ OnRefresh \/ (\E r \in Roots : RequestWorkPath(r))
             \/ (\E listed \in BOOLEAN : SetWorkPath(listed))
  BY <1>2, CommandKeeps
<1>3. CASE Joined
  BY <1>3, JoinedKeeps
<1>4. CASE OnActivate \/ Quit \/ \E p \in Paths : Collapse(p) \/ Click(p)
  BY <1>4, ReaderKeeps
<1>5. CASE \E p \in Paths : Expand(p)
  BY <1>5, ExpandKeeps
<1>6. CASE Poll
  BY <1>6, PollKeeps
<1>7. CASE Leave \/ Begin \/ EndJob
  BY <1>7, JobKeeps
<1>8. CASE \E readable \in BOOLEAN : List(readable)
  BY <1>8, ListKeeps
<1>9. CASE \E p \in Paths : Entry(p)
  BY <1>9, EntryKeeps
<1> QED
  BY <1>1, <1>2, <1>3, <1>4, <1>5, <1>6, <1>7, <1>8, <1>9 DEF WorkNext, Scanning

\* The invariant of the file tree holds throughout.
THEOREM WorkInvariance == WorkSpec => []WorkInv
<1>1. WorkInit => WorkInv
  BY WorkInitHolds
<1>2. WorkInv /\ [WorkNext]_workVars => WorkInv'
  BY WorkStepKeeps
<1> QED
  BY <1>1, <1>2, PTL DEF WorkSpec

\* The invariant's two consequences that the runs check.
LEMMA WorkInvMeans == WorkInv => WorkTypeOK /\ SearchIsComplete
<1> SUFFICES ASSUME WorkInv PROVE WorkTypeOK /\ SearchIsComplete
  OBVIOUS
<1> USE DEF WorkInv
<1>1. WorkTypeOK
  BY WorkspaceAssumption DEF WorkTypeOK, WorkShape, Scans, ScanThreads, Trees
<1>2. ASSUME goal = <<>>, ~tree.scanning, scan.errors = 0
      PROVE  /\ tree.filter => {p \in Matching : Within(tree.root, p)} \subseteq tree.items
             /\ ~tree.filter => \A d \in tree.requested : Children(d) \subseteq tree.items
             /\ OpenAgain
  <2>1. /\ scan.jobs = <<>> /\ scan.queue = <<>> /\ thread.dirs = <<>> /\ thread.left = {}
        /\ ToSet(<<>>) = {}
    BY <1>2, NoElements, EmptySeq DEF WorkAgrees
  <2>2. tree.filter => \A p \in Matching : Within(tree.root, p) => p \in tree.items
    BY <1>2, <2>1 DEF NothingLost, FileComes
  <2>3. ~tree.filter => \A d \in tree.requested : Children(d) \subseteq tree.items
    BY <1>2, <2>1 DEF NothingLost, EntriesCome
  <2>4. OpenAgain
    BY <1>2 DEF Reopened
  <2> QED
    BY <2>2, <2>3, <2>4
<1>3. tree.filter \in BOOLEAN
  BY DEF WorkShape, Trees
<1>4. SearchIsComplete
  BY <1>2, <1>3 DEF SearchIsComplete, OpenAgain, TreeHangs
<1> QED
  BY <1>1, <1>4

\* The tree's variables have their types: what is queued fits the queue.
THEOREM WorkTypeCorrect == WorkSpec => []WorkTypeOK
<1>1. WorkInv => WorkTypeOK
  BY WorkInvMeans
<1> QED
  BY <1>1, WorkInvariance, PTL

\* DirectoryScanner and SidebarWidget: a search that has ended without errors
\* shows everything it should, and what was open before a refresh is open.
THEOREM SearchesAreComplete == WorkSpec => []SearchIsComplete
<1>1. WorkInv => SearchIsComplete
  BY WorkInvMeans
<1> QED
  BY <1>1, WorkInvariance, PTL

-----------------------------------------------------------------------------
(***************************************************************************)
(* Preferences.                                                            *)
(***************************************************************************)

Looks == [theme : Themes, colors : Colors, other : Others, profiles : Profiles]
Dialogs == [draft : Snapshots, profiles : Profiles, original : Profiles]

\* The types, with those of the dialog.
SetShape ==
    /\ active \in Snapshots /\ registry \in Snapshots
    /\ disk \in [settings : Snapshots, version : {1, 2}] /\ readOnly \in BOOLEAN
    /\ look \in Looks /\ dragging \in BOOLEAN
    /\ dialog = <<>> \/ \E d \in Dialogs : dialog = <<d>>

SetInv == SetShape /\ SettingsHold

\* What is shown for a snapshot is typed, and agrees with it.
LEMMA ShownFacts ==
    ASSUME NEW s \in Snapshots, NEW p \in Profiles
    PROVE  /\ s.theme \in Themes /\ s.other \in Others
           /\ \A t \in Themes : ColorsOf(s, t) \in Colors
           /\ Shown(s, p) \in Looks /\ Shown(s, p).theme = s.theme /\ Shown(s, p).other = s.other
           /\ Shown(s, p).colors = ColorsOf(s, s.theme) /\ Shown(s, p).profiles = p
<1>1. s.theme \in Themes /\ s.other \in Others /\ \A t \in Themes : ColorsOf(s, t) \in Colors
  BY DEF Snapshots, ColorsOf
<1>2. Shown(s, p) = [theme |-> s.theme, colors |-> ColorsOf(s, s.theme), other |-> s.other,
                     profiles |-> p]
  BY DEF Shown
<1> DEFINE c == ColorsOf(s, s.theme)
<1>3. c \in Colors
  BY <1>1
<1> HIDE DEF c
<1>4. Shown(s, p) = [theme |-> s.theme, colors |-> c, other |-> s.other, profiles |-> p]
  BY <1>2 DEF c
<1>5. /\ Shown(s, p) \in Looks /\ Shown(s, p).theme = s.theme /\ Shown(s, p).other = s.other
      /\ Shown(s, p).colors = c /\ Shown(s, p).profiles = p
  BY <1>1, <1>3, <1>4 DEF Looks
<1> QED
  BY <1>1, <1>5 DEF c

\* A theme that is tried out, or put back.
LEMMA PreviewedFacts ==
    ASSUME SetShape, NEW t \in Themes, NEW p \in Profiles
    PROVE  /\ Previewed(t, p) \in Looks /\ Previewed(t, p).theme = t
           /\ Previewed(t, p).other = look.other /\ Previewed(t, p).profiles = p
           /\ Previewed(t, p).colors = ColorsOf(active, t)
<1> DEFINE c == ColorsOf(active, t)
<1>1. look \in Looks /\ c \in Colors
  BY ShownFacts DEF SetShape
<1>2. Previewed(t, p) = [look EXCEPT !.theme = t, !.colors = c, !.profiles = p]
  BY DEF Previewed
<1> HIDE DEF c
<1>3. /\ Previewed(t, p) \in Looks /\ Previewed(t, p).theme = t
      /\ Previewed(t, p).other = look.other /\ Previewed(t, p).profiles = p
      /\ Previewed(t, p).colors = c
  BY <1>1, <1>2 DEF Looks
<1> QED
  BY <1>3 DEF c

\* A commit is accepted and is everywhere, or leaves everything as it was.
LEMMA CommitFacts ==
    ASSUME SetInv, NEW draft \in Snapshots, NEW written \in BOOLEAN, Commit(draft, written)
    PROVE  /\ Accepts(draft, written) =>
                 /\ active' = draft /\ registry' = draft /\ disk' = [settings |-> draft, version |-> 1]
                 /\ draft.other \in Valid /\ readOnly = FALSE
           /\ ~Accepts(draft, written) => UNCHANGED <<active, registry, disk>>
           /\ active' \in Snapshots /\ registry' \in Snapshots
           /\ disk' \in [settings : Snapshots, version : {1, 2}]
           /\ active' = registry' /\ active' = disk'.settings /\ active'.other \in Valid
           /\ (readOnly <=> disk'.version # 1)
<1>1. SetShape /\ SettingsHold
  BY DEF SetInv
<1>2. CASE Accepts(draft, written)
  <2>1. /\ active' = draft /\ registry' = draft /\ disk' = [settings |-> draft, version |-> 1]
        /\ draft.other \in Valid /\ readOnly = FALSE
    BY <1>1, <1>2 DEF Commit, Accepts, SetShape
  <2> QED
    BY <1>2, <2>1
<1>3. CASE ~Accepts(draft, written)
  <2>1. UNCHANGED <<active, registry, disk>>
    BY <1>3 DEF Commit, Rejected
  <2> QED
    BY <1>1, <1>3, <2>1 DEF SetShape, SettingsHold
<1> QED
  BY <1>2, <1>3

\* A snapshot with one entry changed is one.
LEMMA DraftTyped ==
    ASSUME NEW s \in Snapshots
    PROVE  /\ \A t \in Themes : [s EXCEPT !.theme = t] \in Snapshots
           /\ \A o \in Others : [s EXCEPT !.other = o] \in Snapshots
           /\ \A c \in Colors : [s EXCEPT !.dark = c] \in Snapshots /\ [s EXCEPT !.light = c] \in Snapshots
  BY DEF Snapshots

\* A start: what is shown is what is saved.
LEMMA SetInitHolds == SetInit => SetInv
<1> SUFFICES ASSUME NEW s \in Snapshots, NEW version \in {1, 2}, NEW profiles \in Profiles,
                    /\ s.other \in Valid
                    /\ disk = [settings |-> s, version |-> version] /\ registry = s
                    /\ active = s /\ readOnly = (version # 1)
                    /\ look = Shown(s, profiles) /\ dialog = <<>> /\ dragging = FALSE
             PROVE  SetInv
  BY DEF SetInit
<1>1. /\ look \in Looks /\ look.theme = s.theme /\ look.other = s.other
      /\ look.colors = ColorsOf(s, s.theme)
  BY ShownFacts
<1>2. SetShape
  BY <1>1 DEF SetShape
<1>3. SettingsHold
  BY <1>1 DEF SettingsHold
<1> QED
  BY <1>2, <1>3 DEF SetInv

\* A restart, with the file as it was left.
LEMMA LoadedKeeps == ASSUME SetInv, NEW profiles \in Profiles, Loaded(profiles) PROVE SetInv'
<1> DEFINE s == disk.settings
<1>1. SetShape /\ SettingsHold
  BY DEF SetInv
<1>2. /\ registry' = s /\ readOnly' = (disk.version # 1) /\ active' = s
      /\ look' = Shown(s, profiles) /\ dialog' = <<>> /\ dragging' = FALSE /\ disk' = disk
  BY DEF Loaded
<1>3. s \in Snapshots /\ s.other \in Valid
  BY <1>1 DEF SetShape, SettingsHold
<1>4. /\ look' \in Looks /\ look'.theme = s.theme /\ look'.other = s.other
      /\ look'.colors = ColorsOf(s, s.theme)
  BY <1>2, <1>3, ShownFacts
<1>5. SetShape'
  BY <1>1, <1>2, <1>3, <1>4 DEF SetShape
<1>6. SettingsHold'
  BY <1>2, <1>3, <1>4 DEF SettingsHold
<1> QED
  BY <1>5, <1>6 DEF SetInv

\* A commit outside the dialog: the look follows what was accepted, or is what
\* is active.
LEMMA CommittedKeeps ==
    ASSUME SetInv, NEW draft \in Snapshots, NEW written \in BOOLEAN, Commit(draft, written),
           dialog = <<>>, UNCHANGED <<readOnly, dialog>>, dragging' \in BOOLEAN,
           Accepts(draft, written) => look' = Shown(draft, look.profiles),
           ~Accepts(draft, written) => /\ look' \in Looks /\ look'.theme = look.theme
                                       /\ look'.other = look.other
                                       /\ dragging' \/ look'.colors = ColorsOf(active, look.theme)
    PROVE  SetInv'
<1>1. SetShape /\ SettingsHold /\ look \in Looks /\ look.profiles \in Profiles
  BY DEF SetInv, SetShape, Looks
<1>2. CASE Accepts(draft, written)
  <2>1. /\ look' \in Looks /\ look'.theme = draft.theme /\ look'.other = draft.other
        /\ look'.colors = ColorsOf(draft, draft.theme)
    BY <1>1, <1>2, ShownFacts
  <2>2. SetShape'
    BY <1>1, <2>1, CommitFacts DEF SetShape
  <2>3. SettingsHold'
    BY <1>2, <2>1, CommitFacts DEF SettingsHold
  <2> QED
    BY <2>2, <2>3 DEF SetInv
<1>3. CASE ~Accepts(draft, written)
  <2>1. SetShape'
    BY <1>1, <1>3, CommitFacts DEF SetShape
  <2>2. active' = active /\ look'.theme = active'.theme /\ look'.other = active'.other
    BY <1>1, <1>3, CommitFacts DEF SettingsHold
  <2>3. dragging' \/ look'.colors = ColorsOf(active', active'.theme)
    BY <1>1, <1>3, <2>2 DEF SettingsHold
  <2>4. SettingsHold'
    BY <2>2, <2>3, CommitFacts DEF SettingsHold
  <2> QED
    BY <2>1, <2>4 DEF SetInv
<1> QED
  BY <1>2, <1>3

\* The theme button, and the colours of the reading panes.
LEMMA ButtonsKeep ==
    ASSUME SetInv,
           \/ \E written \in BOOLEAN : ToggleTheme(written)
           \/ \E colors \in Colors : DragColors(colors)
           \/ \E colors \in Colors, written \in BOOLEAN : CommitColors(colors, written)
    PROVE  SetInv'
<1>1. SetShape /\ SettingsHold /\ active \in Snapshots /\ look \in Looks
  BY DEF SetInv, SetShape
<1>2. ASSUME NEW written \in BOOLEAN, ToggleTheme(written) PROVE SetInv'
  <2> DEFINE t == IF active.theme = "dark" THEN "light" ELSE "dark"
             draft == [active EXCEPT !.theme = t]
  <2>1. t \in Themes
    BY DEF Themes
  <2>2. draft \in Snapshots
    BY <1>1, <2>1, DraftTyped
  <2>3. /\ dialog = <<>> /\ ~dragging /\ Commit(draft, written)
        /\ look' = (IF Accepts(draft, written) THEN Shown(draft, look.profiles) ELSE look)
        /\ UNCHANGED <<readOnly, dialog, dragging>>
    BY <1>2 DEF ToggleTheme
  <2> HIDE DEF draft
  <2>4. dragging' \in BOOLEAN
    BY <1>1, <2>3 DEF SetShape
  <2>5. look.theme = active.theme /\ look.colors = ColorsOf(active, look.theme)
    BY <1>1, <2>3 DEF SettingsHold
  <2> QED
    BY <1>1, <2>2, <2>3, <2>4, <2>5, CommittedKeeps
<1>3. ASSUME NEW colors \in Colors, DragColors(colors) PROVE SetInv'
  <2>1. /\ dialog = <<>> /\ look' = [look EXCEPT !.colors = colors] /\ dragging' = TRUE
        /\ UNCHANGED <<active, registry, disk, readOnly, dialog>>
    BY <1>3 DEF DragColors
  <2>2. look' \in Looks /\ look'.theme = look.theme /\ look'.other = look.other
    BY <1>1, <2>1 DEF Looks
  <2> QED
    BY <1>1, <2>1, <2>2 DEF SetInv, SetShape, SettingsHold
<1>4. ASSUME NEW colors \in Colors, NEW written \in BOOLEAN, CommitColors(colors, written)
      PROVE  SetInv'
  <2> DEFINE draft == WithColors(colors)
             c == ColorsOf(active, look.theme)
  <2>1. draft \in Snapshots
    BY <1>1, DraftTyped DEF WithColors
  <2>2. /\ dialog = <<>> /\ dragging' = FALSE /\ Commit(draft, written)
        /\ look' = (IF Accepts(draft, written) THEN Shown(draft, look.profiles)
                    ELSE [look EXCEPT !.colors = c])
        /\ UNCHANGED <<readOnly, dialog>>
    BY <1>4 DEF CommitColors
  <2>3. c \in Colors
    <3>1. look.theme \in Themes /\ look.profiles \in Profiles
      BY <1>1 DEF Looks
    <3> QED
      BY <1>1, <3>1, ShownFacts
  <2> HIDE DEF draft, c
  <2>4. ~Accepts(draft, written) => /\ look' \in Looks /\ look'.theme = look.theme
                                    /\ look'.other = look.other /\ look'.colors = c
    BY <1>1, <2>2, <2>3 DEF Looks
  <2>5. ~Accepts(draft, written) => look'.colors = ColorsOf(active, look.theme)
    BY <2>4 DEF c
  <2> QED
    BY <2>1, <2>2, <2>4, <2>5, CommittedKeeps
<1> QED
  BY <1>2, <1>3, <1>4

\* The dialog: what it tries out is put back, or accepted.
LEMMA DialogKeeps ==
    ASSUME SetInv,
           \/ OpenDialog \/ Dismiss
           \/ \E written \in BOOLEAN : Accept(written)
           \/ \E profiles \in Profiles : Reload(profiles)
           \/ \E theme \in Themes : TryTheme(theme)
           \/ \E other \in Others : ChangeOther(other)
    PROVE  SetInv'
<1>1. /\ SetShape /\ SettingsHold /\ active \in Snapshots /\ look \in Looks
      /\ active.theme \in Themes /\ look.profiles \in Profiles
  BY DEF SetInv, SetShape, Snapshots, Looks
<1>2. CASE OpenDialog
  <2> DEFINE d == [draft |-> active, profiles |-> look.profiles, original |-> look.profiles]
  <2>1. /\ dialog = <<>> /\ dialog' = <<d>>
        /\ UNCHANGED <<active, registry, disk, readOnly, look, dragging>>
    BY <1>2 DEF OpenDialog
  <2>2. d \in Dialogs /\ d.profiles = look.profiles
    BY <1>1 DEF Dialogs
  <2> HIDE DEF d
  <2>3. dialog'[1] = d /\ dialog' # <<>>
    BY <2>1
  <2> QED
    BY <1>1, <2>1, <2>2, <2>3 DEF SetInv, SetShape, SettingsHold
<1>3. CASE dialog # <<>>
  <2>1. PICK d \in Dialogs : dialog = <<d>>
    BY <1>1, <1>3 DEF SetShape
  <2>2. /\ dialog[1] = d /\ d.draft \in Snapshots /\ d.profiles \in Profiles
        /\ d.original \in Profiles /\ d.draft.theme \in Themes
    BY <2>1 DEF Dialogs, Snapshots
  <2>3. \A e : [dialog EXCEPT ![1] = e] = <<e>> /\ <<e>> # <<>> /\ <<e>>[1] = e
    BY <2>1
  <2>4. ASSUME look' = Restored, dialog' = <<>> \/ dialog' = dialog,
               UNCHANGED <<active, registry, disk, readOnly, dragging>>
        PROVE  SetInv'
    <3>1. /\ look' \in Looks /\ look'.theme = active.theme /\ look'.other = look.other
          /\ look'.profiles = d.original /\ look'.colors = ColorsOf(active, active.theme)
      BY <1>1, <2>2, <2>4, PreviewedFacts DEF Restored
    <3>2. SetShape'
      BY <1>1, <2>4, <3>1 DEF SetShape
    <3>3. SettingsHold'
      BY <1>1, <2>2, <2>4, <3>1 DEF SettingsHold
    <3> QED
      BY <3>2, <3>3 DEF SetInv
  <2>5. CASE Dismiss
    BY <2>4, <2>5 DEF Dismiss
  <2>6. ASSUME NEW written \in BOOLEAN, Accept(written) PROVE SetInv'
    <3>1. Commit(d.draft, written) /\ UNCHANGED <<readOnly, dragging>>
      BY <2>2, <2>6 DEF Accept
    <3>2. CASE Accepts(d.draft, written)
      <4>1. look' = Shown(d.draft, d.profiles) /\ dialog' = <<>>
        BY <2>2, <2>6, <3>2 DEF Accept
      <4>2. /\ look' \in Looks /\ look'.theme = d.draft.theme /\ look'.other = d.draft.other
            /\ look'.colors = ColorsOf(d.draft, d.draft.theme)
        BY <2>2, <4>1, ShownFacts
      <4>3. SetShape'
        BY <1>1, <2>2, <3>1, <4>1, <4>2, CommitFacts DEF SetShape
      <4>4. SettingsHold'
        BY <2>2, <3>1, <3>2, <4>1, <4>2, CommitFacts DEF SettingsHold
      <4> QED
        BY <4>3, <4>4 DEF SetInv
    <3>3. CASE ~Accepts(d.draft, written)
      <4>1. look' = Restored /\ dialog' = dialog
        BY <2>2, <2>6, <3>3 DEF Accept
      <4>2. UNCHANGED <<active, registry, disk>>
        BY <2>2, <3>1, <3>3, CommitFacts
      <4> QED
        BY <2>4, <3>1, <4>1, <4>2
    <3> QED
      BY <3>2, <3>3
  <2>7. ASSUME NEW e \in Dialogs, dialog' = <<e>>, UNCHANGED <<active, registry, disk, readOnly, dragging>>,
               look' \in Looks, look'.other = look.other, look'.profiles \in {e.profiles, e.original}
        PROVE  SetInv'
    <3>1. dialog' # <<>> /\ dialog'[1] = e
      BY <2>3, <2>7
    <3>2. SetShape'
      BY <1>1, <2>7 DEF SetShape
    <3>3. SettingsHold'
      BY <1>1, <2>7, <3>1 DEF SettingsHold
    <3> QED
      BY <3>2, <3>3 DEF SetInv
  <2>8. ASSUME NEW theme \in Themes, TryTheme(theme) PROVE SetInv'
    <3> DEFINE s == [d.draft EXCEPT !.theme = theme]
               e == [d EXCEPT !.draft = s]
    <3>1. /\ dialog' = [dialog EXCEPT ![1] = e] /\ look' = Previewed(theme, d.profiles)
          /\ UNCHANGED <<active, registry, disk, readOnly, dragging>>
      BY <2>1, <2>2, <2>8 DEF TryTheme
    <3>2. s \in Snapshots
      BY <2>2, DraftTyped
    <3> HIDE DEF s
    <3>3. e \in Dialogs /\ e.profiles = d.profiles
      BY <3>2 DEF Dialogs
    <3> HIDE DEF e
    <3>4. look' \in Looks /\ look'.other = look.other /\ look'.profiles = d.profiles
      BY <1>1, <2>2, <3>1, PreviewedFacts
    <3>5. dialog' = <<e>>
      BY <2>3, <3>1
    <3> QED
      BY <2>7, <3>1, <3>3, <3>4, <3>5
  <2>9. ASSUME NEW other \in Others, ChangeOther(other) PROVE SetInv'
    <3> DEFINE s == [d.draft EXCEPT !.other = other]
               e == [d EXCEPT !.draft = s]
    <3>1. /\ dialog' = [dialog EXCEPT ![1] = e]
          /\ UNCHANGED <<active, registry, disk, readOnly, look, dragging>>
      BY <2>1, <2>2, <2>9 DEF ChangeOther
    <3>2. s \in Snapshots
      BY <2>2, DraftTyped
    <3> HIDE DEF s
    <3>3. e \in Dialogs /\ e.profiles = d.profiles /\ e.original = d.original
      BY <3>2 DEF Dialogs
    <3> HIDE DEF e
    <3>4. look.profiles \in {d.profiles, d.original}
      BY <1>1, <1>3, <2>2 DEF SettingsHold
    <3>5. dialog' = <<e>>
      BY <2>3, <3>1
    <3> QED
      BY <1>1, <2>7, <3>1, <3>3, <3>4, <3>5
  <2>10. ASSUME NEW profiles \in Profiles, Reload(profiles) PROVE SetInv'
    <3> DEFINE e == [d EXCEPT !.profiles = profiles]
    <3>1. /\ dialog' = [dialog EXCEPT ![1] = e] /\ look' = Previewed(d.draft.theme, profiles)
          /\ UNCHANGED <<active, registry, disk, readOnly, dragging>>
      BY <2>1, <2>2, <2>10 DEF Reload
    <3>2. e \in Dialogs /\ e.profiles = profiles
      BY DEF Dialogs
    <3> HIDE DEF e
    <3>3. look' \in Looks /\ look'.other = look.other /\ look'.profiles = profiles
      BY <1>1, <2>2, <3>1, PreviewedFacts
    <3>4. dialog' = <<e>>
      BY <2>3, <3>1
    <3> QED
      BY <2>7, <3>1, <3>2, <3>3, <3>4
  <2> QED
    BY <1>2, <2>5, <2>6, <2>8, <2>9, <2>10
<1> QED
  BY <1>2, <1>3 DEF Dismiss, Accept, Reload, TryTheme, ChangeOther

\* Every step of the preferences keeps the invariant.
LEMMA SetStepKeeps == SetInv /\ [SetNext]_setVars => SetInv'
<1> SUFFICES ASSUME SetInv, [SetNext]_setVars PROVE SetInv'
  OBVIOUS
<1>1. CASE UNCHANGED setVars
  BY <1>1 DEF setVars, SetInv, SetShape, SettingsHold
<1>2. CASE SetNext
  BY <1>2, LoadedKeeps, ButtonsKeep, DialogKeeps DEF SetNext
<1> QED
  BY <1>1, <1>2

\* It holds the variables to their types.
LEMMA SetInvMeans == SetInv => SetTypeOK /\ SettingsHold
  BY DEF SetInv, SetShape, SetTypeOK, Looks

\* Nothing that was only tried out, or could not be saved, stays: commit and
\* save (PreferencesService, FoxPreferencesStore), PreferencesDialog.
THEOREM SettingsAreHeld == SetSpec => [](SetTypeOK /\ SettingsHold)
<1>1. SetInit => SetInv
  BY SetInitHolds
<1>2. SetInv /\ [SetNext]_setVars => SetInv'
  BY SetStepKeeps
<1>3. SetInv => SetTypeOK /\ SettingsHold
  BY SetInvMeans
<1> QED
  BY <1>1, <1>2, <1>3, PTL DEF SetSpec

-----------------------------------------------------------------------------
(***************************************************************************)
(* The lists of the sidebar: the elements of a sequence that are in a set. *)
(***************************************************************************)

\* An induction up to m: from 0, and from n - 1 to n.
LEMMA CountingUp ==
    ASSUME NEW m \in Nat, NEW G, 0 \in G, \A n \in 1 .. m : n - 1 \in G => n \in G
    PROVE  m \in G
<1> DEFINE Missing == {n \in Nat : n <= m /\ n \notin G}
           Less == {p \in Nat \X Nat : p[1] < p[2]}
<1> SUFFICES ASSUME Missing # {} PROVE FALSE
  OBVIOUS
<1>1. OpToRel(<, Nat) = Less
  BY DEF OpToRel
<1>2. IsWellFoundedOn(Less, Nat)
  BY <1>1, NatLessThanWellFounded
<1>3. PICK x \in Missing : \A y \in Missing : ~(<<y, x>> \in Less)
  <2>1. Missing \subseteq Nat /\ Missing # {}
    OBVIOUS
  <2> HIDE DEF Missing, Less
  <2> QED
    BY <1>2, <2>1, WFMin
<1>4. x \in 1 .. m /\ x - 1 \in Nat /\ x - 1 < x /\ x - 1 <= m
  BY <1>3
<1>5. x - 1 \in G
  BY <1>3, <1>4
<1> QED
  BY <1>3, <1>4, <1>5

\* No element is in a sequence twice.
NoTwice(s) == \A i, j \in DOMAIN s : s[i] = s[j] => i = j

\* What is kept of the first i elements, for every i.
IsKept(f, s, S) ==
    f = [i \in 0 .. Len(s) |-> IF i = 0 THEN <<>>
                               ELSE IF s[i] \in S THEN Append(f[i - 1], s[i]) ELSE f[i - 1]]

Kept(s, S) == CHOOSE f : IsKept(f, s, S)

\* The same for the first n elements only.
IsKeptTo(f, n, s, S) ==
    f = [i \in 0 .. n |-> IF i = 0 THEN <<>>
                          ELSE IF s[i] \in S THEN Append(f[i - 1], s[i]) ELSE f[i - 1]]

\* Among is a recursive function, and there is one that satisfies its equation.
LEMMA KeptExists ==
    ASSUME NEW T, NEW s \in Seq(T), NEW S
    PROVE  /\ Among(s, S) = Kept(s, S)[Len(s)] /\ Kept(s, S)[0] = <<>>
           /\ \A i \in 1 .. Len(s) :
                 Kept(s, S)[i] = IF s[i] \in S THEN Append(Kept(s, S)[i - 1], s[i])
                                 ELSE Kept(s, S)[i - 1]
<1> DEFINE m == Len(s)
           G == {n \in 0 .. m : \E f : IsKeptTo(f, n, s, S)}
<1>1. m \in Nat
  BY LenProperties
<1>2. 0 \in G
  <2> DEFINE f == [i \in 0 .. 0 |-> <<>>]
  <2>1. \A i \in 0 .. 0 : i = 0
    OBVIOUS
  <2>2. f = [i \in 0 .. 0 |-> IF i = 0 THEN <<>>
                              ELSE IF s[i] \in S THEN Append(f[i - 1], s[i]) ELSE f[i - 1]]
    BY <2>1
  <2> HIDE DEF f
  <2>3. IsKeptTo(f, 0, s, S)
    BY <2>2 DEF IsKeptTo
  <2> QED
    BY <1>1, <2>3
<1>3. ASSUME NEW n \in 1 .. m, n - 1 \in G PROVE n \in G
  <2>1. PICK f : IsKeptTo(f, n - 1, s, S)
    BY <1>3
  <2> DEFINE last == IF s[n] \in S THEN Append(f[n - 1], s[n]) ELSE f[n - 1]
             g == [i \in 0 .. n |-> IF i = n THEN last ELSE f[i]]
  <2>2. ASSUME NEW i \in 0 .. n
        PROVE  g[i] = IF i = 0 THEN <<>>
                      ELSE IF s[i] \in S THEN Append(g[i - 1], s[i]) ELSE g[i - 1]
    <3>1. i # 0 => i - 1 \in 0 .. n /\ i - 1 # n /\ g[i - 1] = f[i - 1]
      BY <1>1
    <3>2. CASE i = n
      <4>1. i # 0 /\ g[i] = last
        BY <1>1, <3>2
      <4> QED
        BY <3>1, <3>2, <4>1
    <3>3. CASE i # n
      <4>1. i \in 0 .. n - 1 /\ g[i] = f[i]
        BY <1>1, <3>3
      <4>2. f[i] = IF i = 0 THEN <<>>
                   ELSE IF s[i] \in S THEN Append(f[i - 1], s[i]) ELSE f[i - 1]
        BY <2>1, <4>1 DEF IsKeptTo
      <4> HIDE DEF g
      <4> QED
        BY <3>1, <4>1, <4>2
    <3> QED
      BY <3>2, <3>3
  <2>3. g = [i \in 0 .. n |-> g[i]]
    OBVIOUS
  <2> HIDE DEF g, last
  <2>4. g = [i \in 0 .. n |-> IF i = 0 THEN <<>>
                              ELSE IF s[i] \in S THEN Append(g[i - 1], s[i]) ELSE g[i - 1]]
    BY <2>2, <2>3
  <2>5. IsKeptTo(g, n, s, S)
    BY <2>4 DEF IsKeptTo
  <2> QED
    BY <1>1, <2>5
<1>4. \E f : IsKept(f, s, S)
  <2>1. m \in G
    <3> HIDE DEF G, m
    <3> QED
      BY <1>1, <1>2, <1>3, CountingUp
  <2>2. \A f : IsKeptTo(f, m, s, S) <=> IsKept(f, s, S)
    BY DEF IsKeptTo, IsKept
  <2> QED
    BY <2>1, <2>2
<1> DEFINE k == Kept(s, S)
<1>5. IsKept(k, s, S)
  BY <1>4 DEF Kept
<1>6. Among(s, S) = k[Len(s)]
  BY DEF Among, Kept, IsKept
<1> HIDE DEF k, G
<1>7. k[0] = <<>>
  BY <1>1, <1>5 DEF IsKept
<1>8. ASSUME NEW i \in 1 .. m
      PROVE  k[i] = IF s[i] \in S THEN Append(k[i - 1], s[i]) ELSE k[i - 1]
  <2>1. i \in 0 .. m /\ i # 0
    BY <1>1
  <2>2. k[i] = [n \in 0 .. m |-> IF n = 0 THEN <<>>
                                 ELSE IF s[n] \in S THEN Append(k[n - 1], s[n]) ELSE k[n - 1]][i]
    BY <1>5 DEF IsKept
  <2> HIDE DEF m
  <2> QED
    BY <2>1, <2>2
<1> QED
  BY <1>6, <1>7, <1>8 DEF k

\* One more element at the end of a sequence that has it not.
LEMMA AppendedOnce ==
    ASSUME NEW T, NEW t \in Seq(T), NEW x \in T, NoTwice(t), x \notin ToSet(t)
    PROVE  NoTwice(Append(t, x))
<1> DEFINE u == Append(t, x)
<1>1. /\ u \in Seq(T) /\ Len(u) = Len(t) + 1 /\ Len(t) \in Nat
      /\ \A i \in 1 .. Len(t) : u[i] = t[i]
      /\ u[Len(t) + 1] = x
      /\ DOMAIN t = 1 .. Len(t) /\ DOMAIN u = 1 .. Len(u)
  BY AppendProperties, LenProperties
<1> HIDE DEF u
<1>2. \A i \in DOMAIN t : u[i] = t[i] /\ t[i] # x
  BY <1>1 DEF ToSet
<1>3. \A i \in DOMAIN u : i \in DOMAIN t \/ i = Len(t) + 1
  BY <1>1
<1>4. NoTwice(u)
  BY <1>1, <1>2, <1>3 DEF NoTwice
<1> QED
  BY <1>4 DEF u

\* What is among them is theirs and in the set, and not twice if they are not.
LEMMA AmongFacts ==
    ASSUME NEW T, NEW s \in Seq(T), NEW S
    PROVE  /\ Among(s, S) \in Seq(T) /\ ToSet(Among(s, S)) \subseteq ToSet(s) \cap S
           /\ NoTwice(s) => NoTwice(Among(s, S))
<1> DEFINE m == Len(s)
           k == Kept(s, S)
           Of(n) == {s[i] : i \in 1 .. n}
           G == {n \in 0 .. m : /\ k[n] \in Seq(T) /\ ToSet(k[n]) \subseteq Of(n) \cap S
                                /\ NoTwice(s) => NoTwice(k[n])}
<1>1. m \in Nat /\ DOMAIN s = 1 .. m /\ \A i \in 1 .. m : s[i] \in T
  BY LenProperties, ElementOfSeq
<1>2. /\ Among(s, S) = k[m] /\ k[0] = <<>>
      /\ \A i \in 1 .. m : k[i] = IF s[i] \in S THEN Append(k[i - 1], s[i]) ELSE k[i - 1]
  BY KeptExists
<1> HIDE DEF m, k
<1>3. 0 \in G
  <2>1. <<>> \in Seq(T) /\ ToSet(<<>>) = {} /\ NoTwice(<<>>)
    <3>1. DOMAIN <<>> = {}
      OBVIOUS
    <3> QED
      BY <3>1 DEF ToSet, NoTwice
  <2>2. 0 \in 0 .. m
    BY <1>1
  <2> HIDE DEF Of
  <2> QED
    BY <1>2, <2>1, <2>2
<1>4. ASSUME NEW n \in 1 .. m, n - 1 \in G PROVE n \in G
  <2>1. /\ k[n - 1] \in Seq(T) /\ ToSet(k[n - 1]) \subseteq Of(n - 1) \cap S
        /\ NoTwice(s) => NoTwice(k[n - 1])
    BY <1>4
  <2>2. Of(n - 1) \subseteq Of(n) /\ s[n] \in Of(n) /\ n \in 0 .. m
    BY <1>1
  <2>3. CASE s[n] \in S
    <3>1. k[n] = Append(k[n - 1], s[n]) /\ s[n] \in T
      BY <1>1, <1>2, <2>3
    <3>2. k[n] \in Seq(T) /\ ToSet(k[n]) = ToSet(k[n - 1]) \cup {s[n]}
      BY <2>1, <3>1, Appended
    <3>3. ASSUME NoTwice(s) PROVE NoTwice(k[n])
      <4>1. s[n] \notin Of(n - 1)
        <5> SUFFICES ASSUME NEW i \in 1 .. n - 1, s[i] = s[n] PROVE FALSE
          OBVIOUS
        <5>1. i \in 1 .. m /\ i # n
          BY <1>1
        <5> QED
          BY <1>1, <3>3, <5>1 DEF NoTwice
      <4> QED
        BY <2>1, <3>1, <3>3, <4>1, AppendedOnce
    <3> QED
      BY <2>1, <2>2, <2>3, <3>2, <3>3
  <2>4. CASE s[n] \notin S
    <3>1. k[n] = k[n - 1]
      BY <1>2, <2>4
    <3> QED
      BY <2>1, <2>2, <3>1
  <2> QED
    BY <2>3, <2>4
<1>5. m \in G
  <2> HIDE DEF G
  <2> QED
    BY <1>1, <1>3, <1>4, CountingUp
<1>6. Of(m) = ToSet(s)
  BY <1>1 DEF ToSet
<1> QED
  BY <1>2, <1>5, <1>6

\* A sequence without an element twice is as long as it has elements.
LEMMA AsLongAsMany ==
    ASSUME NEW T, NEW s \in Seq(T), NoTwice(s)
    PROVE  Len(s) = Cardinality(ToSet(s)) /\ Len(s) \in Nat
<1>1. Len(s) \in Nat /\ DOMAIN s = 1 .. Len(s)
  BY LenProperties
<1>2. s \in Bijection(1 .. Len(s), ToSet(s))
  <2>1. s \in [1 .. Len(s) -> ToSet(s)]
    BY <1>1, LenProperties DEF ToSet
  <2>2. \A t \in ToSet(s) : \E i \in 1 .. Len(s) : s[i] = t
    BY <1>1 DEF ToSet
  <2>3. \A i, j \in 1 .. Len(s) : s[i] = s[j] => i = j
    BY <1>1 DEF NoTwice
  <2> QED
    BY <2>1, <2>2, <2>3 DEF Bijection, Injection, Surjection, IsInjective
<1>3. IsFiniteSet(1 .. Len(s)) /\ Cardinality(1 .. Len(s)) = Len(s)
  BY <1>1, FS_Interval
<1> QED
  BY <1>1, <1>2, <1>3, FS_Bijection DEF ExistsBijection

-----------------------------------------------------------------------------
(***************************************************************************)
(* The lists of the sidebar, and the path field with its filter.           *)
(***************************************************************************)

ListsOf == [favorites : SUBSET Items, files : Seq(Items), workPaths : Seq(Folders)]
Chosen == [favorites : Items \cup {NoItem}, files : Items \cup {NoItem},
            workPaths : Items \cup {NoItem}]
FieldStates == [editing : BOOLEAN, submitting : BOOLEAN, pattern : Patterns, previous : Patterns]
FilterStates == [name : Patterns, pending : BOOLEAN, tree : Patterns]

\* A list of at most 32, none of them twice.
Short(list) == NoTwice(list) /\ Len(list) <= MaxRecent

\* The lists as they are, and as they are saved.
Proper(l) ==
    /\ l \in ListsOf /\ Short(l.files) /\ Short(l.workPaths)
    /\ Cardinality(l.favorites) <= MaxFavorites

\* The last one that was opened heads its list.
IsHead == \/ lastOpened = NoItem
          \/ lists.files # <<>> /\ lastOpened = Head(lists.files)
          \/ lists.workPaths # <<>> /\ lastOpened = Head(lists.workPaths)

PathsInv ==
    /\ Proper(lists) /\ Proper(saved)
    /\ chosen \in Chosen /\ lastOpened \in Items \cup {NoItem}
    /\ chosen.favorites \in lists.favorites \cup {NoItem}
    /\ IsHead

FieldInv ==
    /\ field \in FieldStates /\ filter \in FilterStates
    /\ field.pattern = filter.name
    /\ ~filter.pending => filter.tree = filter.name

ListInv == PathsInv /\ FieldInv

\* What comes to the front heads the list, which stays short and keeps its kind.
LEMMA ForemostFacts ==
    ASSUME NEW T, T \subseteq Items, NEW path \in T, NEW list \in Seq(T), NoTwice(list)
    PROVE  /\ Foremost(path, list) \in Seq(T) /\ Short(Foremost(path, list))
           /\ Foremost(path, list) # <<>> /\ Head(Foremost(path, list)) = path
<1> DEFINE a == Among(list, Items \ {path})
           all == <<path>> \o a
           n == IF Len(all) < MaxRecent THEN Len(all) ELSE MaxRecent
           r == SubSeq(all, 1, n)
<1>1. a \in Seq(T) /\ path \notin ToSet(a) /\ NoTwice(a)
  BY AmongFacts
<1> HIDE DEF a
<1>2. /\ all \in Seq(T) /\ Len(all) = 1 + Len(a) /\ Len(a) \in Nat /\ all[1] = path
      /\ \A i \in 1 .. Len(a) : all[i + 1] = a[i]
      /\ DOMAIN all = 1 .. Len(all) /\ DOMAIN a = 1 .. Len(a)
  <2>1. <<path>> \in Seq(T) /\ Len(<<path>>) = 1 /\ <<path>>[1] = path
    OBVIOUS
  <2>2. /\ all \in Seq(T) /\ Len(all) = 1 + Len(a)
        /\ \A i \in 1 .. Len(all) : all[i] = IF i <= 1 THEN <<path>>[i] ELSE a[i - 1]
    BY <1>1, <2>1, ConcatProperties
  <2>3. Len(a) \in Nat /\ DOMAIN a = 1 .. Len(a)
    BY <1>1, LenProperties
  <2>4. DOMAIN all = 1 .. Len(all)
    BY <2>2, LenProperties
  <2> HIDE DEF all
  <2>5. all[1] = path
    BY <2>1, <2>2, <2>3
  <2>6. ASSUME NEW i \in 1 .. Len(a) PROVE all[i + 1] = a[i]
    <3>1. i + 1 \in 1 .. Len(all) /\ ~(i + 1 <= 1) /\ (i + 1) - 1 = i
      BY <2>2, <2>3
    <3> QED
      BY <2>2, <3>1
  <2> QED
    BY <2>2, <2>3, <2>4, <2>5, <2>6
<1>3. NoTwice(all)
  <2> SUFFICES ASSUME NEW i \in DOMAIN all, NEW j \in DOMAIN all, all[i] = all[j]
               PROVE  i = j
    BY DEF NoTwice
  <2>1. \A k \in DOMAIN all : k = 1 \/ (k - 1 \in DOMAIN a /\ all[k] = a[k - 1] /\ k \in Nat)
    <3> HIDE DEF all
    <3> SUFFICES ASSUME NEW k \in DOMAIN all, k # 1
                 PROVE  k - 1 \in DOMAIN a /\ all[k] = a[k - 1] /\ k \in Nat
      OBVIOUS
    <3>1. k - 1 \in 1 .. Len(a) /\ (k - 1) + 1 = k /\ k \in Nat
      BY <1>2
    <3> QED
      BY <1>2, <3>1
  <2>2. \A k \in DOMAIN a : a[k] # path
    BY <1>1 DEF ToSet
  <2> HIDE DEF all
  <2>3. CASE i = 1 \/ j = 1
    BY <1>2, <2>1, <2>2, <2>3
  <2>4. CASE i # 1 /\ j # 1
    <3>1. i - 1 = j - 1 /\ i \in Nat /\ j \in Nat
      BY <1>1, <2>1, <2>4 DEF NoTwice
    <3> QED
      BY <3>1
  <2> QED
    BY <2>3, <2>4
<1> HIDE DEF all
<1>4. MaxRecent \in Nat \ {0}
  BY ListsAssumption
<1>5. n \in 1 .. Len(all) /\ n <= MaxRecent /\ n \in Nat
  BY <1>2, <1>4
<1> HIDE DEF n
<1>6. /\ r \in Seq(T) /\ Len(r) = n /\ DOMAIN r = 1 .. n
      /\ \A i \in 1 .. n : r[i] = all[i]
  <2>1. \A i \in 1 .. n : all[i] \in T
    BY <1>2, <1>5, ElementOfSeq
  <2>2. /\ r \in Seq(T) /\ Len(r) = (IF 1 <= n THEN n - 1 + 1 ELSE 0)
        /\ \A i \in 1 .. n - 1 + 1 : r[i] = all[1 + i - 1]
    BY <1>2, <1>5, <2>1, SubSeqProperties
  <2>3. Len(r) = n /\ n - 1 + 1 = n /\ \A i \in 1 .. n : 1 + i - 1 = i
    BY <1>5, <2>2
  <2>4. DOMAIN r = 1 .. Len(r)
    <3> HIDE DEF r
    <3> QED
      BY <2>2, LenProperties
  <2> HIDE DEF r
  <2> QED
    BY <2>2, <2>3, <2>4
<1>7. Foremost(path, list) = r
  BY DEF Foremost, r, n, all, a
<1> HIDE DEF r
<1>8. r # <<>> /\ Head(r) = path
  BY <1>2, <1>5, <1>6
<1>9. NoTwice(r)
  BY <1>2, <1>3, <1>5, <1>6 DEF NoTwice
<1> QED
  BY <1>5, <1>6, <1>7, <1>8, <1>9 DEF Short

\* The rows show the favorites, and a separator.
LEMMA RowsFacts ==
    ASSUME NEW favorites \in SUBSET Items, NEW row \in DOMAIN RowsOf(favorites)
    PROVE  RowsOf(favorites)[row] \in favorites \cup {Separator}
<1> DEFINE folders == Sorted(favorites \cap Folders)  files == Sorted(favorites \ Folders)
           between == IF folders = <<>> \/ files = <<>> THEN <<>> ELSE <<Separator>>
           U == Items \cup {Separator}
<1>1. /\ folders \in Seq(Items) /\ ToSet(folders) \subseteq favorites
      /\ files \in Seq(Items) /\ ToSet(files) \subseteq favorites
  BY ListsAssumption, AmongFacts DEF Sorted
<1> HIDE DEF folders, files
<1>2. between \in Seq(U) /\ ToSet(between) \subseteq {Separator}
  <2>1. <<>> \in Seq(U) /\ ToSet(<<>>) = {}
    BY NoElements, EmptySeq
  <2>2. <<Separator>> \in Seq(U) /\ ToSet(<<Separator>>) = {Separator}
    BY DEF ToSet
  <2> QED
    BY <2>1, <2>2
<1> HIDE DEF between
<1>3. folders \in Seq(U) /\ files \in Seq(U)
  <2>1. Items \subseteq U
    OBVIOUS
  <2> HIDE DEF U
  <2> QED
    BY <1>1, <2>1
<1> HIDE DEF U
<1>4. /\ folders \o between \in Seq(U)
      /\ ToSet(folders \o between) = ToSet(folders) \cup ToSet(between)
  BY <1>2, <1>3, Concatenated
<1>5. ToSet((folders \o between) \o files) \subseteq favorites \cup {Separator}
  <2> DEFINE both == folders \o between
  <2>1. both \in Seq(U) /\ ToSet(both) \subseteq favorites \cup {Separator}
    BY <1>1, <1>2, <1>4
  <2> HIDE DEF both
  <2>2. ToSet(both \o files) = ToSet(both) \cup ToSet(files)
    BY <1>3, <2>1, Concatenated
  <2>3. ToSet(both \o files) \subseteq favorites \cup {Separator}
    BY <1>1, <2>1, <2>2
  <2> QED
    BY <2>3 DEF both
<1>6. RowsOf(favorites) = (folders \o between) \o files
  BY DEF RowsOf, folders, files, between
<1> QED
  BY <1>5, <1>6 DEF ToSet

\* A list with what comes to its front, or with the favorites that are left.
LEMMA ProperFacts ==
    ASSUME NEW l, Proper(l)
    PROVE  /\ \A path \in Items : Proper([l EXCEPT !.files = Foremost(path, @)])
           /\ \A path \in Folders : Proper([l EXCEPT !.workPaths = Foremost(path, @)])
           /\ \A F \in SUBSET Items :
                 Cardinality(F) <= MaxFavorites => Proper([l EXCEPT !.favorites = F])
<1>1. /\ l \in ListsOf /\ l.favorites \in SUBSET Items /\ l.files \in Seq(Items)
      /\ l.workPaths \in Seq(Folders) /\ Short(l.files) /\ Short(l.workPaths)
      /\ Cardinality(l.favorites) <= MaxFavorites
  BY DEF Proper, ListsOf
<1>2. NoTwice(l.files) /\ NoTwice(l.workPaths) /\ Folders \subseteq Items
  BY <1>1, ListsAssumption DEF Short
<1>3. ASSUME NEW f \in Seq(Items), Short(f) PROVE Proper([l EXCEPT !.files = f])
  <2>1. /\ [l EXCEPT !.files = f] \in ListsOf /\ [l EXCEPT !.files = f].files = f
        /\ [l EXCEPT !.files = f].workPaths = l.workPaths
        /\ [l EXCEPT !.files = f].favorites = l.favorites
    BY <1>1 DEF ListsOf
  <2> QED
    BY <1>1, <1>3, <2>1 DEF Proper
<1>4. ASSUME NEW w \in Seq(Folders), Short(w) PROVE Proper([l EXCEPT !.workPaths = w])
  <2>1. /\ [l EXCEPT !.workPaths = w] \in ListsOf /\ [l EXCEPT !.workPaths = w].files = l.files
        /\ [l EXCEPT !.workPaths = w].workPaths = w
        /\ [l EXCEPT !.workPaths = w].favorites = l.favorites
    BY <1>1 DEF ListsOf
  <2> QED
    BY <1>1, <1>4, <2>1 DEF Proper
<1>5. ASSUME NEW F \in SUBSET Items, Cardinality(F) <= MaxFavorites
      PROVE  Proper([l EXCEPT !.favorites = F])
  <2>1. /\ [l EXCEPT !.favorites = F] \in ListsOf /\ [l EXCEPT !.favorites = F].files = l.files
        /\ [l EXCEPT !.favorites = F].workPaths = l.workPaths
        /\ [l EXCEPT !.favorites = F].favorites = F
    BY <1>1 DEF ListsOf
  <2> QED
    BY <1>1, <1>5, <2>1 DEF Proper
<1>6. ASSUME NEW path \in Items PROVE Proper([l EXCEPT !.files = Foremost(path, @)])
  <2>1. Foremost(path, l.files) \in Seq(Items) /\ Short(Foremost(path, l.files))
    BY <1>1, <1>2, ForemostFacts
  <2> QED
    BY <1>3, <2>1
<1>7. ASSUME NEW path \in Folders PROVE Proper([l EXCEPT !.workPaths = Foremost(path, @)])
  <2>1. Foremost(path, l.workPaths) \in Seq(Folders) /\ Short(Foremost(path, l.workPaths))
    BY <1>1, <1>2, ForemostFacts
  <2> QED
    BY <1>4, <2>1
<1> QED
  BY <1>5, <1>6, <1>7

\* Favorites: one more while there is room, or one less.
LEMMA FavoritesFacts ==
    ASSUME NEW F \in SUBSET Items, Cardinality(F) <= MaxFavorites, NEW path \in Items
    PROVE  /\ Cardinality(F) < MaxFavorites => Cardinality(F \cup {path}) <= MaxFavorites
           /\ Cardinality(F \ {path}) <= MaxFavorites
<1>1. IsFiniteSet(Items)
  <2>1. Len(Entries) \in Nat /\ DOMAIN Entries = 1 .. Len(Entries)
    BY ListsAssumption, LenProperties
  <2>2. Entries \in Surjection(1 .. Len(Entries), Items)
    <3>1. Entries \in [1 .. Len(Entries) -> Items]
      BY <2>1, ListsAssumption, LenProperties
    <3>2. \A t \in Items : \E i \in 1 .. Len(Entries) : Entries[i] = t
      BY <2>1 DEF Items, ToSet
    <3> QED
      BY <3>1, <3>2 DEF Surjection
  <2> QED
    BY <2>1, <2>2, FS_Interval, FS_Surjection
<1>2. IsFiniteSet(F) /\ Cardinality(F) \in Nat
  BY <1>1, FS_Subset, FS_CardinalityType
<1>3. MaxFavorites \in Nat
  BY ListsAssumption
<1>4. Cardinality(F \cup {path}) = IF path \in F THEN Cardinality(F) ELSE Cardinality(F) + 1
  BY <1>2, FS_AddElement
<1>5. Cardinality(F \ {path}) = IF path \in F THEN Cardinality(F) - 1 ELSE Cardinality(F)
  BY <1>2, FS_RemoveElement
<1>6. Cardinality(F) < MaxFavorites => Cardinality(F \cup {path}) <= MaxFavorites
  BY <1>2, <1>3, <1>4
<1>7. Cardinality(F \ {path}) <= MaxFavorites
  BY <1>2, <1>3, <1>5
<1> QED
  BY <1>6, <1>7

\* A start in the home folder, with the lists that were saved.
LEMMA AtHomeFacts ==
    ASSUME NEW l, Proper(l)
    PROVE  Proper(AtHome(l))
  BY ProperFacts, ListsAssumption DEF AtHome

\* The registry has the new lists, or the ones it had.
LEMMA UpdateFacts ==
    ASSUME Proper(saved), NEW new, Proper(new), Update(new)
    PROVE  lists' = new /\ Proper(lists') /\ Proper(saved')
  BY DEF Update

\* At first there is the home folder only.
LEMMA ListInitHolds == ListInit => ListInv
<1> SUFFICES ASSUME ListInit PROVE ListInv
  OBVIOUS
<1>1. Proper(Empty)
  <2>0. MaxFavorites \in Nat /\ MaxRecent \in Nat
    BY ListsAssumption
  <2>1. Empty \in ListsOf /\ Empty.files = <<>> /\ Empty.workPaths = <<>> /\ Empty.favorites = {}
    BY DEF Empty, ListsOf
  <2>2. Short(<<>>)
    <3>1. DOMAIN <<>> = {} /\ Len(<<>>) = 0
      OBVIOUS
    <3> QED
      BY <2>0, <3>1 DEF Short, NoTwice
  <2>3. Cardinality({}) <= MaxFavorites
    BY <2>0, FS_EmptySet
  <2> QED
    BY <2>1, <2>2, <2>3 DEF Proper
<1>2. /\ lists = AtHome(Empty) /\ saved \in {Empty, AtHome(Empty)}
      /\ chosen = NoChoice /\ lastOpened = NoItem /\ field = NoField /\ filter = NoFilter
  BY DEF ListInit
<1>3. Proper(lists) /\ Proper(saved)
  BY <1>1, <1>2, AtHomeFacts
<1>4. chosen \in Chosen /\ chosen.favorites = NoItem
  BY <1>2 DEF NoChoice, Chosen
<1>5. FieldInv
  BY <1>2, ListsAssumption DEF FieldInv, NoField, NoFilter, FieldStates, FilterStates
<1> QED
  BY <1>2, <1>3, <1>4, <1>5 DEF ListInv, PathsInv, IsHead

\* A path that is opened comes to the front of its list.
LEMMA ItemOpenedKeeps ==
    ASSUME PathsInv, NEW path \in Items, ItemOpened(path), chosen' \in Chosen,
           chosen'.favorites \in lists.favorites \cup {NoItem}
    PROVE  PathsInv'
<1>1. /\ Proper(lists) /\ Proper(saved) /\ lists \in ListsOf /\ lists.files \in Seq(Items)
      /\ lists.workPaths \in Seq(Folders) /\ NoTwice(lists.files) /\ NoTwice(lists.workPaths)
      /\ Folders \subseteq Items
  BY ListsAssumption DEF PathsInv, Proper, ListsOf, Short
<1>2. CASE path \in Folders
  <2> DEFINE w == Foremost(path, lists.workPaths)
             new == [lists EXCEPT !.workPaths = w]
  <2>1. w # <<>> /\ Head(w) = path
    BY <1>1, <1>2, ForemostFacts
  <2>2. Proper(new)
    BY <1>1, <1>2, ProperFacts
  <2>3. Update(new) /\ lastOpened' = path
    BY <1>2 DEF ItemOpened
  <2> HIDE DEF w
  <2>4. new.workPaths = w /\ new.favorites = lists.favorites
    BY <1>1 DEF ListsOf
  <2> HIDE DEF new
  <2>5. lists' = new /\ Proper(lists') /\ Proper(saved')
    BY <1>1, <2>2, <2>3, UpdateFacts
  <2> QED
    BY <2>1, <2>3, <2>4, <2>5 DEF PathsInv, IsHead
<1>3. CASE path \notin Folders
  <2> DEFINE f == Foremost(path, lists.files)
             new == [lists EXCEPT !.files = f]
  <2>1. f # <<>> /\ Head(f) = path
    BY <1>1, <1>3, ForemostFacts
  <2>2. Proper(new)
    BY <1>1, <1>3, ProperFacts
  <2>3. Update(new) /\ lastOpened' = path
    BY <1>3 DEF ItemOpened
  <2> HIDE DEF f
  <2>4. new.files = f /\ new.favorites = lists.favorites
    BY <1>1 DEF ListsOf
  <2> HIDE DEF new
  <2>5. lists' = new /\ Proper(lists') /\ Proper(saved')
    BY <1>1, <2>2, <2>3, UpdateFacts
  <2> QED
    BY <2>1, <2>3, <2>4, <2>5 DEF PathsInv, IsHead
<1> QED
  BY <1>2, <1>3

\* Favorites are changed, or something is chosen.
LEMMA FavoritesKeep ==
    ASSUME PathsInv, chosen' \in Chosen, lastOpened' = lastOpened,
           NEW F \in SUBSET Items, Cardinality(F) <= MaxFavorites,
           \/ Update([lists EXCEPT !.favorites = F])
           \/ F = lists.favorites /\ UNCHANGED <<lists, saved>>,
           chosen'.favorites \in F \cup {NoItem}
    PROVE  PathsInv'
<1>1. Proper(lists) /\ Proper(saved) /\ lists \in ListsOf /\ IsHead /\ lastOpened \in Items \cup {NoItem}
  BY DEF PathsInv, Proper
<1> DEFINE new == [lists EXCEPT !.favorites = F]
<1>2. /\ new.favorites = F /\ new.files = lists.files /\ new.workPaths = lists.workPaths
  BY <1>1 DEF ListsOf
<1>3. Proper(new)
  BY <1>1, ProperFacts
<1> HIDE DEF new
<1>4. /\ Proper(lists') /\ Proper(saved') /\ lists'.favorites = F
      /\ lists'.files = lists.files /\ lists'.workPaths = lists.workPaths
  <2>1. CASE Update(new)
    BY <1>1, <1>2, <1>3, <2>1, UpdateFacts
  <2>2. CASE F = lists.favorites /\ UNCHANGED <<lists, saved>>
    BY <1>1, <2>2
  <2> QED
    BY <2>1, <2>2 DEF new
<1>5. IsHead'
  BY <1>1, <1>4 DEF IsHead
<1> QED
  BY <1>1, <1>4, <1>5 DEF PathsInv

\* What the panels do, choice by choice.
LEMMA PanelsKeep ==
    ASSUME PathsInv,
           \/ Restart \/ ForgetFile
           \/ \E path \in Items : \/ AddFavorite(path) \/ RemoveFavorite(path)
                                  \/ OpenElsewhere(path) \/ Accepted(path)
           \/ \E row \in 1 .. Len(Entries) + 1 : SelectFavorite(row)
           \/ \E list \in {"files", "workPaths"}, row \in 1 .. MaxRecent : Select(list, row)
           \/ \E list \in DOMAIN chosen, exists \in BOOLEAN : Activate(list, exists)
    PROVE  PathsInv'
<1>1. /\ Proper(lists) /\ Proper(saved) /\ lists \in ListsOf /\ lists.files \in Seq(Items)
      /\ lists.workPaths \in Seq(Folders) /\ lists.favorites \in SUBSET Items
      /\ Cardinality(lists.favorites) <= MaxFavorites /\ Folders \subseteq Items
      /\ chosen \in Chosen /\ chosen.favorites \in lists.favorites \cup {NoItem}
  BY ListsAssumption DEF PathsInv, Proper, ListsOf
<1>2. /\ \A p \in Items \cup {NoItem} : /\ [chosen EXCEPT !.favorites = p] \in Chosen
                                        /\ [chosen EXCEPT !.favorites = p].favorites = p
                                        /\ [chosen EXCEPT !.files = p] \in Chosen
                                        /\ [chosen EXCEPT !.files = p].favorites = chosen.favorites
                                        /\ [chosen EXCEPT !.workPaths = p] \in Chosen
                                        /\ [chosen EXCEPT !.workPaths = p].favorites = chosen.favorites
      /\ DOMAIN chosen = {"favorites", "files", "workPaths"}
  BY <1>1 DEF Chosen
<1>3. CASE Restart
  <2>1. Proper(AtHome(saved)) /\ Update(AtHome(saved)) /\ chosen' = NoChoice /\ lastOpened' = NoItem
    BY <1>1, <1>3, AtHomeFacts DEF Restart
  <2>2. Proper(lists') /\ Proper(saved')
    BY <1>1, <2>1, UpdateFacts
  <2>3. chosen' \in Chosen /\ chosen'.favorites = NoItem
    BY <2>1 DEF NoChoice, Chosen
  <2> QED
    BY <2>1, <2>2, <2>3 DEF PathsInv, IsHead
<1>4. CASE ForgetFile
  <2>1. chosen' = [chosen EXCEPT !.files = NoItem] /\ UNCHANGED <<lists, saved, lastOpened>>
    BY <1>4 DEF ForgetFile
  <2> QED
    BY <1>1, <1>2, <2>1, FavoritesKeep
<1>5. ASSUME NEW path \in Items, AddFavorite(path) PROVE PathsInv'
  <2> DEFINE F == lists.favorites \cup {path}
  <2>1. F \in SUBSET Items /\ Cardinality(F) <= MaxFavorites
    BY <1>1, <1>5, FavoritesFacts DEF AddFavorite
  <2>2. Update([lists EXCEPT !.favorites = F]) /\ UNCHANGED <<chosen, lastOpened>>
    BY <1>5 DEF AddFavorite
  <2>3. chosen'.favorites \in F \cup {NoItem}
    BY <1>1, <2>2
  <2> HIDE DEF F
  <2> QED
    BY <1>1, <2>1, <2>2, <2>3, FavoritesKeep
<1>6. ASSUME NEW path \in Items, RemoveFavorite(path) PROVE PathsInv'
  <2> DEFINE F == lists.favorites \ {path}
  <2>1. F \in SUBSET Items /\ Cardinality(F) <= MaxFavorites
    BY <1>1, FavoritesFacts
  <2>2. /\ Update([lists EXCEPT !.favorites = F]) /\ UNCHANGED lastOpened
        /\ chosen' = [chosen EXCEPT !.favorites = NoItem]
    BY <1>6 DEF RemoveFavorite
  <2> HIDE DEF F
  <2> QED
    BY <1>2, <2>1, <2>2, FavoritesKeep
<1>7. ASSUME NEW path \in Items, OpenElsewhere(path) \/ Accepted(path) PROVE PathsInv'
  BY <1>1, <1>7, ItemOpenedKeeps DEF OpenElsewhere, Accepted
<1>8. ASSUME NEW row, SelectFavorite(row) PROVE PathsInv'
  <2> DEFINE path == RowsOf(lists.favorites)[row]
             p == IF path = Separator THEN NoItem ELSE path
  <2>1. row \in DOMAIN RowsOf(lists.favorites)
    BY <1>8 DEF SelectFavorite
  <2>2. path \in lists.favorites \cup {Separator}
    BY <1>1, <2>1, RowsFacts
  <2>3. chosen' = [chosen EXCEPT !.favorites = p] /\ UNCHANGED <<lists, saved, lastOpened>>
    BY <1>8 DEF SelectFavorite
  <2>4. p \in lists.favorites \cup {NoItem} /\ p \in Items \cup {NoItem}
    BY <1>1, <2>2
  <2> HIDE DEF path, p
  <2>5. chosen' \in Chosen /\ chosen'.favorites = p
    BY <1>2, <2>3, <2>4
  <2> QED
    BY <1>1, <2>3, <2>4, <2>5, FavoritesKeep
<1>9. ASSUME NEW list \in {"files", "workPaths"}, NEW row, Select(list, row) PROVE PathsInv'
  <2>1. /\ row \in DOMAIN lists[list] /\ chosen' = [chosen EXCEPT ![list] = lists[list][row]]
        /\ UNCHANGED <<lists, saved, lastOpened>>
    BY <1>9 DEF Select
  <2>2. CASE list = "files"
    <3> DEFINE p == lists.files[row]
    <3>1. p \in Items
      BY <1>1, <2>1, <2>2, LenProperties
    <3>2. chosen' = [chosen EXCEPT !.files = p]
      BY <2>1, <2>2
    <3> HIDE DEF p
    <3>3. chosen' \in Chosen /\ chosen'.favorites = chosen.favorites
      BY <1>2, <3>1, <3>2
    <3> QED
      BY <1>1, <2>1, <3>3, FavoritesKeep
  <2>3. CASE list = "workPaths"
    <3> DEFINE p == lists.workPaths[row]
    <3>1. p \in Items
      BY <1>1, <2>1, <2>3, LenProperties
    <3>2. chosen' = [chosen EXCEPT !.workPaths = p]
      BY <2>1, <2>3
    <3> HIDE DEF p
    <3>3. chosen' \in Chosen /\ chosen'.favorites = chosen.favorites
      BY <1>2, <3>1, <3>2
    <3> QED
      BY <1>1, <2>1, <3>3, FavoritesKeep
  <2> QED
    BY <1>9, <2>2, <2>3
<1>10. ASSUME NEW list \in DOMAIN chosen, NEW exists, Activate(list, exists) PROVE PathsInv'
  <2>1. /\ chosen[list] # NoItem /\ chosen' = [chosen EXCEPT ![list] = NoItem]
        /\ ItemOpened(chosen[list]) \/ UNCHANGED <<lists, saved, lastOpened>>
    BY <1>10 DEF Activate
  <2>2. chosen' \in Chosen /\ chosen'.favorites \in lists.favorites \cup {NoItem}
    <3>1. CASE list = "favorites"
      <4>1. chosen' = [chosen EXCEPT !.favorites = NoItem]
        BY <2>1, <3>1
      <4> QED
        BY <1>2, <4>1
    <3>2. CASE list = "files"
      <4>1. chosen' = [chosen EXCEPT !.files = NoItem]
        BY <2>1, <3>2
      <4> QED
        BY <1>1, <1>2, <4>1
    <3>3. CASE list = "workPaths"
      <4>1. chosen' = [chosen EXCEPT !.workPaths = NoItem]
        BY <2>1, <3>3
      <4> QED
        BY <1>1, <1>2, <4>1
    <3> QED
      BY <1>2, <1>10, <3>1, <3>2, <3>3
  <2>3. CASE ItemOpened(chosen[list])
    <3>1. chosen[list] \in Items
      BY <1>1, <1>2, <1>10, <2>1 DEF Chosen
    <3> QED
      BY <2>2, <2>3, <3>1, ItemOpenedKeeps
  <2>4. CASE UNCHANGED <<lists, saved, lastOpened>>
    BY <1>1, <2>2, <2>4, FavoritesKeep
  <2> QED
    BY <2>1, <2>3, <2>4
<1> QED
  BY <1>3, <1>4, <1>5, <1>6, <1>7, <1>8, <1>9, <1>10

\* The path field sets the filter with its pattern.
LEMMA FilteredKeeps ==
    ASSUME FieldInv, NEW pattern \in Patterns, Filtered(pattern),
           field' \in FieldStates, field'.pattern = pattern
    PROVE  FieldInv'
<1> DEFINE f == [filter EXCEPT !.name = pattern, !.pending = TRUE]
<1>1. filter \in FilterStates
  BY DEF FieldInv
<1>2. f \in FilterStates /\ f.name = pattern /\ f.pending = TRUE
  BY <1>1 DEF FilterStates
<1>3. filter' = IF filter.name = pattern THEN filter ELSE f
  BY DEF Filtered
<1> HIDE DEF f
<1> QED
  BY <1>2, <1>3 DEF FieldInv

\* The path field.
LEMMA FieldKeeps ==
    ASSUME FieldInv,
           \/ Restart
           \/ \E path \in Items : Accepted(path)
           \/ \E pattern \in Patterns : Type(pattern)
           \/ BeginEditing \/ Escape \/ Blur \/ Submit \/ Refused \/ ClearFilter \/ ApplyNameFilter
    PROVE  FieldInv'
<1>1. /\ field \in FieldStates /\ filter \in FilterStates /\ field.pattern \in Patterns
      /\ field.previous \in Patterns /\ field.pattern = filter.name /\ "" \in Patterns
  BY ListsAssumption DEF FieldInv, FieldStates
<1>2. CASE Restart
  BY <1>1, <1>2 DEF Restart, FieldInv, NoField, NoFilter, FieldStates, FilterStates
<1>3. CASE Escape \/ \E path \in Items : Accepted(path)
  <2>1. /\ field' = [field EXCEPT !.editing = FALSE, !.submitting = FALSE, !.pattern = field.previous]
        /\ Filtered(field.previous)
    BY <1>3 DEF Escape, Accepted, PutBack
  <2>2. field' \in FieldStates /\ field'.pattern = field.previous
    BY <1>1, <2>1 DEF FieldStates
  <2> QED
    BY <1>1, <2>1, <2>2, FilteredKeeps
<1>4. ASSUME NEW pattern \in Patterns, Type(pattern) PROVE FieldInv'
  <2>1. field' = [field EXCEPT !.pattern = pattern] /\ Filtered(pattern)
    BY <1>4 DEF Type
  <2>2. field' \in FieldStates /\ field'.pattern = pattern
    BY <1>1, <2>1 DEF FieldStates
  <2> QED
    BY <2>1, <2>2, FilteredKeeps
<1>5. CASE ClearFilter
  <2>1. /\ field' = [field EXCEPT !.editing = FALSE, !.pattern = "", !.previous = ""] /\ Filtered("")
    BY <1>5 DEF ClearFilter
  <2>2. field' \in FieldStates /\ field'.pattern = ""
    BY <1>1, <2>1 DEF FieldStates
  <2> QED
    BY <1>1, <2>1, <2>2, FilteredKeeps
<1>6. CASE BeginEditing \/ Blur \/ Submit \/ Refused
  <2>1. /\ UNCHANGED filter /\ field' \in FieldStates /\ field'.pattern = field.pattern
    <3>1. CASE BeginEditing
      BY <1>1, <3>1 DEF BeginEditing, FieldStates
    <3>2. CASE Blur
      BY <1>1, <3>2 DEF Blur, FieldStates
    <3>3. CASE Submit
      BY <1>1, <3>3 DEF Submit, FieldStates
    <3>4. CASE Refused
      BY <1>1, <3>4 DEF Refused, FieldStates
    <3> QED
      BY <1>6, <3>1, <3>2, <3>3, <3>4
  <2> QED
    BY <1>1, <2>1 DEF FieldInv
<1>7. CASE ApplyNameFilter
  <2>1. /\ filter' = [filter EXCEPT !.pending = FALSE, !.tree = filter.name] /\ field' = field
    BY <1>7 DEF ApplyNameFilter
  <2>2. filter' \in FilterStates /\ filter'.name = filter.name /\ filter'.tree = filter.name
    BY <1>1, <2>1 DEF FilterStates
  <2> QED
    BY <1>1, <2>1, <2>2 DEF FieldInv
<1> QED
  BY <1>2, <1>3, <1>4, <1>5, <1>6, <1>7

\* Every step of the lists and the path field keeps the invariant.
LEMMA ListStepKeeps == ListInv /\ [ListNext]_listVars => ListInv'
<1> SUFFICES ASSUME ListInv, [ListNext]_listVars PROVE ListInv'
  OBVIOUS
<1>1. PathsInv /\ FieldInv
  BY DEF ListInv
<1>2. UNCHANGED <<lists, chosen, saved, lastOpened>> => PathsInv'
  BY <1>1 DEF PathsInv, IsHead
<1>3. UNCHANGED <<field, filter>> => FieldInv'
  BY <1>1 DEF FieldInv
<1>4. CASE UNCHANGED listVars
  BY <1>2, <1>3, <1>4 DEF listVars, ListInv
<1>5. CASE Restart \/ \E path \in Items : Accepted(path)
  BY <1>1, <1>5, PanelsKeep, FieldKeeps DEF ListInv
<1>6. CASE \/ ForgetFile
           \/ \E path \in Items : AddFavorite(path) \/ RemoveFavorite(path) \/ OpenElsewhere(path)
           \/ \E row \in 1 .. Len(Entries) + 1 : SelectFavorite(row)
           \/ \E list \in {"files", "workPaths"}, row \in 1 .. MaxRecent : Select(list, row)
           \/ \E list \in DOMAIN chosen, exists \in BOOLEAN : Activate(list, exists)
  <2>1. PathsInv'
    BY <1>1, <1>6, PanelsKeep
  <2>2. ListsOnly
    BY <1>6 DEF ForgetFile, AddFavorite, RemoveFavorite, OpenElsewhere, SelectFavorite, Select, Activate
  <2> QED
    BY <1>3, <2>1, <2>2 DEF ListsOnly, ListInv
<1>7. CASE \/ \E pattern \in Patterns : Type(pattern)
           \/ BeginEditing \/ Escape \/ Blur \/ Submit \/ Refused \/ ClearFilter \/ ApplyNameFilter
  <2>1. FieldInv'
    BY <1>1, <1>7, FieldKeeps
  <2>2. FieldOnly
    BY <1>7 DEF Type, BeginEditing, Escape, Blur, Submit, Refused, ClearFilter, ApplyNameFilter
  <2> QED
    BY <1>2, <2>1, <2>2 DEF FieldOnly, ListInv
<1> QED
  BY <1>4, <1>5, <1>6, <1>7 DEF ListNext

\* It says that nothing is lost or shown twice.
LEMMA ListInvMeans == ListInv => ListTypeOK /\ ListsHold
<1> SUFFICES ASSUME ListInv PROVE ListTypeOK /\ ListsHold
  OBVIOUS
<1>1. /\ Proper(lists) /\ Proper(saved) /\ lists \in ListsOf /\ saved \in ListsOf
      /\ lists.files \in Seq(Items) /\ lists.workPaths \in Seq(Folders)
      /\ Short(lists.files) /\ Short(lists.workPaths)
      /\ Cardinality(lists.favorites) <= MaxFavorites
      /\ chosen \in Chosen /\ lastOpened \in Items \cup {NoItem}
      /\ chosen.favorites \in lists.favorites \cup {NoItem} /\ IsHead
  BY DEF ListInv, PathsInv, Proper, ListsOf
<1>2. ListTypeOK
  <2>1. {lists, saved} \subseteq
           [favorites : SUBSET Items, files : Seq(Items), workPaths : Seq(Folders)]
    BY <1>1 DEF ListsOf
  <2>2. DOMAIN chosen = DOMAIN NoChoice /\ \A l \in DOMAIN chosen : chosen[l] \in Items \cup {NoItem}
    BY <1>1 DEF Chosen, NoChoice
  <2>3. /\ field.pattern \in Patterns /\ field.previous \in Patterns
        /\ filter.name \in Patterns /\ filter.tree \in Patterns
    BY DEF ListInv, FieldInv, FieldStates, FilterStates
  <2> QED
    BY <1>1, <2>1, <2>2, <2>3 DEF ListTypeOK
<1>3. ListsHold
  <2>1. \A list \in {lists.files, lists.workPaths} :
           Len(list) <= MaxRecent /\ Len(list) = Cardinality(ToSet(list))
    BY <1>1, AsLongAsMany DEF Short
  <2>2. lastOpened # NoItem =>
           lastOpened \in {Head(l) : l \in {lists.files, lists.workPaths} \ {<<>>}}
    BY <1>1 DEF IsHead
  <2>3. field.pattern = filter.name /\ (~filter.pending => filter.tree = filter.name)
    BY DEF ListInv, FieldInv
  <2> QED
    BY <1>1, <2>1, <2>2, <2>3 DEF ListsHold
<1> QED
  BY <1>2, <1>3

\* No entry is lost or twice in a list, a favorite that was removed is not
\* opened, the tree's filter is the one in the path field: FavoritesPanel,
\* RecentFilesPanel, WorkPathHistory and DocumentPathField.
THEOREM ListsAreHeld == ListSpec => [](ListTypeOK /\ ListsHold)
<1>1. ListInit => ListInv
  BY ListInitHolds
<1>2. ListInv /\ [ListNext]_listVars => ListInv'
  BY ListStepKeeps
<1>3. ListInv => ListTypeOK /\ ListsHold
  BY ListInvMeans
<1> QED
  BY <1>1, <1>2, <1>3, PTL DEF ListSpec

-----------------------------------------------------------------------------
(***************************************************************************)
(* View modes and scale.                                                   *)
(***************************************************************************)

Modes == {"preview", "editor", "split"}
Panes == [editor : Nat, preview : Nat]
Fractions == [left : Nat, of : Nat \ {0}]
Zooms == [selected : {"manual", "width", "height"}, applied : Nat]

\* The types, and a fraction that is one.
ZoomShape ==
    /\ width \in Widths /\ view \in Modes /\ panes \in Panes /\ paged \in BOOLEAN
    /\ fraction \in Fractions /\ fraction.left <= fraction.of
    /\ zoom \in Zooms

\* A scale as a refresh leaves it, for panes in this mode.
Fits(mode, p, isPaged, z) ==
    /\ z.selected = "manual" => z.applied \in 25 .. 300
    /\ z.selected # "manual" =>
          /\ isPaged
          /\ \A room \in Visible(mode, p, z.selected) :
                LET paper == IF z.selected = "width" THEN Paper.width ELSE Paper.height
                IN z.applied <= 5 \/ z.applied * paper <= 100 * room

ZoomInv == /\ ZoomShape /\ scale = zoom.applied /\ Fits(view, panes, paged, zoom)
           /\ view = "split" => panes.editor + panes.preview = width

\* What the constants are.
LEMMA ZoomConstants ==
    /\ \A w \in Widths : w \in Nat
    /\ Height \in Nat /\ Paper.width \in Nat \ {0} /\ Paper.height \in Nat \ {0}
    /\ Percents \subseteq Int /\ Steps \subseteq Int
  BY ZoomAssumption

\* There is a least one in a set of numbers.
LEMMA LeastExists ==
    ASSUME NEW S \in SUBSET Nat, S # {}
    PROVE  \E x \in S : \A y \in S : x <= y
<1> DEFINE Less == {p \in Nat \X Nat : p[1] < p[2]}
<1>1. OpToRel(<, Nat) = Less
  BY DEF OpToRel
<1>2. IsWellFoundedOn(Less, Nat)
  BY <1>1, NatLessThanWellFounded
<1>3. PICK x \in S : \A y \in S : ~(<<y, x>> \in Less)
  <2> HIDE DEF Less
  <2> QED
    BY <1>2, WFMin
<1>4. ASSUME NEW y \in S PROVE x <= y
  <2>1. x \in Nat /\ y \in Nat /\ ~(<<y, x>> \in Less)
    BY <1>3
  <2>2. ~(y < x)
    BY <2>1
  <2> QED
    BY <2>1, <2>2
<1> QED
  BY <1>4

\* A page that is fitted fits in each pane that is large enough.
LEMMA FittedFits ==
    ASSUME NEW mode, NEW p \in Panes, NEW selected \in {"width", "height"}, NEW applied \in Nat
    PROVE  /\ Fitted(mode, p, selected, applied) \in Nat
           /\ \A room \in Visible(mode, p, selected) :
                 LET paper == IF selected = "width" THEN Paper.width ELSE Paper.height
                 IN \/ Fitted(mode, p, selected, applied) <= 5
                    \/ Fitted(mode, p, selected, applied) * paper <= 100 * room
<1> DEFINE rooms == Visible(mode, p, selected)
           least == CHOOSE x \in rooms : \A y \in rooms : x <= y
           paper == IF selected = "width" THEN Paper.width ELSE Paper.height
           q == (100 * least) \div paper
           fitted == Fitted(mode, p, selected, applied)
<1>1. paper \in Nat \ {0}
  BY ZoomConstants
<1>2. rooms \in SUBSET Nat
  <2>1. p.editor \in Nat /\ p.preview \in Nat /\ Height \in Nat
    BY ZoomConstants DEF Panes
  <2> QED
    BY <2>1 DEF Visible
<1>3. fitted = IF rooms = {} THEN applied ELSE Limit(q, 5, 800)
  BY DEF Fitted
<1> HIDE DEF rooms, paper, fitted
<1>4. CASE rooms = {}
  <2>1. fitted \in Nat /\ \A room \in rooms : fitted <= 5 \/ fitted * paper <= 100 * room
    BY <1>3, <1>4
  <2> QED
    BY <2>1 DEF rooms, paper, fitted
<1>5. CASE rooms # {}
  <2>1. \E x \in rooms : \A y \in rooms : x <= y
    BY <1>2, <1>5, LeastExists
  <2>2. least \in rooms /\ \A y \in rooms : least <= y
    BY <2>1
  <2> HIDE DEF least
  <2>3. least \in Nat /\ 100 * least \in Nat
    BY <1>2, <2>2
  <2>4. q \in Nat /\ paper * q <= 100 * least
    BY <1>1, <2>3
  <2> HIDE DEF q
  <2>5. fitted \in Nat /\ (fitted <= 5 \/ fitted <= q)
    BY <1>3, <1>5, <2>4 DEF Limit
  <2>6. ASSUME NEW room \in rooms PROVE fitted <= 5 \/ fitted * paper <= 100 * room
    <3>1. room \in Nat /\ 100 * least <= 100 * room
      BY <1>2, <2>2, <2>3
    <3>2. fitted <= q => fitted * paper <= q * paper
      BY <1>1, <2>4, <2>5
    <3>3. fitted * paper \in Nat /\ q * paper \in Nat /\ q * paper = paper * q
      BY <1>1, <2>4, <2>5
    <3> QED
      BY <2>3, <2>4, <2>5, <3>1, <3>2, <3>3
  <2> QED
    BY <2>5, <2>6 DEF rooms, paper, fitted
<1> QED
  BY <1>4, <1>5

\* What a refresh leaves fits.
LEMMA RefreshedFits ==
    ASSUME NEW mode, NEW p \in Panes, NEW isPaged \in BOOLEAN, NEW z \in Zooms,
           z.selected = "manual" => z.applied \in 25 .. 300
    PROVE  Refreshed(mode, p, isPaged, z) \in Zooms /\ Fits(mode, p, isPaged, Refreshed(mode, p, isPaged, z))
<1> DEFINE r == Refreshed(mode, p, isPaged, z)
<1>1. CASE z.selected = "manual"
  <2>1. r = z
    BY <1>1 DEF Refreshed
  <2> QED
    BY <1>1, <2>1 DEF Fits
<1>2. CASE z.selected # "manual" /\ ~isPaged
  <2> DEFINE a == Limit(z.applied, 25, 300)
  <2>1. z.applied \in Int
    BY DEF Zooms
  <2>2. a \in 25 .. 300
    BY <2>1 DEF Limit
  <2>3. r = [selected |-> "manual", applied |-> a]
    BY <1>2 DEF Refreshed
  <2> HIDE DEF a
  <2>4. r \in Zooms /\ r.selected = "manual" /\ r.applied = a
    BY <2>2, <2>3 DEF Zooms
  <2> QED
    BY <2>2, <2>4 DEF Fits
<1>3. CASE z.selected # "manual" /\ isPaged
  <2> DEFINE a == Fitted(mode, p, z.selected, z.applied)
  <2>1. z.selected \in {"width", "height"} /\ z.applied \in Nat
    BY <1>3 DEF Zooms
  <2>2. /\ a \in Nat
        /\ \A room \in Visible(mode, p, z.selected) :
              LET paper == IF z.selected = "width" THEN Paper.width ELSE Paper.height
              IN a <= 5 \/ a * paper <= 100 * room
    BY <2>1, FittedFits
  <2>3. r = [z EXCEPT !.applied = a]
    BY <1>3 DEF Refreshed
  <2> HIDE DEF a
  <2>4. r \in Zooms /\ r.selected = z.selected /\ r.applied = a
    BY <2>2, <2>3 DEF Zooms
  <2> QED
    BY <1>3, <2>2, <2>4 DEF Fits
<1> QED
  BY <1>1, <1>2, <1>3

\* A change that ends in a refresh.
LEMMA RefreshKeeps ==
    ASSUME NEW z \in Zooms, z.selected = "manual" => z.applied \in 25 .. 300, Refresh(z),
           width' \in Widths, view' \in Modes, panes' \in Panes, paged' \in BOOLEAN,
           fraction' \in Fractions, fraction'.left <= fraction'.of,
           view' = "split" => panes'.editor + panes'.preview = width'
    PROVE  ZoomInv'
<1> DEFINE r == Refreshed(view', panes', paged', z)
<1>1. r \in Zooms /\ Fits(view', panes', paged', r)
  BY RefreshedFits
<1>2. zoom' = r /\ scale' = zoom'.applied
  BY DEF Refresh
<1> HIDE DEF r
<1> QED
  BY <1>1, <1>2 DEF ZoomInv, ZoomShape, Fits

\* FOX's layout: in Split the panes have the width between them.
LEMMA LaidFacts ==
    ASSUME NEW w \in Nat, NEW mode \in Modes, NEW p \in Panes
    PROVE  /\ Laid(w, mode, p) \in Panes
           /\ mode = "split" => /\ Laid(w, mode, p).editor = AtMost(p.editor, w)
                                /\ Laid(w, mode, p).preview = w - AtMost(p.editor, w)
                                /\ Laid(w, mode, p).editor + Laid(w, mode, p).preview = w
<1>1. p.editor \in Nat /\ AtMost(p.editor, w) \in Nat /\ w - AtMost(p.editor, w) \in Nat
  BY DEF Panes, AtMost
<1> DEFINE e == AtMost(p.editor, w)
<1> HIDE DEF e
<1>2. CASE mode = "preview"
  BY <1>2 DEF Laid, Panes
<1>3. CASE mode = "editor"
  BY <1>3 DEF Laid, Panes
<1>4. CASE mode = "split"
  <2>1. Laid(w, mode, p) = [editor |-> e, preview |-> w - e]
    BY <1>4 DEF Laid, e
  <2>2. e \in Nat /\ w - e \in Nat /\ e + (w - e) = w
    BY <1>1 DEF e
  <2>3. Laid(w, mode, p) \in Panes
    BY <2>1, <2>2 DEF Panes
  <2> QED
    BY <2>1, <2>2, <2>3 DEF e
<1> QED
  BY <1>2, <1>3, <1>4 DEF Modes

\* The width is divided as the fraction says, to half a pixel or where one
\* pane would have nothing.
LEMMA DividedFacts ==
    ASSUME NEW f \in Fractions, f.left <= f.of, width \in Nat, width > 1
    PROVE  /\ Divided(f) \in Panes /\ Divided(f).editor > 0 /\ Divided(f).editor < width
           /\ Distance(Divided(f).editor * f.of, width * f.left) <= f.of
<1> DEFINE l == f.left  o == f.of
           q == (2 * width * l + o) \div (2 * o)
           size == Limit(q, 1, width - 1)
<1>1. l \in Nat /\ o \in Nat \ {0} /\ l <= o
  BY DEF Fractions
<1>2. Divided(f) = [editor |-> size, preview |-> width - size]
  BY DEF Divided
<1> HIDE DEF l, o
<1> DEFINE W == width * l  full == width * o
<1>3. W \in Nat /\ full \in Nat /\ W <= full /\ 2 * width * l = 2 * W
  BY <1>1
<1>4. /\ q \in Nat
      /\ (2 * o) * q <= 2 * width * l + o /\ 2 * width * l + o < (2 * o) * q + 2 * o
  <2>1. 2 * width * l + o \in Nat /\ 2 * o \in Nat \ {0}
    BY <1>1, <1>3
  <2> QED
    BY <2>1
<1> HIDE DEF q
<1> DEFINE Q == q * o
<1>5. Q \in Nat /\ 2 * Q <= 2 * W + o /\ 2 * W + o < 2 * Q + 2 * o
  <2>1. Q \in Nat /\ (2 * o) * q = 2 * Q
    BY <1>1, <1>4
  <2> QED
    BY <1>3, <1>4, <2>1
<1>6. size \in 1 .. width - 1
  BY <1>4 DEF Limit
<1> DEFINE so == size * o
<1>7. so \in Nat /\ so - W <= o /\ W - so <= o
  <2>1. CASE q < 1
    <3>1. size = 1 /\ so = o
      BY <1>1, <1>4, <2>1 DEF Limit
    <3>2. Q = 0
      BY <1>1, <1>4, <2>1
    <3> HIDE DEF size, so, W, Q
    <3> QED
      BY <1>1, <1>3, <1>5, <3>1, <3>2
  <2>2. CASE q > width - 1
    <3>1. size = width - 1 /\ q >= width
      BY <1>4, <2>2 DEF Limit
    <3>2. so = full - o
      BY <1>1, <3>1
    <3>3. Q >= full
      BY <1>1, <1>4, <3>1
    <3>4. so \in Nat
      BY <1>1, <1>6
    <3> HIDE DEF size, so, W, Q, full
    <3> QED
      BY <1>1, <1>3, <1>5, <3>2, <3>3, <3>4
  <2>3. CASE ~(q < 1) /\ ~(q > width - 1)
    <3>1. size = q /\ so = Q
      BY <1>4, <2>3 DEF Limit
    <3> HIDE DEF size, so, W, Q
    <3> QED
      BY <1>1, <1>3, <1>5, <3>1
  <2> QED
    BY <2>1, <2>2, <2>3
<1>8. Distance(so, W) <= o
  <2> HIDE DEF so, W
  <2> QED
    BY <1>1, <1>3, <1>7 DEF Distance
<1> HIDE DEF size
<1>9. /\ Divided(f) \in Panes /\ Divided(f).editor = size
  <2>1. size \in Nat /\ width - size \in Nat
    BY <1>6
  <2> QED
    BY <1>2, <2>1 DEF Panes
<1> QED
  BY <1>6, <1>8, <1>9 DEF l, o

\* The fraction that is remembered, and the panes before FOX lays them out.
LEMMA GeometryFacts ==
    ASSUME ZoomInv, NEW mode \in Modes
    PROVE  /\ Remembered \in Fractions /\ Remembered.left <= Remembered.of
           /\ Geometry(mode) \in Panes
           /\ view # "split" => Remembered = fraction
           /\ view # "split" /\ mode = "split" /\ width > 1 => Geometry(mode) = Divided(fraction)
<1>1. /\ width \in Nat /\ panes \in Panes /\ panes.editor \in Nat /\ panes.preview \in Nat
      /\ fraction \in Fractions /\ fraction.left <= fraction.of
  BY ZoomConstants DEF ZoomInv, ZoomShape, Panes
<1>2. Remembered \in Fractions /\ Remembered.left <= Remembered.of
  <2> DEFINE e == panes.editor  s == panes.editor + panes.preview
  <2>1. e >= 32 => [left |-> e, of |-> s] \in Fractions /\ e <= s
    BY <1>1 DEF Fractions
  <2> QED
    BY <1>1, <2>1 DEF Remembered
<1>3. Geometry(mode) \in {Divided(Remembered), panes} /\ (Geometry(mode) # panes => width > 1)
  BY DEF Geometry
<1>4. Geometry(mode) \in Panes
  BY <1>1, <1>2, <1>3, DividedFacts
<1>5. view # "split" => Remembered = fraction
  BY DEF Remembered
<1>6. view # "split" /\ mode = "split" /\ width > 1 => Geometry(mode) = Divided(fraction)
  BY <1>5 DEF Geometry
<1> QED
  BY <1>2, <1>4, <1>5, <1>6

\* At first the preview has the window.
LEMMA ZoomInitHolds == ZoomInit => ZoomInv
<1> SUFFICES ASSUME ZoomInit PROVE ZoomInv
  OBVIOUS
<1>1. width \in Widths /\ width \in Nat /\ width \div 2 \in Nat
  BY ZoomConstants DEF ZoomInit
<1> DEFINE half == width \div 2
<1>2. /\ view = "preview" /\ panes = [editor |-> half, preview |-> width]
      /\ fraction = [left |-> 1, of |-> 2] /\ paged = FALSE
      /\ zoom = [selected |-> "manual", applied |-> 100] /\ scale = 100
  BY DEF ZoomInit
<1>3. half \in Nat
  BY <1>1
<1> HIDE DEF half
<1>4. panes \in Panes /\ fraction \in Fractions /\ fraction.left <= fraction.of
  BY <1>1, <1>2, <1>3 DEF Panes, Fractions
<1>5. zoom \in Zooms /\ zoom.selected = "manual" /\ zoom.applied = 100
  BY <1>2 DEF Zooms
<1>6. ZoomShape
  BY <1>1, <1>2, <1>4, <1>5 DEF ZoomShape, Modes
<1>7. Fits(view, panes, paged, zoom)
  BY <1>5 DEF Fits
<1>8. scale = zoom.applied /\ view # "split"
  BY <1>2, <1>5
<1> QED
  BY <1>6, <1>7, <1>8 DEF ZoomInv

\* Every step of the views keeps the invariant.
LEMMA ZoomStepKeeps == ZoomInv /\ [ZoomNext]_zoomVars => ZoomInv'
<1> SUFFICES ASSUME ZoomInv, [ZoomNext]_zoomVars PROVE ZoomInv'
  OBVIOUS
<1>1. /\ width \in Widths /\ width \in Nat /\ view \in Modes /\ panes \in Panes /\ paged \in BOOLEAN
      /\ fraction \in Fractions /\ fraction.left <= fraction.of /\ zoom \in Zooms
      /\ zoom.applied \in Nat /\ (zoom.selected = "manual" => zoom.applied \in 25 .. 300)
      /\ view = "split" => panes.editor + panes.preview = width
  BY ZoomConstants DEF ZoomInv, ZoomShape, Fits, Zooms
<1>2. CASE UNCHANGED zoomVars
  BY <1>2 DEF zoomVars, ZoomInv, ZoomShape, Fits
<1>3. ASSUME NEW mode \in Modes, SetMode(mode) PROVE ZoomInv'
  <2> DEFINE p == Geometry(mode)  r == Remembered
  <2>1. p \in Panes /\ r \in Fractions /\ r.left <= r.of
    BY GeometryFacts
  <2>2. /\ fraction' = r /\ panes' = Laid(width, mode, p) /\ view' = mode
        /\ UNCHANGED <<width, paged>> /\ Refresh(zoom)
    BY <1>3 DEF SetMode
  <2> HIDE DEF p, r
  <2>3. panes' \in Panes /\ (mode = "split" => panes'.editor + panes'.preview = width)
    BY <1>1, <2>1, <2>2, LaidFacts
  <2> QED
    BY <1>1, <2>1, <2>2, <2>3, RefreshKeeps
<1>4. ASSUME NEW w \in Widths, DragSplit(w \div 4) PROVE ZoomInv'
  <2> DEFINE left == w \div 4
  <2>1. left \in Nat
    BY ZoomConstants
  <2>2. /\ left < width /\ panes' = [editor |-> left, preview |-> width - left]
        /\ UNCHANGED <<width, view, fraction, paged>> /\ Refresh(zoom)
    BY <1>4 DEF DragSplit
  <2> HIDE DEF left
  <2>3. width - left \in Nat /\ left + (width - left) = width
    BY <1>1, <2>1, <2>2
  <2>4. panes' \in Panes /\ panes'.editor + panes'.preview = width
    BY <2>1, <2>2, <2>3 DEF Panes
  <2> QED
    BY <1>1, <2>2, <2>4, RefreshKeeps
<1>5. ASSUME NEW w \in Widths, Resize(w) PROVE ZoomInv'
  <2>1. /\ width' = w /\ panes' = Laid(w, view, panes)
        /\ UNCHANGED <<view, fraction, paged>> /\ Refresh(zoom)
    BY <1>5 DEF Resize
  <2>2. panes' \in Panes /\ (view = "split" => panes'.editor + panes'.preview = w)
    BY <1>1, <2>1, ZoomConstants, LaidFacts
  <2> QED
    BY <1>1, <2>1, <2>2, RefreshKeeps
<1>6. ASSUME NEW on \in BOOLEAN, SetPaged(on) PROVE ZoomInv'
  BY <1>1, <1>6, RefreshKeeps DEF SetPaged
<1>7. ASSUME NEW percent \in Int, SetPercent(percent) PROVE ZoomInv'
  <2> DEFINE a == Limit(percent, 25, 300)
             z == [selected |-> "manual", applied |-> a]
  <2>1. a \in 25 .. 300
    BY DEF Limit
  <2>2. UNCHANGED <<width, panes, view, fraction, paged>> /\ Refresh(z)
    BY <1>7 DEF SetPercent
  <2> HIDE DEF a
  <2>3. z \in Zooms /\ z.applied \in 25 .. 300
    BY <2>1 DEF Zooms
  <2> HIDE DEF z
  <2> QED
    BY <1>1, <2>2, <2>3, RefreshKeeps
<1>8. ASSUME NEW steps \in Steps, Step(steps) PROVE ZoomInv'
  <2>1. zoom.applied + 10 * steps \in Int
    BY <1>1, ZoomConstants
  <2> QED
    BY <1>7, <1>8, <2>1 DEF Step
<1>9. ASSUME NEW selected \in {"width", "height"}, SetFit(selected) PROVE ZoomInv'
  <2> DEFINE z == [zoom EXCEPT !.selected = selected]
  <2>1. z \in Zooms /\ z.selected # "manual"
    BY <1>1 DEF Zooms
  <2>2. UNCHANGED <<width, panes, view, fraction, paged>> /\ Refresh(z)
    BY <1>9 DEF SetFit
  <2> HIDE DEF z
  <2> QED
    BY <1>1, <2>1, <2>2, RefreshKeeps
<1> QED
  BY <1>2, <1>3, <1>4, <1>5, <1>6, <1>7, <1>8, <1>9, ZoomConstants DEF ZoomNext, Modes

\* It makes pages fit.
LEMMA ZoomInvMeans == ZoomInv => ZoomTypeOK /\ PagesFit
  BY DEF ZoomInv, ZoomShape, ZoomTypeOK, PagesFit, Fits, Modes, Panes, Fractions, Zooms

\* The panes are divided as they were.
LEMMA SplitIsKept ==
    ASSUME ZoomInv, [ZoomNext]_zoomVars, view # "split", view' = "split", width > 1
    PROVE  /\ panes'.editor > 0 /\ panes'.preview > 0
           /\ Distance(panes'.editor * fraction.of, width * fraction.left) <= fraction.of
<1>1. SetMode("split")
  <2>1. view' # view
    OBVIOUS
  <2>2. ~UNCHANGED zoomVars
    BY <2>1 DEF zoomVars
  <2>3. \E mode \in {"preview", "editor", "split"} : SetMode(mode)
    BY <2>1, <2>2 DEF ZoomNext, Resize, DragSplit, SetPaged, SetPercent, Step, SetFit
  <2> QED
    BY <2>3 DEF SetMode
<1>2. /\ fraction \in Fractions /\ fraction.left <= fraction.of /\ width \in Nat
  BY ZoomConstants DEF ZoomInv, ZoomShape
<1> DEFINE d == Divided(fraction)
<1>3. /\ d \in Panes /\ d.editor > 0 /\ d.editor < width
      /\ Distance(d.editor * fraction.of, width * fraction.left) <= fraction.of
  BY <1>2, DividedFacts
<1>4. panes' = Laid(width, "split", d)
  BY <1>1, GeometryFacts DEF SetMode, Modes
<1> HIDE DEF d
<1>5. d.editor \in Nat /\ AtMost(d.editor, width) = d.editor
  BY <1>2, <1>3 DEF Panes, AtMost
<1>6. panes'.editor = d.editor /\ panes'.preview = width - d.editor
  BY <1>2, <1>3, <1>4, <1>5, LaidFacts DEF Modes
<1> QED
  BY <1>2, <1>3, <1>5, <1>6

\* Pages fit and panes keep their share, whatever the reader and the window do:
\* ViewModeController, DocumentZoom.
THEOREM ViewsKeepTheirShare == ZoomSpec => []ZoomTypeOK /\ ViewsAreKept
<1>1. ZoomInit => ZoomInv
  BY ZoomInitHolds
<1>2. ZoomInv /\ [ZoomNext]_zoomVars => ZoomInv'
  BY ZoomStepKeeps
<1>3. ZoomInv => ZoomTypeOK /\ PagesFit
  BY ZoomInvMeans
<1>4. ZoomInv /\ [ZoomNext]_zoomVars =>
         [ view # "split" /\ view' = "split" /\ width > 1 =>
             /\ panes'.editor > 0 /\ panes'.preview > 0
             /\ Distance(panes'.editor * fraction.of, width * fraction.left) <= fraction.of ]_zoomVars
  BY SplitIsKept
<1> QED
  BY <1>1, <1>2, <1>3, <1>4, PTL DEF ZoomSpec, ViewsAreKept

-----------------------------------------------------------------------------
(***************************************************************************)
(* Turning the wheel.                                                      *)
(***************************************************************************)

BarStates == [pos : Nat, limit : Limits, remainder : -9 .. 9, direction : {-1, 0, 1}]
MotionStates == [armed : BOOLEAN, seen : Nat, seenLimit : Nat, destination : Nat, left : Nat]

\* A bar is within its range, and in motion to a place within the range it had.
BarInv(bar) == bar \in BarStates /\ bar.pos <= bar.limit
MotionInv(m) == m \in MotionStates /\ (m.armed => m.destination <= m.seenLimit /\ m.seen <= m.seenLimit)

\* A motion is the active bar's, and goes where its turns add up to.
Owns(m, isActive, remainder, total) ==
    m.armed => isActive /\ 10 * m.destination + remainder = total

WheelInv ==
    /\ bars \in [Bars -> BarStates] /\ motion \in [Bars -> MotionStates] /\ turnsTotal \in [Bars -> Int]
    /\ \A b \in Bars : /\ BarInv(bars[b]) /\ MotionInv(motion[b])
                       /\ Owns(motion[b], activeBar = b, bars[b].remainder, turnsTotal[b])

\* The fields of a bar.
LEMMA BarFacts ==
    ASSUME NEW bar, BarInv(bar)
    PROVE  /\ bar.pos \in Nat /\ bar.limit \in Limits /\ bar.limit \in Nat /\ bar.pos <= bar.limit
           /\ bar.remainder \in -9 .. 9 /\ bar.direction \in {-1, 0, 1}
  BY WheelAssumption DEF BarInv, BarStates

\* A bar whose motion is dropped.
LEMMA BarDropped ==
    ASSUME NEW bar, BarInv(bar)
    PROVE  /\ BarInv(MotionDropped(bar)) /\ MotionDropped(bar).pos = bar.pos
           /\ MotionDropped(bar).limit = bar.limit
<1>1. bar \in BarStates /\ bar.pos <= bar.limit /\ 0 \in -9 .. 9 /\ 0 \in {-1, 0, 1}
  BY DEF BarInv
<1> QED
  BY <1>1 DEF MotionDropped, BarInv, BarStates

\* A bar that is moved within its range.
LEMMA BarMoved ==
    ASSUME NEW bar, BarInv(bar), NEW pos \in Nat, pos <= bar.limit
    PROVE  /\ BarInv([bar EXCEPT !.pos = pos]) /\ [bar EXCEPT !.pos = pos].pos = pos
           /\ [bar EXCEPT !.pos = pos].remainder = bar.remainder
  BY DEF BarInv, BarStates

\* A bar whose range changes.
LEMMA BarSized ==
    ASSUME NEW bar, BarInv(bar), NEW limit \in Limits, NEW pos \in Nat, pos <= limit
    PROVE  /\ BarInv([bar EXCEPT !.limit = limit, !.pos = pos])
           /\ [bar EXCEPT !.limit = limit, !.pos = pos].remainder = bar.remainder
  BY DEF BarInv, BarStates

\* Without a timer nothing is owned.
LEMMA RestingFacts ==
    /\ Resting \in MotionStates /\ MotionInv(Resting) /\ Resting.armed = FALSE
    /\ \A isActive, remainder, total : Owns(Resting, isActive, remainder, total)
<1>1. Resting \in MotionStates /\ Resting.armed = FALSE
  BY DEF Resting, MotionStates
<1> QED
  BY <1>1 DEF MotionInv, Owns

\* A turn: target and remainder are what the turns add up to, within the range.
LEMMA AdvanceFacts ==
    ASSUME NEW kept \in -9 .. 9, NEW turn \in Int, NEW limit \in Nat, NEW base \in 0 .. limit
    PROVE  /\ Advance(kept, turn, base, limit).target \in 0 .. limit
           /\ Advance(kept, turn, base, limit).remainder \in -9 .. 9
           /\ 10 * Advance(kept, turn, base, limit).target + Advance(kept, turn, base, limit).remainder
                = Between(10 * base + kept - turn, 10 * limit)
<1> DEFINE movement == kept - turn
           whole == Sign(movement) * (Magnitude(movement) \div 10)
           left == movement - 10 * whole
           reached == Between(base + whole, limit)
           atEnd == (reached = 0 /\ movement < 0) \/ (reached = limit /\ movement > 0)
           remainder == IF atEnd THEN 0 ELSE left
           a == Advance(kept, turn, base, limit)
<1>1. movement \in Int
  OBVIOUS
<1>2. /\ whole \in Int /\ left \in -9 .. 9
      /\ (movement < 0 => whole <= 0 /\ left <= 0) /\ (movement > 0 => whole >= 0 /\ left >= 0)
      /\ (movement = 0 => whole = 0 /\ left = 0) /\ movement = 10 * whole + left
  <2> DEFINE q == Magnitude(movement) \div 10
  <2>1. Magnitude(movement) \in Nat
    BY <1>1 DEF Magnitude
  <2>2. q \in Nat /\ 10 * q <= Magnitude(movement) /\ Magnitude(movement) <= 10 * q + 9
    BY <2>1
  <2>3. whole = IF movement < 0 THEN -q ELSE IF movement = 0 THEN 0 ELSE q
    <3>1. whole = Sign(movement) * q
      OBVIOUS
    <3> HIDE DEF q, movement, whole
    <3> QED
      BY <1>1, <2>2, <3>1 DEF Sign
  <2> HIDE DEF q, whole, movement
  <2> QED
    BY <1>1, <2>2, <2>3 DEF Magnitude
<1>3. a.target = reached /\ a.remainder = remainder
  BY DEF Advance
<1>4. 10 * base + kept - turn = 10 * base + movement
  OBVIOUS
<1> HIDE DEF movement, whole, left, a
<1>5. reached \in 0 .. limit
  BY <1>2 DEF Between
<1>6. remainder \in -9 .. 9
  BY <1>2
<1>7. 10 * reached + remainder = Between(10 * base + movement, 10 * limit)
  <2>1. CASE base + whole < 0
    <3>1. reached = 0 /\ movement < 0 /\ remainder = 0
      BY <1>1, <1>2, <2>1 DEF Between
    <3>2. 10 * base + movement < 0
      BY <1>2, <2>1, <3>1
    <3>3. Between(10 * base + movement, 10 * limit) = 0
      BY <1>1, <3>2 DEF Between
    <3> HIDE DEF reached, remainder
    <3> QED
      BY <3>1, <3>3
  <2>2. CASE base + whole > limit
    <3>1. reached = limit /\ movement > 0 /\ remainder = 0
      BY <1>1, <1>2, <2>2 DEF Between
    <3>2. 10 * base + movement > 10 * limit
      BY <1>2, <2>2, <3>1
    <3>3. Between(10 * base + movement, 10 * limit) = 10 * limit
      BY <1>1, <3>2 DEF Between
    <3> HIDE DEF reached, remainder
    <3> QED
      BY <3>1, <3>3
  <2>3. CASE 0 <= base + whole /\ base + whole <= limit
    <3>1. reached = base + whole
      BY <1>2, <2>3 DEF Between
    <3>2. 10 * base + movement = 10 * reached + left
      BY <1>2, <3>1
    <3>3. CASE reached = 0 /\ movement < 0
      <4>1. remainder = 0 /\ left <= 0
        BY <1>2, <3>3
      <4> QED
        BY <1>2, <3>2, <3>3, <4>1 DEF Between
    <3>4. CASE reached = limit /\ movement > 0
      <4>1. remainder = 0 /\ left >= 0
        BY <1>2, <3>4
      <4> QED
        BY <1>2, <3>2, <3>4, <4>1 DEF Between
    <3>5. CASE ~atEnd
      <4>1. remainder = left
        BY <3>5
      <4>2. 0 <= 10 * reached + left /\ 10 * reached + left <= 10 * limit
        BY <1>1, <1>2, <1>5, <3>5
      <4> HIDE DEF reached, remainder
      <4> QED
        BY <1>2, <1>5, <3>2, <4>1, <4>2 DEF Between
    <3> QED
      BY <3>3, <3>4, <3>5
  <2> QED
    BY <1>2, <2>1, <2>2, <2>3
<1> HIDE DEF reached, remainder
<1>8. /\ a.target \in 0 .. limit /\ a.remainder \in -9 .. 9
      /\ 10 * a.target + a.remainder = Between(10 * base + kept - turn, 10 * limit)
  BY <1>3, <1>4, <1>5, <1>6, <1>7
<1> QED
  BY <1>8 DEF a

\* A step stays between where the bar is and where it goes, and is nearer.
LEMMA NextFacts ==
    ASSUME NEW pos \in Nat, NEW m, m.destination \in Nat, NEW now \in Nat, NEW limit \in Nat,
           pos <= limit, m.destination <= limit
    PROVE  /\ Next(pos, m, now) \in 0 .. limit
           /\ \/ Magnitude(m.destination - Next(pos, m, now)) < Magnitude(m.destination - pos)
              \/ pos = m.destination /\ Next(pos, m, now) = m.destination
<1> DEFINE d == m.destination
           way == d - pos
           step == (Magnitude(way) + now - 1) \div now
           n == Next(pos, m, now)
<1>1. n = IF now > 0 /\ Magnitude(way) > 1 THEN pos + Sign(way) * step ELSE d
  BY DEF Next
<1> HIDE DEF n, d
<1>2. d \in Nat /\ d <= limit
  BY DEF d
<1>3. CASE now > 0 /\ Magnitude(way) > 1
  <2>1. Magnitude(way) \in Nat \ {0}
    BY <1>2, <1>3 DEF Magnitude
  <2>2. step \in 1 .. Magnitude(way)
    <3> DEFINE w == Magnitude(way)
    <3> HIDE DEF w
    <3>1. (w + now - 1) \div now \in 1 .. w
      BY <1>3, <2>1 DEF w
    <3> QED
      BY <3>1 DEF w
  <2> HIDE DEF step
  <2>3. n = IF way < 0 THEN pos - step ELSE pos + step
    BY <1>1, <1>2, <1>3, <2>2 DEF Sign, Magnitude
  <2>4. n \in 0 .. limit /\ Magnitude(d - n) < Magnitude(d - pos)
    BY <1>2, <2>2, <2>3 DEF Magnitude
  <2> QED
    BY <2>4 DEF n, d
<1>4. CASE ~(now > 0 /\ Magnitude(way) > 1)
  <2>1. n = d
    BY <1>1, <1>4
  <2>2. n \in 0 .. limit
    BY <1>2, <2>1
  <2>3. Magnitude(d - n) = 0 /\ (pos # d => Magnitude(d - pos) > 0)
    BY <1>2, <2>1 DEF Magnitude
  <2> QED
    BY <2>1, <2>2, <2>3 DEF n, d
<1> QED
  BY <1>3, <1>4

\* A motion after a step has its destination still, or is over.
LEMMA SteppedFacts ==
    ASSUME NEW pos \in Nat, NEW m \in MotionStates, NEW now \in Nat,
           m.destination <= m.seenLimit, pos <= m.seenLimit
    PROVE  /\ Stepped(pos, m, now) \in MotionStates /\ MotionInv(Stepped(pos, m, now))
           /\ Stepped(pos, m, now).armed => Stepped(pos, m, now).destination = m.destination
<1>1. m.destination \in Nat /\ m.seenLimit \in Nat
  BY DEF MotionStates
<1> DEFINE n == Next(pos, m, now)
           s == [m EXCEPT !.seen = n, !.left = now]
<1>2. n \in Nat /\ n <= m.seenLimit
  BY <1>1, NextFacts
<1>3. Stepped(pos, m, now) = IF n = m.destination THEN Resting ELSE s
  BY DEF Stepped
<1> HIDE DEF n
<1>4. s \in MotionStates /\ s.destination = m.destination /\ s.seen = n /\ s.seenLimit = m.seenLimit
  BY <1>2 DEF MotionStates
<1> HIDE DEF s
<1>5. MotionInv(s)
  BY <1>2, <1>4 DEF MotionInv
<1> QED
  BY <1>3, <1>4, <1>5, RestingFacts

\* Bar by bar: what one step leaves to each.
LEMMA BarByBar ==
    ASSUME WheelInv, NEW B, NEW M, NEW T,
           bars' = [x \in Bars |-> B[x]], motion' = [x \in Bars |-> M[x]],
           turnsTotal' = [x \in Bars |-> T[x]],
           \A x \in Bars : /\ BarInv(B[x]) /\ MotionInv(M[x]) /\ T[x] \in Int
                           /\ Owns(M[x], activeBar' = x, B[x].remainder, T[x])
    PROVE  WheelInv'
<1>1. \A x \in Bars : bars'[x] = B[x] /\ motion'[x] = M[x] /\ turnsTotal'[x] = T[x]
  OBVIOUS
<1>2. \A x \in Bars : B[x] \in BarStates /\ M[x] \in MotionStates
  BY DEF BarInv, MotionInv
<1>3. /\ bars' \in [Bars -> BarStates] /\ motion' \in [Bars -> MotionStates]
      /\ turnsTotal' \in [Bars -> Int]
  BY <1>2
<1> QED
  BY <1>1, <1>3 DEF WheelInv, BarInv, MotionInv, Owns

\* One bar is changed; if it was active and is so no more, its motion is over.
LEMMA OneBarKeeps ==
    ASSUME WheelInv, NEW b \in Bars, NEW bar, NEW m, BarInv(bar), MotionInv(m),
           bars' = [bars EXCEPT ![b] = bar], motion' = [motion EXCEPT ![b] = m],
           turnsTotal' = turnsTotal, activeBar' \in {activeBar, IF activeBar = b THEN "" ELSE activeBar},
           Owns(m, activeBar' = b, bar.remainder, turnsTotal[b])
    PROVE  WheelInv'
<1> DEFINE B == [x \in Bars |-> IF x = b THEN bar ELSE bars[x]]
           M == [x \in Bars |-> IF x = b THEN m ELSE motion[x]]
<1>1. /\ bars \in [Bars -> BarStates] /\ motion \in [Bars -> MotionStates]
      /\ turnsTotal \in [Bars -> Int]
  BY DEF WheelInv
<1>2. /\ bars' = [x \in Bars |-> B[x]] /\ motion' = [x \in Bars |-> M[x]]
      /\ turnsTotal' = [x \in Bars |-> turnsTotal[x]]
  BY <1>1
<1>3. ASSUME NEW x \in Bars
      PROVE  /\ BarInv(B[x]) /\ MotionInv(M[x]) /\ turnsTotal[x] \in Int
             /\ Owns(M[x], activeBar' = x, B[x].remainder, turnsTotal[x])
  <2>1. CASE x = b
    BY <1>1, <2>1
  <2>2. CASE x # b
    <3>1. B[x] = bars[x] /\ M[x] = motion[x] /\ turnsTotal[x] \in Int
      BY <1>1, <2>2
    <3>2. BarInv(bars[x]) /\ MotionInv(motion[x])
          /\ Owns(motion[x], activeBar = x, bars[x].remainder, turnsTotal[x])
      BY DEF WheelInv
    <3>3. activeBar = x => activeBar' = x
      BY <2>2
    <3> QED
      BY <3>1, <3>2, <3>3 DEF Owns
  <2> QED
    BY <2>1, <2>2
<1> HIDE DEF B, M
<1> QED
  BY <1>2, <1>3, BarByBar

\* A bar whose motion is cancelled, wherever it is then.
LEMMA CancelKeeps ==
    ASSUME WheelInv, NEW b \in Bars, NEW bar, BarInv(bar),
           bars' = [bars EXCEPT ![b] = bar], motion' = [motion EXCEPT ![b] = Resting],
           turnsTotal' = turnsTotal, activeBar' = IF activeBar = b THEN "" ELSE activeBar
    PROVE  WheelInv'
  BY RestingFacts, OneBarKeeps

\* A turn of the wheel over a bar.
LEMMA TurnKeeps ==
    ASSUME WheelInv, NEW b \in Bars, NEW turn \in Turns, NEW fresh \in BOOLEAN,
           NEW now \in 0 .. Duration, Turn(b, turn, fresh, now)
    PROVE  WheelInv'
<1> DEFINE m == motion[b]
           cancel == (m.armed /\ Disturbed(bars[b], m)) \/ turn * bars[b].direction < 0
           bar == IF cancel THEN MotionDropped(bars[b]) ELSE bars[b]
           kept == IF fresh THEN 0 ELSE bar.remainder
           base == IF m.armed /\ ~cancel THEN m.destination ELSE bar.pos
           to == Advance(kept, turn, base, bar.limit)
           going == [armed |-> TRUE, seen |-> bar.pos, seenLimit |-> bar.limit,
                     destination |-> to.target, left |-> now]
           pos == IF to.target = bar.pos THEN bar.pos ELSE Next(bar.pos, going, now)
           turned == [bar EXCEPT !.remainder = to.remainder, !.direction = Sign(turn), !.pos = pos]
           moving == IF to.target = bar.pos THEN Resting ELSE Stepped(bar.pos, going, now)
           total == Between(10 * base + kept - turn, 10 * bar.limit)
<1>1. /\ BarInv(bars[b]) /\ MotionInv(m) /\ m \in MotionStates
      /\ turn \in Int /\ now \in Nat /\ Sign(turn) \in {-1, 0, 1}
      /\ bars \in [Bars -> BarStates] /\ motion \in [Bars -> MotionStates]
      /\ turnsTotal \in [Bars -> Int]
  <2>1. turn \in Int /\ now \in Nat
    BY WheelAssumption
  <2> QED
    BY <2>1 DEF WheelInv, Sign
<1>2. /\ bars' = [x \in Bars |-> IF x = b THEN turned
                                 ELSE IF x = activeBar THEN MotionDropped(bars[x]) ELSE bars[x]]
      /\ motion' = [x \in Bars |-> IF x = b THEN moving
                                   ELSE IF x = activeBar THEN Resting ELSE motion[x]]
      /\ activeBar' = b /\ turnsTotal' = [turnsTotal EXCEPT ![b] = total]
  BY DEF Turn
<1>3. /\ BarInv(bar) /\ bar.pos = bars[b].pos /\ bar.limit = bars[b].limit
  BY <1>1, BarDropped
<1>4. m.armed /\ ~cancel => m.destination \in 0 .. bar.limit
  <2>1. m.armed /\ ~cancel => bars[b].limit = m.seenLimit
    BY DEF Disturbed
  <2>2. m.armed => m.destination \in Nat /\ m.destination <= m.seenLimit
    BY <1>1 DEF MotionInv, MotionStates
  <2>3. bar.limit \in Nat
    BY <1>3, BarFacts
  <2> QED
    BY <1>3, <2>1, <2>2, <2>3
<1> HIDE DEF cancel, m, bar
<1>5. kept \in -9 .. 9 /\ base \in 0 .. bar.limit /\ bar.limit \in Nat /\ bar.pos \in Nat
      /\ bar.pos <= bar.limit
  BY <1>3, <1>4, BarFacts
<1> HIDE DEF kept, base
<1>6. /\ to.target \in 0 .. bar.limit /\ to.remainder \in -9 .. 9
      /\ 10 * to.target + to.remainder = total
  BY <1>1, <1>5, AdvanceFacts
<1> HIDE DEF to
<1>7. total \in Int
  BY <1>1, <1>5, <1>6
<1> HIDE DEF total
<1>8. /\ going \in MotionStates /\ going.destination = to.target /\ going.seenLimit = bar.limit
  BY <1>1, <1>5, <1>6 DEF MotionStates
<1> HIDE DEF going
<1>9. pos \in Nat /\ pos <= bar.limit
  <2>1. going.destination \in Nat /\ going.destination <= bar.limit
    BY <1>5, <1>6, <1>8
  <2>2. Next(bar.pos, going, now) \in 0 .. bar.limit
    BY <1>1, <1>5, <2>1, NextFacts
  <2> QED
    BY <1>5, <2>2
<1> HIDE DEF pos
<1>10. BarInv(turned) /\ turned.remainder = to.remainder
  <2> DEFINE r == to.remainder  d == Sign(turn)
  <2>1. r \in -9 .. 9 /\ d \in {-1, 0, 1}
    BY <1>1, <1>6
  <2>2. turned = [bar EXCEPT !.remainder = r, !.direction = d, !.pos = pos]
    OBVIOUS
  <2> HIDE DEF r, d, turned
  <2>3. BarInv(turned) /\ turned.remainder = r
    BY <1>3, <1>9, <2>1, <2>2 DEF BarInv, BarStates
  <2> QED
    BY <2>3 DEF r
<1>11. MotionInv(moving) /\ (moving.armed => moving.destination = to.target)
  BY <1>1, <1>5, <1>6, <1>8, RestingFacts, SteppedFacts
<1>12. Owns(moving, TRUE, turned.remainder, total)
  BY <1>6, <1>10, <1>11 DEF Owns
<1> HIDE DEF turned, moving
<1> DEFINE B == [x \in Bars |-> IF x = b THEN turned
                                ELSE IF x = activeBar THEN MotionDropped(bars[x]) ELSE bars[x]]
           M == [x \in Bars |-> IF x = b THEN moving
                                ELSE IF x = activeBar THEN Resting ELSE motion[x]]
           T == [x \in Bars |-> IF x = b THEN total ELSE turnsTotal[x]]
<1>13. /\ bars' = [x \in Bars |-> B[x]] /\ motion' = [x \in Bars |-> M[x]]
       /\ turnsTotal' = [x \in Bars |-> T[x]]
  BY <1>1, <1>2
<1>14. ASSUME NEW x \in Bars
       PROVE  /\ BarInv(B[x]) /\ MotionInv(M[x]) /\ T[x] \in Int
              /\ Owns(M[x], activeBar' = x, B[x].remainder, T[x])
  <2>1. CASE x = b
    <3>1. B[x] = turned /\ M[x] = moving /\ T[x] = total /\ (activeBar' = x) = TRUE
      BY <1>2, <2>1
    <3> QED
      BY <1>7, <1>10, <1>11, <1>12, <3>1
  <2>2. CASE x # b /\ x = activeBar
    <3>1. B[x] = MotionDropped(bars[x]) /\ M[x] = Resting /\ T[x] = turnsTotal[x]
      BY <2>2
    <3>2. BarInv(bars[x]) /\ turnsTotal[x] \in Int
      BY <1>1 DEF WheelInv
    <3> QED
      BY <3>1, <3>2, BarDropped, RestingFacts
  <2>3. CASE x # b /\ x # activeBar
    <3>1. B[x] = bars[x] /\ M[x] = motion[x] /\ T[x] = turnsTotal[x]
      BY <2>3
    <3>2. /\ BarInv(bars[x]) /\ MotionInv(motion[x]) /\ turnsTotal[x] \in Int
          /\ Owns(motion[x], activeBar = x, bars[x].remainder, turnsTotal[x])
      BY <1>1 DEF WheelInv
    <3> QED
      BY <2>3, <3>1, <3>2 DEF Owns
  <2> QED
    BY <2>1, <2>2, <2>3
<1> HIDE DEF B, M, T
<1> QED
  BY <1>13, <1>14, BarByBar

\* A tick moves the bar on, or ends the motion of a bar that was disturbed.
LEMMA TickFacts ==
    ASSUME WheelInv, NEW b \in Bars, NEW now \in 0 .. Duration, Tick(b, now)
    PROVE  /\ WheelInv'
           /\ \/ bars'[b].pos = bars[b].pos /\ ~motion'[b].armed
              \/ Magnitude(motion[b].destination - bars'[b].pos)
                    < Magnitude(motion[b].destination - motion[b].seen)
<1> DEFINE m == motion[b]  bar == bars[b]
<1>1. /\ BarInv(bar) /\ MotionInv(m) /\ m \in MotionStates /\ now \in Nat
      /\ bars \in [Bars -> BarStates] /\ motion \in [Bars -> MotionStates]
      /\ m.armed /\ turnsTotal' = turnsTotal
      /\ Owns(m, activeBar = b, bar.remainder, turnsTotal[b])
  <2>1. now \in Nat
    BY WheelAssumption
  <2> QED
    BY <2>1 DEF WheelInv, Tick
<1>2. CASE Disturbed(bar, m)
  <2>1. /\ bars' = [bars EXCEPT ![b] = MotionDropped(bar)] /\ motion' = [motion EXCEPT ![b] = Resting]
        /\ activeBar' = IF activeBar = b THEN "" ELSE activeBar
    BY <1>2 DEF Tick, CancelMotion
  <2> HIDE DEF m, bar
  <2>2. BarInv(MotionDropped(bar)) /\ MotionDropped(bar).pos = bar.pos
    BY <1>1, BarDropped
  <2>3. WheelInv'
    BY <1>1, <2>1, <2>2, CancelKeeps
  <2>4. bars'[b] = MotionDropped(bar) /\ motion'[b] = Resting
    BY <1>1, <2>1
  <2> QED
    BY <2>2, <2>3, <2>4, RestingFacts DEF bar
<1>3. CASE ~Disturbed(bar, m)
  <2> DEFINE n == Next(bar.pos, m, now)
             moved == [bar EXCEPT !.pos = n]
             s == Stepped(bar.pos, m, now)
  <2>1. /\ bars' = [bars EXCEPT ![b] = moved] /\ motion' = [motion EXCEPT ![b] = s]
        /\ activeBar' = activeBar
    BY <1>1, <1>3 DEF Tick
  <2>2. bar.pos = m.seen /\ bar.limit = m.seenLimit
    BY <1>3 DEF Disturbed
  <2> HIDE DEF m, bar
  <2>3. /\ bar.pos \in Nat /\ bar.limit \in Nat /\ bar.pos <= bar.limit
        /\ m.destination \in Nat /\ m.destination <= bar.limit
    BY <1>1, <2>2, BarFacts DEF MotionInv, MotionStates
  <2>4. /\ n \in 0 .. bar.limit
        /\ \/ Magnitude(m.destination - n) < Magnitude(m.destination - bar.pos)
           \/ bar.pos = m.destination /\ n = m.destination
    BY <1>1, <2>3, NextFacts
  <2>5. n = m.destination => s = Resting
    BY DEF Stepped
  <2>6. /\ MotionInv(s) /\ (s.armed => s.destination = m.destination)
    BY <1>1, <2>2, <2>3, SteppedFacts
  <2> HIDE DEF n, s
  <2>7. BarInv(moved) /\ moved.pos = n /\ moved.remainder = bar.remainder
    BY <1>1, <2>3, <2>4, BarMoved
  <2>8. Owns(s, activeBar' = b, moved.remainder, turnsTotal[b])
    BY <1>1, <2>1, <2>6, <2>7 DEF Owns
  <2> HIDE DEF moved
  <2>9. WheelInv'
    BY <1>1, <2>1, <2>6, <2>7, <2>8, OneBarKeeps
  <2>10. bars'[b] = moved /\ motion'[b] = s
    BY <1>1, <2>1
  <2> QED
    BY <2>2, <2>4, <2>5, <2>7, <2>9, <2>10, RestingFacts DEF m, bar
<1> QED
  BY <1>2, <1>3

\* What moves or resizes the bar from outside.
LEMMA OutsideKeeps ==
    ASSUME WheelInv, NEW b \in Bars,
           \/ Interrupt(b)
           \/ \E limit \in Limits : Relimit(b, limit) \/ \E pos \in 0 .. limit : SetViewport(b, pos)
    PROVE  WheelInv'
<1> DEFINE bar == bars[b]
<1>1. /\ BarInv(bar) /\ MotionInv(motion[b]) /\ bars \in [Bars -> BarStates]
      /\ motion \in [Bars -> MotionStates]
      /\ Owns(motion[b], activeBar = b, bar.remainder, turnsTotal[b])
  BY DEF WheelInv
<1>2. CASE Interrupt(b)
  <2>1. /\ bars' = [bars EXCEPT ![b] = MotionDropped(bar)] /\ motion' = [motion EXCEPT ![b] = Resting]
        /\ activeBar' = (IF activeBar = b THEN "" ELSE activeBar) /\ turnsTotal' = turnsTotal
    BY <1>2 DEF Interrupt, CancelMotion
  <2> HIDE DEF bar
  <2> QED
    BY <1>1, <2>1, BarDropped, CancelKeeps
<1>3. ASSUME NEW limit \in Limits, NEW pos \in 0 .. limit, SetViewport(b, pos) PROVE WheelInv'
  <2> DEFINE dropped == MotionDropped(bar)
             moved == [dropped EXCEPT !.pos = pos]
  <2>1. /\ bars' = [bars EXCEPT ![b] = moved] /\ motion' = [motion EXCEPT ![b] = Resting]
        /\ activeBar' = (IF activeBar = b THEN "" ELSE activeBar) /\ turnsTotal' = turnsTotal
        /\ pos <= bar.limit
    BY <1>3 DEF SetViewport
  <2> HIDE DEF bar
  <2>2. BarInv(dropped) /\ dropped.limit = bar.limit /\ pos \in Nat
    BY <1>1, BarDropped, WheelAssumption
  <2> HIDE DEF dropped
  <2>3. BarInv(moved)
    BY <2>1, <2>2, BarMoved
  <2> HIDE DEF moved
  <2> QED
    BY <2>1, <2>3, CancelKeeps
<1>4. ASSUME NEW limit \in Limits, Relimit(b, limit) PROVE WheelInv'
  <2> DEFINE pos == Between(bar.pos, limit)
             sized == [bar EXCEPT !.limit = limit, !.pos = pos]
  <2>1. /\ bars' = [bars EXCEPT ![b] = sized] /\ UNCHANGED <<motion, activeBar, turnsTotal>>
    BY <1>1, <1>4 DEF Relimit
  <2> HIDE DEF bar
  <2>2. pos \in Nat /\ pos <= limit
    BY <1>1, BarFacts, WheelAssumption DEF Between
  <2> HIDE DEF pos
  <2>3. BarInv(sized) /\ sized.remainder = bar.remainder
    BY <1>1, <2>2, BarSized
  <2> HIDE DEF sized
  <2>4. motion' = [motion EXCEPT ![b] = motion[b]]
    BY <1>1, <2>1
  <2>5. Owns(motion[b], activeBar' = b, sized.remainder, turnsTotal[b])
    BY <1>1, <2>1, <2>3
  <2> QED
    BY <1>1, <2>1, <2>3, <2>4, <2>5, OneBarKeeps
<1> QED
  BY <1>2, <1>3, <1>4

\* At first every bar rests at the top.
LEMMA WheelInitHolds == WheelInit => WheelInv
<1> SUFFICES ASSUME NEW limit \in Limits,
                    bars = [b \in Bars |-> [pos |-> 0, limit |-> limit, remainder |-> 0, direction |-> 0]],
                    motion = [b \in Bars |-> Resting], turnsTotal = [b \in Bars |-> 0]
             PROVE  WheelInv
  BY DEF WheelInit
<1> DEFINE bar == [pos |-> 0, limit |-> limit, remainder |-> 0, direction |-> 0]
<1>1. limit \in Nat
  BY WheelAssumption
<1>2. bar \in BarStates /\ BarInv(bar)
  BY <1>1 DEF BarStates, BarInv
<1> HIDE DEF bar
<1>3. /\ bars = [b \in Bars |-> bar]
      /\ \A b \in Bars : bars[b] = bar /\ motion[b] = Resting /\ turnsTotal[b] = 0
  BY DEF bar
<1> QED
  BY <1>2, <1>3, RestingFacts DEF WheelInv

\* Every step of the wheel keeps the invariant.
LEMMA WheelStepKeeps == WheelInv /\ [WheelNext]_wheelVars => WheelInv'
<1> SUFFICES ASSUME WheelInv, [WheelNext]_wheelVars PROVE WheelInv'
  OBVIOUS
<1>1. CASE UNCHANGED wheelVars
  BY <1>1 DEF wheelVars, WheelInv, BarInv, MotionInv, Owns
<1>2. CASE WheelNext
  BY <1>2, TurnKeeps, TickFacts, OutsideKeeps DEF WheelNext
<1> QED
  BY <1>1, <1>2

\* It makes turns add up.
LEMMA WheelInvMeans == WheelInv => WheelTypeOK /\ TurnsAddUp
<1> SUFFICES ASSUME WheelInv, NEW b \in Bars
             PROVE  /\ bars[b] \in [pos : Nat, limit : Limits, remainder : -9 .. 9, direction : {-1, 0, 1}]
                    /\ bars[b].pos <= bars[b].limit
                    /\ motion[b].armed => motion[b].destination \in 0 .. motion[b].seenLimit
                    /\ motion[b].armed =>
                          /\ activeBar = b
                          /\ 10 * motion[b].destination + bars[b].remainder = turnsTotal[b]
  BY DEF WheelTypeOK, TurnsAddUp
<1>1. /\ BarInv(bars[b]) /\ MotionInv(motion[b])
      /\ Owns(motion[b], activeBar = b, bars[b].remainder, turnsTotal[b])
  BY DEF WheelInv
<1>2. motion[b].destination \in Nat /\ motion[b].seenLimit \in Nat
  BY <1>1 DEF MotionInv, MotionStates
<1> QED
  BY <1>1, <1>2 DEF BarInv, MotionInv, Owns, BarStates

\* Turns of the wheel add up, one bar is in motion, and each motion comes
\* nearer to its end: FoxWheelScrollBar and ScrollDynamics.
THEOREM WheelIsHeld == WheelSpec => [](WheelTypeOK /\ TurnsAddUp) /\ MotionsEnd
<1>1. WheelInit => WheelInv
  BY WheelInitHolds
<1>2. WheelInv /\ [WheelNext]_wheelVars => WheelInv'
  BY WheelStepKeeps
<1>3. WheelInv => WheelTypeOK /\ TurnsAddUp
  BY WheelInvMeans
<1>4. WheelInv /\ [WheelNext]_wheelVars =>
         [\A b \in Bars : motion[b].armed /\ (\E now \in 0 .. Duration : Tick(b, now)) =>
            \/ bars'[b].pos = bars[b].pos /\ ~motion'[b].armed
            \/ Magnitude(motion[b].destination - bars'[b].pos)
                  < Magnitude(motion[b].destination - motion[b].seen)]_wheelVars
  BY TickFacts
<1> QED
  BY <1>1, <1>2, <1>3, <1>4, PTL DEF WheelSpec, MotionsEnd

-----------------------------------------------------------------------------
(***************************************************************************)
(* The reader's hand.                                                      *)
(***************************************************************************)

FramesOrNone == Frames \cup {NoFrame}
LinkTexts == {Links[layout][point] : layout \in Layouts, point \in Points} \cup {""}
Views == [expected : Tokens, current : FramesOrNone, active : BOOLEAN]
Hands == [buttons : SUBSET {"left", "right"}, point : Points, over : FramesOrNone,
          link : LinkTexts, cancelled : BOOLEAN, meant : FramesOrNone]
Selections == [anchor : Points, caret : Points, of : Tokens \cup {<<>>}]
Clipboards == [of : Tokens \cup {<<>>}, begin : Points, end : Points]

\* What is selected is of the frame there is, on display or not.
SelectionIsOfFrame == SelectsNothing(selection) \/ pane.current = NoFrame
                      \/ selection.of = pane.current.token

\* A press over a frame is meant for it, until the buttons are released.
PressIsMeant == hand.over # NoFrame => hand.over = hand.meant /\ hand.buttons # {}

CopiedSomething == clipboard.begin < clipboard.end \/ clipboard = NoText

PointerInv ==
    /\ pane \in Views /\ hand \in Hands /\ selection \in Selections /\ clipboard \in Clipboards
    /\ SelectionIsOfFrame /\ PressIsMeant /\ CopiedSomething
    /\ followed.link # "" => followed.pressed = followed.released

\* A frame has a version; no frame has none.
LEMMA FrameFacts ==
    /\ NoFrame \notin Frames /\ NoFrame.token \notin Tokens
    /\ \A frame \in Frames : frame.token \in Tokens /\ frame.layout \in Layouts
    /\ NoFrame \in FramesOrNone /\ NoSelection \in Selections /\ SelectsNothing(NoSelection)
    /\ 0 \in Points /\ Length \in Points /\ Points \subseteq Nat /\ "" \in LinkTexts
<1>1. Length \in Nat /\ <<>> \notin Tokens
  BY PointerAssumption
<1>2. NoFrame.token = <<>>
  BY DEF NoFrame
<1>3. \A frame \in Frames : frame.token \in Tokens /\ frame.layout \in Layouts
  BY DEF Frames
<1>4. 0 \in Points /\ Length \in Points /\ Points \subseteq Nat
  BY <1>1 DEF Points
<1>5. NoSelection \in Selections /\ SelectsNothing(NoSelection)
  BY <1>4 DEF NoSelection, Selections, SelectsNothing
<1>6. "" \in LinkTexts
  BY DEF LinkTexts
<1> QED
  BY <1>1, <1>2, <1>3, <1>4, <1>5, <1>6 DEF FramesOrNone

\* What the invariant says of the fields.
LEMMA PointerFields ==
    ASSUME PointerInv
    PROVE  /\ pane.expected \in Tokens /\ pane.current \in FramesOrNone /\ pane.active \in BOOLEAN
           /\ FrameVisible => /\ pane.current \in Frames /\ pane.current.token \in Tokens
                              /\ pane.current.layout \in Layouts
           /\ hand.buttons \in SUBSET {"left", "right"} /\ hand.cancelled \in BOOLEAN
           /\ hand.over \in FramesOrNone
           /\ selection.anchor \in Points /\ selection.caret \in Points
  BY FrameFacts DEF PointerInv, Views, Hands, Selections, FrameVisible, FramesOrNone

\* A new selection, of what is on display.
LEMMA SelectedFacts ==
    ASSUME PointerInv, FrameVisible, NEW at \in Points, NEW extend \in BOOLEAN
    PROVE  Selected(at, extend) \in Selections /\ Selected(at, extend).of = pane.current.token
<1>1. selection \in Selections /\ pane.current.token \in Tokens
  BY PointerFields DEF PointerInv
<1> DEFINE token == pane.current.token
<1>2. Selected(at, extend) = IF extend THEN [selection EXCEPT !.caret = at, !.of = token]
                             ELSE [anchor |-> at, caret |-> at, of |-> token]
  BY DEF Selected
<1> HIDE DEF token
<1>3. token \in Tokens
  BY <1>1 DEF token
<1> DEFINE extended == [selection EXCEPT !.caret = at, !.of = token]
           started == [anchor |-> at, caret |-> at, of |-> token]
<1>4. extended \in Selections /\ extended.of = token
  BY <1>1, <1>3 DEF Selections
<1>5. started \in Selections /\ started.of = token
  BY <1>3 DEF Selections
<1>6. Selected(at, extend) = extended \/ Selected(at, extend) = started
  BY <1>2
<1> QED
  BY <1>4, <1>5, <1>6 DEF token

\* A selection of the frame that stays.
LEMMA SelectionStays ==
    ASSUME PointerInv, pane' = pane,
           \/ selection' = selection
           \/ selection' = NoSelection
           \/ FrameVisible /\ \E at \in Points, extend \in BOOLEAN : selection' = Selected(at, extend)
    PROVE  selection' \in Selections /\ SelectionIsOfFrame'
<1>1. CASE selection' = selection
  BY <1>1 DEF PointerInv, SelectionIsOfFrame, SelectsNothing
<1>2. CASE selection' = NoSelection
  BY <1>2, FrameFacts DEF SelectionIsOfFrame, SelectsNothing
<1>3. ASSUME FrameVisible, NEW at \in Points, NEW extend \in BOOLEAN, selection' = Selected(at, extend)
      PROVE  selection' \in Selections /\ SelectionIsOfFrame'
  BY <1>3, SelectedFacts DEF SelectionIsOfFrame
<1> QED
  BY <1>1, <1>2, <1>3

\* What the pane is told.
LEMMA PaneKeeps ==
    ASSUME PointerInv,
           \/ \E token \in Tokens, resets \in BOOLEAN : Expect(token, resets)
           \/ \E frame \in Frames : PresentFrame(frame)
           \/ Deactivate
    PROVE  PointerInv'
<1>1. /\ pane \in Views /\ hand \in Hands /\ selection \in Selections /\ clipboard \in Clipboards
      /\ SelectionIsOfFrame /\ PressIsMeant /\ CopiedSomething
      /\ followed.link # "" => followed.pressed = followed.released
      /\ pane.expected \in Tokens /\ pane.current \in FramesOrNone
  BY PointerFields DEF PointerInv
<1>2. ASSUME NEW token \in Tokens, NEW resets \in BOOLEAN, Expect(token, resets) PROVE PointerInv'
  <2> DEFINE frame == IF resets /\ token[1] # pane.expected[1] THEN NoFrame ELSE pane.current
  <2>1. /\ hand' = [hand EXCEPT !.cancelled = TRUE]
        /\ pane' = [expected |-> token, active |-> FALSE, current |-> frame]
        /\ selection' = (IF token # pane.expected THEN NoSelection ELSE selection)
        /\ UNCHANGED <<owned, clipboard, followed>>
    BY <1>2 DEF Expect
  <2>2. frame \in FramesOrNone /\ (token = pane.expected => frame = pane.current)
    BY <1>1, FrameFacts
  <2> HIDE DEF frame
  <2>3. pane' \in Views /\ pane'.current = frame
    BY <2>1, <2>2 DEF Views
  <2>4. selection' \in Selections
    BY <1>1, <2>1, FrameFacts
  <2>5. SelectionIsOfFrame'
    <3>1. CASE token # pane.expected
      BY <2>1, <3>1, FrameFacts DEF SelectionIsOfFrame, SelectsNothing
    <3>2. CASE token = pane.expected
      BY <1>1, <2>1, <2>2, <2>3, <3>2 DEF SelectionIsOfFrame, SelectsNothing
    <3> QED
      BY <3>1, <3>2
  <2>6. hand' \in Hands /\ hand'.over = hand.over /\ hand'.meant = hand.meant
        /\ hand'.buttons = hand.buttons
    BY <1>1, <2>1 DEF Hands
  <2> QED
    BY <1>1, <2>1, <2>3, <2>4, <2>5, <2>6 DEF PointerInv, PressIsMeant, CopiedSomething
<1>3. ASSUME NEW frame \in Frames, PresentFrame(frame) PROVE PointerInv'
  <2>1. /\ pane' = [pane EXCEPT !.current = frame, !.active = TRUE]
        /\ selection' = (IF pane.current.token # frame.token THEN NoSelection ELSE selection)
        /\ UNCHANGED <<hand, owned, clipboard, followed>>
    BY <1>3 DEF PresentFrame
  <2>2. pane' \in Views /\ pane'.current = frame
    BY <1>1, <2>1 DEF Views, FramesOrNone
  <2>3. selection' \in Selections
    BY <1>1, <2>1, FrameFacts
  <2>4. SelectionIsOfFrame'
    <3>1. CASE pane.current.token # frame.token
      BY <2>1, <3>1, FrameFacts DEF SelectionIsOfFrame, SelectsNothing
    <3>2. CASE pane.current.token = frame.token
      <4>1. pane.current # NoFrame
        BY <3>2, FrameFacts
      <4> QED
        BY <1>1, <2>1, <2>2, <3>2, <4>1 DEF SelectionIsOfFrame, SelectsNothing
    <3> QED
      BY <3>1, <3>2
  <2> QED
    BY <1>1, <2>1, <2>2, <2>3, <2>4 DEF PointerInv, PressIsMeant, CopiedSomething
<1>4. CASE Deactivate
  <2>1. pane' = [pane EXCEPT !.active = FALSE] /\ UNCHANGED <<hand, selection, owned, clipboard, followed>>
    BY <1>4 DEF Deactivate
  <2>2. pane' \in Views /\ pane'.current = pane.current
    BY <1>1, <2>1 DEF Views
  <2> QED
    BY <1>1, <2>1, <2>2
       DEF PointerInv, SelectionIsOfFrame, SelectsNothing, PressIsMeant, CopiedSomething
<1> QED
  BY <1>2, <1>3, <1>4

\* The buttons.
LEMMA ButtonKeeps ==
    ASSUME PointerInv, NEW point \in Points, NEW alone \in BOOLEAN, NEW bit \in {"left", "right"},
           \/ \E shift \in BOOLEAN : PressFirst(bit, point, shift, alone)
           \/ Release(bit, point, alone)
           \/ PressMore(bit) \/ Move(point) \/ Ungrab
    PROVE  PointerInv'
<1>1. /\ hand \in Hands /\ clipboard \in Clipboards /\ pane \in Views
      /\ PressIsMeant /\ CopiedSomething
      /\ followed.link # "" => followed.pressed = followed.released
      /\ pane.current \in FramesOrNone /\ hand.cancelled \in BOOLEAN
      /\ hand.buttons \in SUBSET {"left", "right"} /\ NoFrame \in FramesOrNone
  BY PointerFields, FrameFacts DEF PointerInv
<1>2. ASSUME pane' = pane, clipboard' = clipboard, hand' \in Hands, PressIsMeant',
             selection' \in Selections /\ SelectionIsOfFrame',
             followed' = followed \/ (followed'.link # "" => followed'.pressed = followed'.released)
      PROVE  PointerInv'
  BY <1>1, <1>2 DEF PointerInv, CopiedSomething
<1>3. ASSUME NEW shift \in BOOLEAN, PressFirst(bit, point, shift, alone) PROVE PointerInv'
  <2> DEFINE clean == bit = "left" /\ alone
             over == clean /\ FrameVisible
             cancelled == ~clean \/ shift
             frame == IF over THEN pane.current ELSE NoFrame
             link == IF over THEN LinkAt(point) ELSE ""
             h == [buttons |-> {bit}, point |-> point, cancelled |-> cancelled,
                   over |-> frame, link |-> link, meant |-> pane.current]
  <2>1. /\ hand' = h /\ selection' = (IF over THEN Selected(point, shift) ELSE selection)
        /\ followed' = NoLink /\ UNCHANGED <<pane, owned, clipboard>>
    BY <1>3 DEF PressFirst
  <2>2. cancelled \in BOOLEAN /\ frame \in FramesOrNone /\ frame \in {NoFrame, pane.current}
    BY <1>1
  <2>3. link \in LinkTexts
    <3>1. FrameVisible => LinkAt(point) \in LinkTexts
      <4>1. FrameVisible => pane.current.layout \in Layouts
        BY PointerFields
      <4> DEFINE layout == pane.current.layout
      <4>2. LinkAt(point) = Links[layout][point]
        BY DEF LinkAt
      <4> HIDE DEF layout
      <4>3. ASSUME layout \in Layouts PROVE Links[layout][point] \in LinkTexts
        <5>1. Links[layout][point] \in {Links[l][p] : l \in Layouts, p \in Points}
          BY <4>3
        <5> DEFINE texts == {Links[l][p] : l \in Layouts, p \in Points}
        <5>2. LinkTexts = texts \cup {""}
          BY DEF LinkTexts
        <5> HIDE DEF texts
        <5>3. texts \subseteq LinkTexts
          BY <5>2
        <5> QED
          BY <5>1, <5>3 DEF texts
      <4> QED
        BY <4>1, <4>2, <4>3 DEF layout
    <3> QED
      BY <3>1, FrameFacts
  <2>4. over => FrameVisible
    OBVIOUS
  <2> HIDE DEF clean, over, cancelled, frame, link
  <2>5. hand' \in Hands /\ hand'.over = frame /\ hand'.meant = pane.current /\ hand'.buttons = {bit}
    BY <1>1, <2>1, <2>2, <2>3 DEF Hands
  <2>6. PressIsMeant'
    BY <2>2, <2>5 DEF PressIsMeant
  <2>7. selection' \in Selections /\ SelectionIsOfFrame'
    BY <2>1, <2>4, SelectionStays
  <2>8. followed'.link = ""
    BY <2>1 DEF NoLink
  <2> QED
    BY <1>2, <2>1, <2>5, <2>6, <2>7, <2>8
<1>4. CASE PressMore(bit)
  <2>1. /\ hand' = [hand EXCEPT !.buttons = @ \cup {bit}, !.cancelled = TRUE]
        /\ UNCHANGED <<pane, selection, owned, clipboard, followed>>
    BY <1>4 DEF PressMore
  <2> DEFINE pressed == hand.buttons \cup {bit}
  <2>2. pressed \in SUBSET {"left", "right"} /\ pressed # {}
    BY <1>1
  <2>3. hand' = [hand EXCEPT !.buttons = pressed, !.cancelled = TRUE]
    BY <2>1
  <2> HIDE DEF pressed
  <2>4. hand' \in Hands /\ hand'.over = hand.over /\ hand'.meant = hand.meant /\ hand'.buttons = pressed
    BY <1>1, <2>2, <2>3 DEF Hands
  <2> QED
    BY <1>1, <1>2, <2>1, <2>2, <2>4, SelectionStays DEF PressIsMeant
<1>5. CASE Move(point)
  <2> DEFINE cancelled == hand.cancelled \/ point # hand.point
  <2>1. /\ hand' = [hand EXCEPT !.cancelled = cancelled]
        /\ selection' = selection \/ (FrameVisible /\ selection' = Selected(point, TRUE))
        /\ UNCHANGED <<pane, owned, clipboard, followed>>
    BY <1>5 DEF Move
  <2>2. cancelled \in BOOLEAN
    BY <1>1
  <2> HIDE DEF cancelled
  <2>3. hand' \in Hands /\ hand'.over = hand.over /\ hand'.meant = hand.meant
        /\ hand'.buttons = hand.buttons
    BY <1>1, <2>1, <2>2 DEF Hands
  <2>4. selection' \in Selections /\ SelectionIsOfFrame'
    BY <2>1, SelectionStays
  <2> QED
    BY <1>1, <1>2, <2>1, <2>3, <2>4 DEF PressIsMeant
<1>6. CASE Release(bit, point, alone)
  <2> DEFINE rest == hand.buttons \ {bit}
             clicks == Clicks(bit, point, alone)
  <2>1. /\ followed' = (IF clicks
                        THEN [link |-> hand.link, pressed |-> hand.meant, released |-> pane.current]
                        ELSE followed)
        /\ hand' = (IF rest = {} \/ clicks
                    THEN [hand EXCEPT !.buttons = rest, !.over = NoFrame, !.link = "", !.meant = NoFrame]
                    ELSE [hand EXCEPT !.buttons = rest])
        /\ UNCHANGED <<pane, selection, clipboard>>
    BY <1>6 DEF Release
  <2>2. rest \in SUBSET {"left", "right"}
    BY <1>1
  <2>3. clicks => hand.meant = pane.current
    BY <1>1 DEF Clicks, FrameVisible, PressIsMeant
  <2> HIDE DEF rest, clicks
  <2>4. followed' = followed \/ followed'.pressed = followed'.released
    BY <2>1, <2>3
  <2>5. hand' \in Hands /\ PressIsMeant'
    <3>1. CASE rest = {} \/ clicks
      <4>1. hand' = [hand EXCEPT !.buttons = rest, !.over = NoFrame, !.link = "", !.meant = NoFrame]
        BY <2>1, <3>1
      <4>2. hand' \in Hands /\ hand'.over = NoFrame
        BY <1>1, <2>2, <4>1, FrameFacts DEF Hands
      <4> QED
        BY <4>2 DEF PressIsMeant
    <3>2. CASE ~(rest = {} \/ clicks)
      <4>1. hand' = [hand EXCEPT !.buttons = rest]
        BY <2>1, <3>2
      <4>2. hand' \in Hands /\ hand'.over = hand.over /\ hand'.meant = hand.meant /\ hand'.buttons = rest
        BY <1>1, <2>2, <4>1 DEF Hands
      <4> QED
        BY <1>1, <3>2, <4>2 DEF PressIsMeant
    <3> QED
      BY <3>1, <3>2
  <2> QED
    BY <1>2, <2>1, <2>4, <2>5, SelectionStays
<1>7. CASE Ungrab
  <2>1. /\ hand' = [hand EXCEPT !.buttons = {}, !.over = NoFrame, !.link = "", !.cancelled = TRUE]
        /\ UNCHANGED <<pane, selection, owned, clipboard, followed>>
    BY <1>7 DEF Ungrab
  <2>2. hand' \in Hands /\ hand'.over = NoFrame
    BY <1>1, <2>1, FrameFacts DEF Hands
  <2> QED
    BY <1>2, <2>1, <2>2, SelectionStays DEF PressIsMeant
<1> QED
  BY <1>3, <1>4, <1>5, <1>6, <1>7

\* The keys, and another program that takes the selection.
LEMMA KeyKeeps ==
    ASSUME PointerInv, Lose \/ SelectAll \/ Copy \/ Unselect
    PROVE  PointerInv'
<1>1. /\ hand \in Hands /\ clipboard \in Clipboards /\ pane \in Views /\ selection \in Selections
      /\ PressIsMeant /\ CopiedSomething /\ SelectionIsOfFrame
      /\ followed.link # "" => followed.pressed = followed.released
      /\ selection.anchor \in Points /\ selection.caret \in Points
  BY PointerFields DEF PointerInv
<1>2. CASE Lose \/ Unselect
  <2>1. selection' = NoSelection /\ UNCHANGED <<pane, hand, clipboard, followed>>
    BY <1>2 DEF Lose, Unselect
  <2> QED
    BY <1>1, <2>1, SelectionStays DEF PointerInv, PressIsMeant, CopiedSomething
<1>3. CASE SelectAll
  <2> DEFINE token == pane.current.token
  <2>1. /\ selection' = [anchor |-> 0, caret |-> Length, of |-> token]
        /\ UNCHANGED <<pane, hand, clipboard, followed>>
    BY <1>3 DEF SelectAll
  <2>2. token \in Tokens
    BY <1>3, PointerFields DEF SelectAll
  <2>3. selection' \in Selections /\ selection'.of = token
    <3> HIDE DEF token
    <3> QED
      BY <2>1, <2>2, FrameFacts DEF Selections
  <2> QED
    BY <1>1, <2>1, <2>3 DEF PointerInv, SelectionIsOfFrame, PressIsMeant, CopiedSomething
<1>4. CASE Copy
  <2> DEFINE ends == {selection.anchor, selection.caret}
             begin == CHOOSE x \in ends : \A y \in ends : x <= y
             end == CHOOSE x \in ends : \A y \in ends : y <= x
             token == pane.current.token
  <2>1. /\ clipboard' = [of |-> token, begin |-> begin, end |-> end]
        /\ UNCHANGED <<pane, hand, selection, owned, followed>>
    BY <1>4 DEF Copy
  <2>2. /\ selection.anchor \in Nat /\ selection.caret \in Nat /\ selection.anchor # selection.caret
        /\ token \in Tokens
    BY <1>1, <1>4, PointerFields, FrameFacts DEF Copy, SelectsNothing
  <2>3. /\ \E x \in ends : \A y \in ends : x <= y
        /\ \E x \in ends : \A y \in ends : y <= x
    BY <2>2
  <2>4. begin \in ends /\ \A y \in ends : begin <= y
    BY <2>3
  <2>5. end \in ends /\ \A y \in ends : y <= end
    BY <2>3
  <2>6. \A x \in ends : x = selection.anchor \/ x = selection.caret
    OBVIOUS
  <2>7. selection.anchor \in ends /\ selection.caret \in ends
    OBVIOUS
  <2> HIDE DEF begin, end, token, ends
  <2>8. begin \in Points /\ end \in Points /\ begin \in Nat /\ end \in Nat
    BY <1>1, <2>2, <2>4, <2>5, <2>6
  <2>9. /\ begin <= selection.anchor /\ begin <= selection.caret
        /\ selection.anchor <= end /\ selection.caret <= end
    BY <2>4, <2>5, <2>7
  <2>10. begin < end /\ begin \in Points /\ end \in Points
    BY <2>2, <2>8, <2>9
  <2>11. clipboard' \in Clipboards /\ clipboard'.begin = begin /\ clipboard'.end = end
    BY <2>1, <2>2, <2>10 DEF Clipboards
  <2> QED
    BY <1>1, <2>1, <2>10, <2>11
       DEF PointerInv, SelectionIsOfFrame, SelectsNothing, PressIsMeant, CopiedSomething
<1> QED
  BY <1>2, <1>3, <1>4

\* At first nothing is shown, pressed or selected.
LEMMA PointerInitHolds == PointerInit => PointerInv
<1> SUFFICES ASSUME NEW token \in Tokens,
                    pane = [expected |-> token, current |-> NoFrame, active |-> FALSE],
                    hand = [buttons |-> {}, point |-> 0, over |-> NoFrame, link |-> "",
                            cancelled |-> FALSE, meant |-> NoFrame],
                    selection = NoSelection, clipboard = NoText, followed = NoLink
             PROVE  PointerInv
  BY DEF PointerInit
<1>1. pane \in Views /\ hand \in Hands /\ hand.over = NoFrame
  BY FrameFacts DEF Views, Hands
<1>2. clipboard \in Clipboards
  BY FrameFacts DEF Clipboards, NoText
<1>3. followed.link = ""
  BY DEF NoLink
<1> QED
  BY <1>1, <1>2, <1>3, FrameFacts
     DEF PointerInv, SelectionIsOfFrame, PressIsMeant, CopiedSomething

\* Every step of the hand keeps the invariant.
LEMMA PointerStepKeeps == PointerInv /\ [PointerNext]_pointerVars => PointerInv'
<1> SUFFICES ASSUME PointerInv, [PointerNext]_pointerVars PROVE PointerInv'
  OBVIOUS
<1>1. CASE UNCHANGED pointerVars
  BY <1>1 DEF pointerVars, PointerInv, SelectionIsOfFrame, SelectsNothing, PressIsMeant, CopiedSomething
<1>2. CASE PointerNext
  <2>1. 0 \in Points
    BY FrameFacts
  <2> QED
    BY <1>2, <2>1, PaneKeeps, ButtonKeeps, KeyKeeps DEF PointerNext
<1> QED
  BY <1>1, <1>2

\* It makes the hand followed.
LEMMA PointerInvMeans == PointerInv => PointerTypeOK /\ HandIsFollowed
<1> SUFFICES ASSUME PointerInv PROVE PointerTypeOK /\ HandIsFollowed
  OBVIOUS
<1>1. PointerTypeOK
  <2>1. clipboard.begin \in Points /\ clipboard.end \in Points
    BY DEF PointerInv, Clipboards
  <2> QED
    BY <2>1, PointerFields DEF PointerTypeOK, FramesOrNone
<1>2. HandIsFollowed
  BY DEF PointerInv, HandIsFollowed, FrameVisible, SelectionIsOfFrame, PressIsMeant, CopiedSomething
<1> QED
  BY <1>1, <1>2

\* Clicks and selections are of what was shown when the button was pressed:
\* FoxPreviewInput, PreviewSelection and FoxRenderHost.
THEOREM HandIsHeld == PointerSpec => [](PointerTypeOK /\ HandIsFollowed)
<1>1. PointerInit => PointerInv
  BY PointerInitHolds
<1>2. PointerInv /\ [PointerNext]_pointerVars => PointerInv'
  BY PointerStepKeeps
<1>3. PointerInv => PointerTypeOK /\ HandIsFollowed
  BY PointerInvMeans
<1> QED
  BY <1>1, <1>2, <1>3, PTL DEF PointerSpec

-----------------------------------------------------------------------------
(***************************************************************************)
(* The services side by side.                                              *)
(***************************************************************************)

\* Whichever service a behaviour follows, each of them begins as it does alone.
LEMMA EachBegins ==
    ServicesInit => /\ ExportInit /\ RefInit /\ WorkInit /\ SetInit /\ ListInit /\ ZoomInit
                    /\ WheelInit /\ PointerInit
  BY DEF ServicesInit

\* It takes one of its own steps then, or rests.
LEMMA EachRuns ==
    [ServicesNext]_serviceVars =>
       /\ [ExportNext]_exportVars /\ [RefNext]_refVars /\ [WorkNext]_workVars /\ [SetNext]_setVars
       /\ [ListNext]_listVars /\ [ZoomNext]_zoomVars /\ [WheelNext]_wheelVars
       /\ [PointerNext]_pointerVars
<1>1. UNCHANGED serviceVars =>
         /\ UNCHANGED exportVars /\ UNCHANGED refVars /\ UNCHANGED workVars /\ UNCHANGED setVars
         /\ UNCHANGED listVars /\ UNCHANGED zoomVars /\ UNCHANGED wheelVars /\ UNCHANGED pointerVars
  BY DEF serviceVars
<1>2. ServicesNext =>
         /\ [ExportNext]_exportVars /\ [RefNext]_refVars /\ [WorkNext]_workVars /\ [SetNext]_setVars
         /\ [ListNext]_listVars /\ [ZoomNext]_zoomVars /\ [WheelNext]_wheelVars
         /\ [PointerNext]_pointerVars
  BY DEF ServicesNext, Rests
<1> QED
  BY <1>1, <1>2

\* All the type invariants, for every behaviour of the services side by side.
THEOREM ServiceTypesHold == ServicesSpec => []TypeOK
<1>1. ExportInit /\ RefInit /\ WorkInit => ExportInv /\ RefInv /\ WorkInv
  BY ExportInitHolds, RefInitFits, WorkInitHolds
<1>2. ExportInv /\ [ExportNext]_exportVars => ExportInv'
  BY ThreadKeeps, OthersKeep DEF ExportNext
<1>3. RefInv /\ [RefNext]_refVars => RefInv'
  BY RefStepKeepsInv
<1>4. WorkInv /\ [WorkNext]_workVars => WorkInv'
  BY WorkStepKeeps
<1>5. ExportInv /\ RefInv /\ WorkInv => ExportTypeOK /\ RefTypeOK /\ WorkTypeOK
  BY RefInvTypes, WorkInvMeans DEF ExportInv
<1>6. ExportTypeOK /\ RefTypeOK /\ WorkTypeOK /\ SetTypeOK /\ ListTypeOK /\ ZoomTypeOK
        /\ WheelTypeOK /\ PointerTypeOK
      => TypeOK
  BY DEF TypeOK
<1>7. ServicesSpec => SetSpec /\ ListSpec /\ ZoomSpec /\ WheelSpec /\ PointerSpec
  BY EachBegins, EachRuns, PTL
     DEF ServicesSpec, SetSpec, ListSpec, ZoomSpec, WheelSpec, PointerSpec
<1>8. ServicesSpec => [](ExportInv /\ RefInv /\ WorkInv)
  BY EachBegins, EachRuns, <1>1, <1>2, <1>3, <1>4, PTL DEF ServicesSpec
<1> QED
  BY <1>5, <1>6, <1>7, <1>8, SettingsAreHeld, ListsAreHeld, ViewsKeepTheirShare, WheelIsHeld,
     HandIsHeld, PTL

\* The settings in the registry and the views, and the lists that are chosen
\* from, opened and saved, agree.
THEOREM KeptIsWhatIsShown == ServicesSpec => []KeptIsShown
<1>1. ServicesSpec => SetSpec /\ ListSpec
  BY EachBegins, EachRuns, PTL DEF ServicesSpec, SetSpec, ListSpec
<1>2. SetTypeOK /\ SettingsHold /\ ListTypeOK /\ ListsHold => KeptIsShown
  BY DEF KeptIsShown
<1> QED
  BY <1>1, <1>2, SettingsAreHeld, ListsAreHeld, PTL

\* The panes keep their share and pages fit, turns of the wheel add up and end,
\* the hand follows what is under it.
THEOREM InputIsAlwaysFollowed == ServicesSpec => InputIsFollowed
<1>1. ServicesSpec => ZoomSpec /\ WheelSpec /\ PointerSpec
  BY EachBegins, EachRuns, PTL DEF ServicesSpec, ZoomSpec, WheelSpec, PointerSpec
<1> QED
  BY <1>1, ViewsKeepTheirShare, WheelIsHeld, HandIsHeld, PTL DEF InputIsFollowed

=============================================================================
