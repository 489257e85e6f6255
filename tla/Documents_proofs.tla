-------------------------- MODULE Documents_proofs --------------------------
(***************************************************************************)
(* Proofs about the undo history and about the document transactions that  *)
(* use it. First the history: the two stacks are one chain of changes      *)
(* through the buffer, whatever is edited, undone, redone or trimmed; and  *)
(* the byte counter never falls below what the stacks hold, so that the    *)
(* trimming loop keeps the history within its budget. Then the             *)
(* transactions, for any paths, texts and bounds: whatever dialogs are     *)
(* open and whatever other programs and deliveries do meanwhile, no        *)
(* unsaved text is lost without an answer for it, a save writes the        *)
(* document it was given for, and no file but the document's own is        *)
(* replaced unasked.                                                       *)
(***************************************************************************)
EXTENDS Documents, FileStore_proofs, SequenceTheorems, WellFoundedInduction, TLAPS

-----------------------------------------------------------------------------
(***************************************************************************)
(* The undo history (EditController).                                      *)
(***************************************************************************)

(***************************************************************************)
(* Induction over a set of numbers.  A least element outside the set has a *)
(* predecessor in it.                                                      *)
(***************************************************************************)
LEMMA SetInduction ==
    ASSUME NEW G, 0 \in G, \A n \in Nat : n \in G => n + 1 \in G
    PROVE  Nat \subseteq G
<1> DEFINE Bad == Nat \ G
           R == {p \in Nat \X Nat : p[1] < p[2]}
<1> SUFFICES ASSUME Bad # {} PROVE FALSE
  OBVIOUS
<1>1. OpToRel(<, Nat) = R
  BY DEF OpToRel
<1>2. IsWellFoundedOn(R, Nat)
  BY <1>1, NatLessThanWellFounded
<1>3. PICK x \in Bad : \A y \in Bad : ~(<<y, x>> \in R)
  <2>1. Bad \subseteq Nat /\ Bad # {}
    OBVIOUS
  <2> HIDE DEF Bad, R
  <2> QED
    BY <1>2, <2>1, WFMin
<1>4. x \in Nat /\ x # 0 /\ x - 1 \in Nat /\ x - 1 < x /\ (x - 1) + 1 = x
  BY <1>3
<1>5. <<x - 1, x>> \in R
  BY <1>4
<1>6. x - 1 \in G
  BY <1>3, <1>4, <1>5
<1> QED
  BY <1>3, <1>4, <1>6

(***************************************************************************)
(* TotalBytes: the sums of all prefixes of a stack.                        *)
(***************************************************************************)
IsSum(s, stack) ==
    s = [n \in 0..Len(stack) |-> IF n = 0 THEN 0 ELSE s[n - 1] + Bytes(stack[n])]

SumOf(stack) == CHOOSE s : IsSum(s, stack)

\* The sums s of the first k members of a sequence of numbers w.
Sums(s, w, k) == s \in [0..k -> Nat] /\ s[0] = 0 /\ \A n \in 1..k : s[n] = s[n - 1] + w[n]

LEMMA SumsExist ==
    ASSUME NEW m \in Nat, NEW w \in [1..m -> Nat]
    PROVE  \E s : Sums(s, w, m)
<1> DEFINE Has(k) == k <= m => \E s : Sums(s, w, k)
           G == {k \in Nat : Has(k)}
<1>1. Has(0)
  <2>1. Sums([n \in 0..0 |-> 0], w, 0)
    BY DEF Sums
  <2> QED
    BY <2>1
<1>2. ASSUME NEW k \in Nat, Has(k) PROVE Has(k + 1)
  <2> SUFFICES ASSUME k + 1 <= m PROVE \E s : Sums(s, w, k + 1)
    OBVIOUS
  <2>1. PICK s : Sums(s, w, k)
    BY <1>2
  <2>2. s \in [0..k -> Nat] /\ s[0] = 0 /\ \A n \in 1..k : s[n] = s[n - 1] + w[n]
    BY <2>1 DEF Sums
  <2>3. k + 1 \in 1..m /\ w[k + 1] \in Nat /\ s[k] \in Nat /\ k \in 0..k
    BY <2>2
  <2> DEFINE t == [n \in 0..(k + 1) |-> IF n = k + 1 THEN s[k] + w[k + 1] ELSE s[n]]
  <2>4. t \in [0..(k + 1) -> Nat]
    <3>1. ASSUME NEW n \in 0..(k + 1), n # k + 1 PROVE s[n] \in Nat
      <4>1. n \in 0..k
        BY <3>1
      <4> QED
        BY <4>1, <2>2
    <3> QED
      BY <3>1, <2>3
  <2>5. t[0] = 0
    BY <2>2
  <2>6. ASSUME NEW n \in 1..(k + 1) PROVE t[n] = t[n - 1] + w[n]
    <3>1. CASE n = k + 1
      <4>1. t[n] = s[k] + w[n] /\ t[k] = s[k] /\ n - 1 = k
        BY <3>1
      <4> QED
        BY <4>1
    <3>2. CASE n # k + 1
      <4>1. n \in 1..k /\ n \in 0..(k + 1) /\ n - 1 \in 0..(k + 1) /\ n - 1 # k + 1
        BY <3>2
      <4>2. t[n] = s[n] /\ t[n - 1] = s[n - 1]
        BY <4>1
      <4> QED
        BY <4>1, <4>2, <2>2
    <3> QED
      BY <3>1, <3>2
  <2>7. Sums(t, w, k + 1)
    <3> HIDE DEF t
    <3> QED
      BY <2>4, <2>5, <2>6 DEF Sums
  <2> QED
    BY <2>7
<1>3. Nat \subseteq G
  <2>1. 0 \in G
    <3> HIDE DEF Has
    <3> QED
      BY <1>1
  <2>2. \A n \in Nat : n \in G => n + 1 \in G
    <3> HIDE DEF Has
    <3> QED
      BY <1>2
  <2> HIDE DEF G
  <2> QED
    BY <2>1, <2>2, SetInduction
<1> QED
  BY <1>3

LEMMA BytesType == ASSUME NEW c \in Change PROVE Bytes(c) \in Nat
  BY EditAssumption DEF Bytes, Change

\* What the recursive definition of TotalBytes computes.
LEMMA SumFacts ==
    ASSUME NEW stack \in Seq(Change)
    PROVE  /\ SumOf(stack) \in [0..Len(stack) -> Nat]
           /\ SumOf(stack)[0] = 0
           /\ \A n \in 1..Len(stack) :
                 SumOf(stack)[n] = SumOf(stack)[n - 1] + Bytes(stack[n])
           /\ TotalBytes(stack) = SumOf(stack)[Len(stack)]
<1> DEFINE m == Len(stack)
           w == [n \in 1..m |-> Bytes(stack[n])]
<1>1. m \in Nat /\ \A n \in 1..m : stack[n] \in Change
  BY ElementOfSeq
<1>2. w \in [1..m -> Nat]
  BY <1>1, BytesType
<1>3. PICK s : Sums(s, w, m)
  <2> HIDE DEF m, w
  <2> QED
    BY <1>1, <1>2, SumsExist
<1>4. IsSum(s, stack)
  <2>1. /\ s \in [0..m -> Nat] /\ s[0] = 0
        /\ \A n \in 1..m : s[n] = s[n - 1] + Bytes(stack[n])
    BY <1>3 DEF Sums
  <2>2. \A n \in 0..m : s[n] = IF n = 0 THEN 0 ELSE s[n - 1] + Bytes(stack[n])
    BY <1>1, <2>1
  <2> QED
    BY <2>1, <2>2 DEF IsSum
<1>5. IsSum(SumOf(stack), stack)
  BY <1>4 DEF SumOf
<1>6. TotalBytes(stack) = SumOf(stack)[Len(stack)]
  BY DEF TotalBytes, SumOf, IsSum
<1> DEFINE z == SumOf(stack)
<1>7. z = [n \in 0..m |-> IF n = 0 THEN 0 ELSE z[n - 1] + Bytes(stack[n])]
  BY <1>5 DEF IsSum
<1> HIDE DEF z
<1>8. /\ DOMAIN z = 0..m /\ z[0] = 0
      /\ \A n \in 1..m : z[n] = z[n - 1] + Bytes(stack[n])
  <2>1. \A n \in 0..m : z[n] = IF n = 0 THEN 0 ELSE z[n - 1] + Bytes(stack[n])
    BY <1>7
  <2>2. 0 \in 0..m /\ \A n \in 1..m : n \in 0..m /\ n # 0
    BY <1>1
  <2> QED
    BY <1>7, <2>1, <2>2
<1>9. \A n \in 0..m : z[n] \in Nat
  <2> DEFINE G == {n \in Nat : n \in 0..m => z[n] \in Nat}
  <2>1. 0 \in G
    BY <1>8
  <2>2. \A n \in Nat : n \in G => n + 1 \in G
    <3> SUFFICES ASSUME NEW n \in Nat, n \in G, n + 1 \in 0..m PROVE z[n + 1] \in Nat
      OBVIOUS
    <3>1. n \in 0..m /\ n + 1 \in 1..m /\ (n + 1) - 1 = n /\ z[n] \in Nat
      BY <1>1
    <3>2. z[n + 1] = z[n] + Bytes(stack[n + 1]) /\ Bytes(stack[n + 1]) \in Nat
      BY <1>1, <1>8, <3>1, BytesType
    <3> QED
      BY <3>1, <3>2
  <2>3. Nat \subseteq G
    <3> HIDE DEF G
    <3> QED
      BY <2>1, <2>2, SetInduction
  <2> QED
    BY <1>1, <2>3
<1> QED
  <2>1. z = [n \in 0..m |-> z[n]]
    BY <1>7
  <2>2. z \in [0..m -> Nat]
    BY <1>9, <2>1
  <2> QED
    BY <1>6, <1>8, <2>2 DEF z

LEMMA TotalType == ASSUME NEW stack \in Seq(Change) PROVE TotalBytes(stack) \in Nat
  BY SumFacts

LEMMA TotalOfNothing == TotalBytes(<<>>) = 0
<1>1. <<>> \in Seq(Change) /\ Len(<<>>) = 0
  OBVIOUS
<1> QED
  BY <1>1, SumFacts

\* Part of a stack, from position i + 1 on, has its own sums above those of
\* the first i changes.
LEMMA SumsOfPart ==
    ASSUME NEW stack \in Seq(Change), NEW part \in Seq(Change), NEW i \in Nat,
           i + Len(part) <= Len(stack),
           \A n \in 1..Len(part) : part[n] = stack[i + n]
    PROVE  \A k \in 0..Len(part) : SumOf(stack)[i + k] = SumOf(stack)[i] + SumOf(part)[k]
<1> DEFINE a == SumOf(stack)
           b == SumOf(part)
           m == Len(part)
           l == Len(stack)
<1>1. /\ a \in [0..l -> Nat] /\ \A n \in 1..l : a[n] = a[n - 1] + Bytes(stack[n])
      /\ b \in [0..m -> Nat] /\ b[0] = 0
      /\ \A n \in 1..m : b[n] = b[n - 1] + Bytes(part[n])
      /\ m \in Nat /\ l \in Nat /\ i + m <= l
      /\ \A n \in 1..m : part[n] = stack[i + n] /\ Bytes(part[n]) \in Nat
  BY SumFacts, BytesType, ElementOfSeq
<1> HIDE DEF a, b, m, l
<1> DEFINE G == {k \in Nat : k <= m => a[i + k] = a[i] + b[k]}
<1>2. 0 \in G
  <2>1. a[i] \in Nat /\ i + 0 = i
    BY <1>1
  <2> QED
    BY <1>1, <2>1
<1>3. \A k \in Nat : k \in G => k + 1 \in G
  <2> SUFFICES ASSUME NEW k \in Nat, k \in G, k + 1 <= m
               PROVE  a[i + (k + 1)] = a[i] + b[k + 1]
    OBVIOUS
  <2>1. /\ k + 1 \in 1..m /\ (k + 1) - 1 = k /\ k \in 0..m /\ i \in 0..l
        /\ i + (k + 1) \in 1..l /\ (i + (k + 1)) - 1 = i + k
    BY <1>1
  <2>2. b[k + 1] = b[k] + Bytes(part[k + 1])
    BY <1>1, <2>1
  <2>3. a[i + (k + 1)] = a[i + k] + Bytes(stack[i + (k + 1)])
    BY <1>1, <2>1
  <2>4. a[i + k] = a[i] + b[k]
    BY <1>1, <2>1
  <2>5. a[i] \in Nat /\ b[k] \in Nat /\ Bytes(part[k + 1]) \in Nat
        /\ part[k + 1] = stack[i + (k + 1)]
    BY <1>1, <2>1
  <2> QED
    BY <2>2, <2>3, <2>4, <2>5
<1>4. Nat \subseteq G
  <2> HIDE DEF G
  <2> QED
    BY <1>2, <1>3, SetInduction
<1>5. \A k \in 0..m : a[i + k] = a[i] + b[k]
  BY <1>1, <1>4
<1> QED
  BY <1>5 DEF a, b, m

\* What is left of a stack when its n oldest changes are dropped.
LEMMA SuffixFacts ==
    ASSUME NEW stack \in Seq(Change), NEW n \in 0..Len(stack)
    PROVE  LET back == SubSeq(stack, n + 1, Len(stack))
           IN  /\ back \in Seq(Change) /\ Len(back) = Len(stack) - n
               /\ \A i \in 1..(Len(stack) - n) : back[i] = stack[n + i]
<1> DEFINE back == SubSeq(stack, n + 1, Len(stack))
<1>1. /\ n \in Nat /\ Len(stack) \in Nat /\ n <= Len(stack)
      /\ \A i \in 1..Len(stack) : stack[i] \in Change
  BY ElementOfSeq
<1>2. \A i \in (n + 1)..Len(stack) : stack[i] \in Change
  BY <1>1
<1>3. /\ back \in Seq(Change)
      /\ Len(back) = (IF n + 1 <= Len(stack) THEN Len(stack) - (n + 1) + 1 ELSE 0)
      /\ \A i \in 1..(Len(stack) - (n + 1) + 1) : back[i] = stack[(n + 1) + i - 1]
  BY <1>1, <1>2, SubSeqProperties
<1> QED
  BY <1>1, <1>3

\* The bytes of the two halves of a stack add up.
LEMMA TotalSplits ==
    ASSUME NEW stack \in Seq(Change), NEW n \in 0..Len(stack)
    PROVE  /\ SubSeq(stack, 1, n) \in Seq(Change) /\ Len(SubSeq(stack, 1, n)) = n
           /\ SubSeq(stack, n + 1, Len(stack)) \in Seq(Change)
           /\ Len(SubSeq(stack, n + 1, Len(stack))) = Len(stack) - n
           /\ TotalBytes(stack) =
                TotalBytes(SubSeq(stack, 1, n)) + TotalBytes(SubSeq(stack, n + 1, Len(stack)))
<1> DEFINE front == SubSeq(stack, 1, n)
           back == SubSeq(stack, n + 1, Len(stack))
<1>1. /\ n \in Nat /\ Len(stack) \in Nat /\ n <= Len(stack)
      /\ \A i \in 1..Len(stack) : stack[i] \in Change
  BY ElementOfSeq
<1>2. front \in Seq(Change) /\ Len(front) = n /\ \A i \in 1..n : front[i] = stack[0 + i]
  <2>1. \A i \in 1..n : stack[i] \in Change
    BY <1>1
  <2>2. /\ front \in Seq(Change) /\ Len(front) = (IF 1 <= n THEN n - 1 + 1 ELSE 0)
        /\ \A i \in 1..(n - 1 + 1) : front[i] = stack[1 + i - 1]
    BY <1>1, <2>1, SubSeqProperties
  <2> QED
    BY <1>1, <2>2
<1>3. /\ back \in Seq(Change) /\ Len(back) = Len(stack) - n
      /\ \A i \in 1..(Len(stack) - n) : back[i] = stack[n + i]
  BY SuffixFacts
<1> HIDE DEF front, back
<1>4. SumOf(stack)[0 + n] = SumOf(stack)[0] + SumOf(front)[n]
  BY <1>1, <1>2, SumsOfPart
<1>5. SumOf(stack)[n + Len(back)] = SumOf(stack)[n] + SumOf(back)[Len(back)]
  <2>1. /\ n + Len(back) <= Len(stack) /\ Len(back) \in 0..Len(back)
        /\ \A i \in 1..Len(back) : back[i] = stack[n + i]
    BY <1>1, <1>3
  <2> QED
    BY <1>1, <1>3, <2>1, SumsOfPart
<1>6. /\ TotalBytes(front) = SumOf(front)[n] /\ TotalBytes(back) = SumOf(back)[Len(back)]
      /\ TotalBytes(stack) = SumOf(stack)[Len(stack)] /\ SumOf(stack)[0] = 0
      /\ TotalBytes(front) \in Nat /\ TotalBytes(back) \in Nat
  BY <1>2, <1>3, SumFacts, TotalType
<1>7. TotalBytes(stack) = TotalBytes(front) + TotalBytes(back)
  <2>1. n + Len(back) = Len(stack) /\ 0 + n = n
    BY <1>1, <1>3
  <2> QED
    BY <1>4, <1>5, <1>6, <2>1
<1> QED
  BY <1>2, <1>3, <1>7 DEF front, back

LEMMA TotalOfAppend ==
    ASSUME NEW stack \in Seq(Change), NEW c \in Change
    PROVE  TotalBytes(Append(stack, c)) = TotalBytes(stack) + Bytes(c)
<1> DEFINE longer == Append(stack, c)
<1>1. /\ longer \in Seq(Change) /\ Len(longer) = Len(stack) + 1 /\ Len(stack) \in Nat
      /\ \A i \in 1..Len(stack) : longer[i] = stack[0 + i]
      /\ longer[Len(stack) + 1] = c
  BY AppendProperties
<1> HIDE DEF longer
<1>2. SumOf(longer)[0 + Len(stack)] = SumOf(longer)[0] + SumOf(stack)[Len(stack)]
  BY <1>1, SumsOfPart
<1>3. /\ SumOf(longer)[0] = 0
      /\ SumOf(longer)[Len(stack) + 1] = SumOf(longer)[(Len(stack) + 1) - 1] + Bytes(c)
      /\ TotalBytes(longer) = SumOf(longer)[Len(stack) + 1]
      /\ TotalBytes(stack) = SumOf(stack)[Len(stack)] /\ TotalBytes(stack) \in Nat
  <2>1. /\ SumOf(longer)[0] = 0
        /\ \A n \in 1..Len(longer) :
              SumOf(longer)[n] = SumOf(longer)[n - 1] + Bytes(longer[n])
        /\ TotalBytes(longer) = SumOf(longer)[Len(longer)]
    BY <1>1, SumFacts
  <2>2. Len(stack) + 1 \in 1..Len(longer)
    BY <1>1
  <2> QED
    BY <1>1, <2>1, <2>2, SumFacts, TotalType
<1> QED
  BY <1>1, <1>2, <1>3 DEF longer

LEMMA LastOrBefore == ASSUME NEW m \in Nat, NEW i \in 1..m, i # m PROVE i \in 1..(m - 1)
  OBVIOUS

\* Taking the newest change off a stack.
LEMMA FrontFacts ==
    ASSUME NEW stack \in Seq(Change), stack # <<>>
    PROVE  LET front == SubSeq(stack, 1, Len(stack) - 1)
               last == stack[Len(stack)]
           IN  /\ last \in Change /\ front \in Seq(Change) /\ Len(stack) \in Nat \ {0}
               /\ Len(front) = Len(stack) - 1
               /\ \A i \in 1..(Len(stack) - 1) : front[i] = stack[i]
               /\ TotalBytes(stack) = TotalBytes(front) + Bytes(last)
<1> DEFINE front == SubSeq(stack, 1, Len(stack) - 1)
           last == stack[Len(stack)]
           n == Len(stack) - 1
<1>1. Len(stack) \in Nat \ {0} /\ n \in 0..Len(stack) /\ n \in Nat /\ n + 1 = Len(stack)
  BY EmptySeq
<1>2. last \in Change /\ \A i \in 1..n : stack[i] \in Change
  BY <1>1, ElementOfSeq
<1>3. front \in Seq(Change) /\ Len(front) = n /\ \A i \in 1..n : front[i] = stack[i]
  <2>1. /\ front \in Seq(Change) /\ Len(front) = (IF 1 <= n THEN n - 1 + 1 ELSE 0)
        /\ \A i \in 1..(n - 1 + 1) : front[i] = stack[1 + i - 1]
    BY <1>1, <1>2, SubSeqProperties
  <2> QED
    BY <1>1, <2>1
<1>4. stack = Append(front, last)
  <2>1. /\ Append(front, last) \in Seq(Change) /\ Len(Append(front, last)) = Len(stack)
        /\ \A i \in 1..n : Append(front, last)[i] = stack[i]
        /\ Append(front, last)[Len(stack)] = last
    <3> HIDE DEF front, last
    <3>1. /\ Append(front, last) \in Seq(Change) /\ Len(Append(front, last)) = Len(front) + 1
          /\ \A i \in 1..Len(front) : Append(front, last)[i] = front[i]
          /\ Append(front, last)[Len(front) + 1] = last
      BY <1>2, <1>3, AppendProperties
    <3> QED
      BY <1>1, <1>3, <3>1
  <2>2. \A i \in 1..Len(stack) : Append(front, last)[i] = stack[i]
    <3> SUFFICES ASSUME NEW i \in 1..Len(stack) PROVE Append(front, last)[i] = stack[i]
      OBVIOUS
    <3>1. i # Len(stack) => i \in 1..n
      BY <1>1, LastOrBefore
    <3> HIDE DEF front, n
    <3> QED
      BY <2>1, <3>1
  <2> QED
    BY <2>1, <2>2, SeqEqual
<1>5. TotalBytes(stack) = TotalBytes(front) + Bytes(last)
  BY <1>2, <1>3, <1>4, TotalOfAppend
<1> QED
  BY <1>1, <1>2, <1>3, <1>5

(***************************************************************************)
(* The steps of the controller.                                            *)
(***************************************************************************)
\* The inductive invariant.  The budget needs the counter to be a number that
\* covers both stacks; neither part needs the other.
EditInv ==
    /\ EditTypeOK
    /\ historyBytes \in Nat
    /\ HistoryChains
    /\ HistoryWithinBudget

\* An edit of the buffer, whatever it is called by.
LEMMA EditedSession ==
    ASSUME session \in Session, NEW t \in Texts
    PROVE  /\ Edited(session, t) \in Session
           /\ Edited(session, t).text = t
           /\ Edited(session, t).baseline = session.baseline
           /\ Edited(session, t).file = session.file
           /\ Edited(session, t).path = session.path
           /\ Edited(session, t).kind = session.kind
           /\ Edited(session, t).document = session.document
           /\ t # session.text => Edited(session, t).revision = session.revision + 1
           /\ t = session.text => Edited(session, t) = session
<1>1. session.revision + 1 \in Nat /\ session.revision \in Nat
  BY DEF Session
<1> QED
  BY <1>1 DEF Edited, Session

\* What a recorded edit does to the stacks: the undo stack becomes the part of
\* the recorded changes after the first n.
LEMMA AppliedEdit ==
    ASSUME EditTypeOK, NEW t \in Texts, ApplyEdit(t)
    PROVE  LET change == [before |-> session.text, after |-> t]
               recorded == Append(undoStack, change)
               bytes == historyBytes + Bytes(change)
           IN /\ change \in Change /\ recorded \in Seq(Change)
              /\ t # session.text /\ session' = Edited(session, t) /\ redoStack' = <<>>
              /\ Len(recorded) = Len(undoStack) + 1 /\ Len(undoStack) \in Nat
              /\ \A i \in 1..Len(undoStack) : recorded[i] = undoStack[i]
              /\ recorded[Len(undoStack) + 1] = change
              /\ \E n \in 0..Len(undoStack) :
                    /\ undoStack' = SubSeq(recorded, n + 1, Len(recorded))
                    /\ undoStack' \in Seq(Change)
                    /\ Len(undoStack') = Len(undoStack) + 1 - n
                    /\ \A i \in 1..(Len(undoStack) + 1 - n) : undoStack'[i] = recorded[n + i]
                    /\ historyBytes' = bytes - TotalBytes(SubSeq(recorded, 1, n))
                    /\ \/ bytes - TotalBytes(SubSeq(recorded, 1, n)) <= Budget
                       \/ n = Len(undoStack)
<1> DEFINE change == [before |-> session.text, after |-> t]
           recorded == Append(undoStack, change)
           bytes == historyBytes + Bytes(change)
<1>1. change \in Change /\ undoStack \in Seq(Change)
  BY DEF EditTypeOK, Session, Change
<1>2. /\ recorded \in Seq(Change)
      /\ Len(recorded) = Len(undoStack) + 1 /\ Len(undoStack) \in Nat
      /\ \A i \in 1..Len(undoStack) : recorded[i] = undoStack[i]
      /\ recorded[Len(undoStack) + 1] = change
  <2> HIDE DEF change
  <2> QED
    BY <1>1, AppendProperties, LenProperties
<1>3. /\ t # session.text /\ session' = Edited(session, t) /\ redoStack' = <<>>
      /\ \E n \in 0..(Len(recorded) - 1) :
            /\ Drops(recorded, bytes, n)
            /\ undoStack' = SubSeq(recorded, n + 1, Len(recorded))
            /\ historyBytes' = bytes - TotalBytes(SubSeq(recorded, 1, n))
  BY DEF ApplyEdit
<1> HIDE DEF change, recorded, bytes
<1>4. PICK n \in 0..(Len(recorded) - 1) :
          /\ Drops(recorded, bytes, n)
          /\ undoStack' = SubSeq(recorded, n + 1, Len(recorded))
          /\ historyBytes' = bytes - TotalBytes(SubSeq(recorded, 1, n))
  BY <1>3
<1>5. n \in 0..Len(undoStack)
  BY <1>2, <1>4
<1>6. \/ bytes - TotalBytes(SubSeq(recorded, 1, n)) <= Budget
      \/ n = Len(undoStack)
  BY <1>2, <1>4 DEF Drops
<1>7. /\ undoStack' \in Seq(Change)
      /\ Len(undoStack') = Len(undoStack) + 1 - n
      /\ \A i \in 1..(Len(undoStack) + 1 - n) : undoStack'[i] = recorded[n + i]
  <2>1. n \in 0..Len(recorded) /\ Len(recorded) - n = Len(undoStack) + 1 - n
    BY <1>2, <1>5
  <2>2. /\ undoStack' \in Seq(Change) /\ Len(undoStack') = Len(recorded) - n
        /\ \A i \in 1..(Len(recorded) - n) : undoStack'[i] = recorded[n + i]
    BY <1>2, <1>4, <2>1, SuffixFacts
  <2> QED
    BY <2>1, <2>2
<1>8. \E k \in 0..Len(undoStack) :
          /\ undoStack' = SubSeq(recorded, k + 1, Len(recorded))
          /\ undoStack' \in Seq(Change)
          /\ Len(undoStack') = Len(undoStack) + 1 - k
          /\ \A i \in 1..(Len(undoStack) + 1 - k) : undoStack'[i] = recorded[k + i]
          /\ historyBytes' = bytes - TotalBytes(SubSeq(recorded, 1, k))
          /\ \/ bytes - TotalBytes(SubSeq(recorded, 1, k)) <= Budget
             \/ k = Len(undoStack)
  BY <1>4, <1>5, <1>6, <1>7
<1> QED
  BY <1>1, <1>2, <1>3, <1>8 DEF change, recorded, bytes

(***************************************************************************)
(* Chains.                                                                 *)
(***************************************************************************)
LEMMA ChainOfAppend ==
    ASSUME NEW stack \in Seq(Change), NEW c \in Change
    PROVE  /\ Chained(stack) /\ (stack # <<>> => stack[Len(stack)].after = c.before)
                => Chained(Append(stack, c))
           /\ ReverseChained(stack) /\ (stack # <<>> => stack[Len(stack)].before = c.after)
                => ReverseChained(Append(stack, c))
<1> DEFINE longer == Append(stack, c)
           m == Len(stack)
<1>1. /\ longer \in Seq(Change) /\ Len(longer) = m + 1 /\ m \in Nat
      /\ \A i \in 1..m : longer[i] = stack[i]
      /\ longer[m + 1] = c
  BY AppendProperties, LenProperties
<1>2. \A i \in 1..((m + 1) - 1) : (i \in 1..(m - 1) /\ i + 1 \in 1..m) \/ (i = m /\ m # 0)
  BY <1>1
<1>3. m # 0 => stack # <<>>
  BY DEF m
<1> HIDE DEF longer, m
<1>4. ASSUME Chained(stack), stack # <<>> => stack[m].after = c.before PROVE Chained(longer)
  <2> SUFFICES ASSUME NEW i \in 1..((m + 1) - 1) PROVE longer[i].after = longer[i + 1].before
    BY <1>1 DEF Chained
  <2>1. CASE i \in 1..(m - 1) /\ i + 1 \in 1..m
    <3>1. i \in 1..m
      BY <1>1, <2>1
    <3> QED
      BY <1>1, <1>4, <2>1, <3>1 DEF Chained, m
  <2>2. CASE i = m /\ m # 0
    <3>1. i \in 1..m
      BY <1>1, <2>2
    <3> QED
      BY <1>1, <1>3, <1>4, <2>2, <3>1
  <2> QED
    BY <1>2, <2>1, <2>2
<1>5. ASSUME ReverseChained(stack), stack # <<>> => stack[m].before = c.after
      PROVE  ReverseChained(longer)
  <2> SUFFICES ASSUME NEW i \in 1..((m + 1) - 1) PROVE longer[i].before = longer[i + 1].after
    BY <1>1 DEF ReverseChained
  <2>1. CASE i \in 1..(m - 1) /\ i + 1 \in 1..m
    <3>1. i \in 1..m
      BY <1>1, <2>1
    <3> QED
      BY <1>1, <1>5, <2>1, <3>1 DEF ReverseChained, m
  <2>2. CASE i = m /\ m # 0
    <3>1. i \in 1..m
      BY <1>1, <2>2
    <3> QED
      BY <1>1, <1>3, <1>5, <2>2, <3>1
  <2> QED
    BY <1>2, <2>1, <2>2
<1> QED
  BY <1>4, <1>5 DEF longer, m

LEMMA ChainOfPart ==
    ASSUME NEW stack \in Seq(Change), NEW part \in Seq(Change), NEW i \in Nat,
           i + Len(part) <= Len(stack),
           \A n \in 1..Len(part) : part[n] = stack[i + n]
    PROVE  /\ Chained(stack) => Chained(part)
           /\ ReverseChained(stack) => ReverseChained(part)
<1>1. Len(part) \in Nat /\ Len(stack) \in Nat
  BY LenProperties
<1>2. ASSUME NEW n \in 1..(Len(part) - 1)
      PROVE  /\ n \in 1..Len(part) /\ n + 1 \in 1..Len(part)
             /\ i + n \in 1..(Len(stack) - 1) /\ i + (n + 1) = (i + n) + 1
  BY <1>1
<1>3. ASSUME NEW n \in 1..(Len(part) - 1)
      PROVE  part[n] = stack[i + n] /\ part[n + 1] = stack[(i + n) + 1]
  <2> DEFINE next == n + 1
  <2>1. next \in 1..Len(part) /\ i + next = (i + n) + 1 /\ n \in 1..Len(part)
    BY <1>2
  <2> HIDE DEF next
  <2>2. part[next] = stack[i + next] /\ part[n] = stack[i + n]
    BY <2>1
  <2>3. part[next] = stack[(i + n) + 1]
    BY <2>1, <2>2
  <2> QED
    BY <2>2, <2>3 DEF next
<1> QED
  BY <1>2, <1>3 DEF Chained, ReverseChained

(***************************************************************************)
(* Every step keeps the invariant.                                         *)
(***************************************************************************)
LEMMA ApplyEditKeeps ==
    ASSUME EditInv, NEW t \in Texts, ApplyEdit(t)
    PROVE  EditInv'
<1> DEFINE change == [before |-> session.text, after |-> t]
           recorded == Append(undoStack, change)
           bytes == historyBytes + Bytes(change)
           m == Len(undoStack)
<1>1. /\ EditTypeOK /\ historyBytes \in Nat /\ session \in Session
      /\ undoStack \in Seq(Change) /\ redoStack \in Seq(Change)
      /\ Chained(undoStack) /\ (undoStack # <<>> => undoStack[m].after = session.text)
      /\ TotalBytes(undoStack) + TotalBytes(redoStack) <= historyBytes
  BY DEF EditInv, EditTypeOK, HistoryChains, HistoryWithinBudget
<1>2. /\ change \in Change /\ recorded \in Seq(Change)
      /\ t # session.text /\ session' = Edited(session, t) /\ redoStack' = <<>>
      /\ Len(recorded) = m + 1 /\ m \in Nat /\ recorded[m + 1] = change
  BY <1>1, AppliedEdit
<1>3. PICK n \in 0..m :
          /\ undoStack' = SubSeq(recorded, n + 1, Len(recorded))
          /\ undoStack' \in Seq(Change)
          /\ Len(undoStack') = m + 1 - n
          /\ \A i \in 1..(m + 1 - n) : undoStack'[i] = recorded[n + i]
          /\ historyBytes' = bytes - TotalBytes(SubSeq(recorded, 1, n))
          /\ bytes - TotalBytes(SubSeq(recorded, 1, n)) <= Budget \/ n = m
  BY <1>1, AppliedEdit
<1>4. change.before = session.text /\ change.after = t
  OBVIOUS
<1>5. Chained(recorded)
  <2> HIDE DEF change
  <2> QED
    BY <1>1, <1>2, <1>4, ChainOfAppend
<1>6. TotalBytes(recorded) = TotalBytes(undoStack) + Bytes(change)
  <2> HIDE DEF change
  <2> QED
    BY <1>1, <1>2, TotalOfAppend
<1>7. /\ TotalBytes(recorded) = TotalBytes(SubSeq(recorded, 1, n)) + TotalBytes(undoStack')
      /\ TotalBytes(SubSeq(recorded, 1, n)) \in Nat
  <2>1. n \in 0..Len(recorded)
    BY <1>2, <1>3
  <2> HIDE DEF recorded
  <2> QED
    BY <1>2, <1>3, <2>1, TotalSplits, TotalType
<1> HIDE DEF change, recorded, bytes, m
<1>8. session' \in Session /\ session'.text = t
  BY <1>1, <1>2, EditedSession
<1>9. EditTypeOK'
  BY <1>2, <1>3, <1>8, EmptySeq DEF EditTypeOK
<1>10. Chained(undoStack')
  <2>1. n \in Nat /\ n + Len(undoStack') <= Len(recorded)
        /\ \A i \in 1..Len(undoStack') : undoStack'[i] = recorded[n + i]
    BY <1>2, <1>3
  <2> QED
    BY <1>2, <1>3, <1>5, <2>1, ChainOfPart
<1>11. undoStack'[Len(undoStack')].after = session'.text
  <2>1. Len(undoStack') \in 1..(m + 1 - n) /\ n + Len(undoStack') = m + 1
    BY <1>2, <1>3
  <2> QED
    BY <1>2, <1>3, <1>4, <1>8, <2>1
<1>12. HistoryChains'
  <2>1. ReverseChained(<<>>)
    BY DEF ReverseChained
  <2> QED
    BY <1>2, <1>10, <1>11, <2>1 DEF HistoryChains
<1>13. historyBytes' \in Nat /\ HistoryWithinBudget'
  <2>1. /\ TotalBytes(undoStack) \in Nat /\ TotalBytes(redoStack) \in Nat
        /\ TotalBytes(undoStack') \in Nat /\ Bytes(change) \in Nat
        /\ TotalBytes(redoStack') = 0 /\ Len(redoStack') = 0
    BY <1>1, <1>2, <1>3, TotalType, BytesType, TotalOfNothing
  <2>2. historyBytes' = historyBytes + Bytes(change) - TotalBytes(SubSeq(recorded, 1, n))
    BY <1>1, <1>3, <1>7, <2>1 DEF bytes
  <2>3. TotalBytes(undoStack') <= historyBytes' /\ historyBytes' \in Nat
    BY <1>1, <1>6, <1>7, <2>1, <2>2
  <2>4. historyBytes' <= Budget \/ Len(undoStack') = 1
    BY <1>2, <1>3, <2>2 DEF bytes
  <2>5. HistoryWithinBudget' <=>
           LET kept == TotalBytes(undoStack') + TotalBytes(redoStack')
           IN  /\ kept <= historyBytes'
               /\ kept <= Budget \/ Len(undoStack') + Len(redoStack') <= 1
    BY DEF HistoryWithinBudget
  <2>6. Budget \in Nat
    BY EditAssumption
  <2>7. TotalBytes(undoStack') + TotalBytes(redoStack') = TotalBytes(undoStack')
    BY <2>1
  <2>8. Len(undoStack') = 1 => Len(undoStack') + Len(redoStack') <= 1
    BY <2>1
  <2>9. TotalBytes(undoStack') <= Budget \/ Len(undoStack') = 1
    BY <2>1, <2>3, <2>4, <2>6
  <2> QED
    BY <2>3, <2>5, <2>7, <2>8, <2>9
<1> QED
  BY <1>9, <1>12, <1>13 DEF EditInv

\* Undo and Redo move a change from one stack to the other.  Both are instances
\* of: the newest change of one stack, x, goes on top of the other, y.
LEMMA MovedChange ==
    ASSUME NEW x \in Seq(Change), NEW y \in Seq(Change), x # <<>>
    PROVE  LET front == SubSeq(x, 1, Len(x) - 1)
               last == x[Len(x)]
               top == Append(y, last)
           IN  /\ last \in Change /\ front \in Seq(Change) /\ top \in Seq(Change)
               /\ Len(front) + Len(top) = Len(x) + Len(y)
               /\ TotalBytes(front) + TotalBytes(top) = TotalBytes(x) + TotalBytes(y)
               /\ top # <<>> /\ top[Len(top)] = last
               /\ Chained(x) => Chained(front)
               /\ ReverseChained(x) => ReverseChained(front)
               /\ Chained(x) /\ front # <<>> => front[Len(front)].after = last.before
               /\ ReverseChained(x) /\ front # <<>> => front[Len(front)].before = last.after
<1> DEFINE front == SubSeq(x, 1, Len(x) - 1)
           last == x[Len(x)]
           top == Append(y, last)
<1>1. /\ last \in Change /\ front \in Seq(Change) /\ Len(x) \in Nat \ {0}
      /\ Len(front) = Len(x) - 1
      /\ \A i \in 1..(Len(x) - 1) : front[i] = x[i]
      /\ TotalBytes(x) = TotalBytes(front) + Bytes(last)
  BY FrontFacts
<1> HIDE DEF front, last
<1>2. /\ top \in Seq(Change) /\ Len(top) = Len(y) + 1 /\ Len(y) \in Nat
      /\ top # <<>> /\ top[Len(y) + 1] = last
      /\ TotalBytes(top) = TotalBytes(y) + Bytes(last)
  BY <1>1, AppendProperties, TotalOfAppend, LenProperties
<1> HIDE DEF top
<1>3. /\ Len(front) + Len(top) = Len(x) + Len(y)
      /\ TotalBytes(front) + TotalBytes(top) = TotalBytes(x) + TotalBytes(y)
      /\ top[Len(top)] = last
  <2>1. /\ TotalBytes(front) \in Nat /\ TotalBytes(y) \in Nat /\ Bytes(last) \in Nat
    BY <1>1, TotalType, BytesType
  <2> QED
    BY <1>1, <1>2, <2>1
<1>4. (Chained(x) => Chained(front)) /\ (ReverseChained(x) => ReverseChained(front))
  <2>1. 0 \in Nat /\ 0 + Len(front) <= Len(x) /\ \A n \in 1..Len(front) : front[n] = x[0 + n]
    BY <1>1
  <2> QED
    BY <1>1, <2>1, ChainOfPart
<1>5. ASSUME front # <<>>
      PROVE  /\ Chained(x) => front[Len(front)].after = last.before
             /\ ReverseChained(x) => front[Len(front)].before = last.after
  <2>1. Len(front) \in Nat \ {0}
    BY <1>1, <1>5, EmptySeq
  <2>2. Len(front) \in 1..(Len(x) - 1) /\ Len(front) + 1 = Len(x)
    BY <1>1, <2>1
  <2> QED
    BY <1>1, <2>2 DEF Chained, ReverseChained, last
<1> QED
  BY <1>1, <1>2, <1>3, <1>4, <1>5 DEF front, last, top

LEMMA UndoKeeps ==
    ASSUME EditInv, Undo
    PROVE  EditInv'
<1> DEFINE last == undoStack[Len(undoStack)]
<1>1. /\ session \in Session /\ historyBytes \in Nat
      /\ undoStack \in Seq(Change) /\ redoStack \in Seq(Change) /\ undoStack # <<>>
      /\ Chained(undoStack) /\ ReverseChained(redoStack)
      /\ last.after = session.text
      /\ redoStack # <<>> => redoStack[Len(redoStack)].before = session.text
      /\ HistoryWithinBudget
  BY DEF EditInv, EditTypeOK, HistoryChains, Undo
<1>2. /\ session' = Edited(session, last.before)
      /\ undoStack' = SubSeq(undoStack, 1, Len(undoStack) - 1)
      /\ redoStack' = Append(redoStack, last)
      /\ historyBytes' = historyBytes
  BY DEF Undo
<1>3. /\ last \in Change /\ undoStack' \in Seq(Change) /\ redoStack' \in Seq(Change)
      /\ Len(undoStack') + Len(redoStack') = Len(undoStack) + Len(redoStack)
      /\ TotalBytes(undoStack') + TotalBytes(redoStack')
           = TotalBytes(undoStack) + TotalBytes(redoStack)
      /\ redoStack' # <<>> /\ redoStack'[Len(redoStack')] = last
      /\ Chained(undoStack')
      /\ undoStack' # <<>> => undoStack'[Len(undoStack')].after = last.before
  BY <1>1, <1>2, MovedChange
<1> HIDE DEF last
<1>4. session' \in Session /\ session'.text = last.before
  BY <1>1, <1>2, <1>3, EditedSession DEF Change
<1>5. ReverseChained(redoStack')
  BY <1>1, <1>2, <1>3, ChainOfAppend
<1>6. EditTypeOK' /\ HistoryChains'
  BY <1>3, <1>4, <1>5 DEF EditTypeOK, HistoryChains
<1>7. HistoryWithinBudget'
  BY <1>1, <1>2, <1>3 DEF HistoryWithinBudget
<1> QED
  BY <1>1, <1>2, <1>6, <1>7 DEF EditInv

LEMMA RedoKeeps ==
    ASSUME EditInv, Redo
    PROVE  EditInv'
<1> DEFINE last == redoStack[Len(redoStack)]
<1>1. /\ session \in Session /\ historyBytes \in Nat
      /\ undoStack \in Seq(Change) /\ redoStack \in Seq(Change) /\ redoStack # <<>>
      /\ Chained(undoStack) /\ ReverseChained(redoStack)
      /\ last.before = session.text
      /\ undoStack # <<>> => undoStack[Len(undoStack)].after = session.text
      /\ HistoryWithinBudget
  BY DEF EditInv, EditTypeOK, HistoryChains, Redo
<1>2. /\ session' = Edited(session, last.after)
      /\ redoStack' = SubSeq(redoStack, 1, Len(redoStack) - 1)
      /\ undoStack' = Append(undoStack, last)
      /\ historyBytes' = historyBytes
  BY DEF Redo
<1>3. /\ last \in Change /\ undoStack' \in Seq(Change) /\ redoStack' \in Seq(Change)
      /\ Len(redoStack') + Len(undoStack') = Len(redoStack) + Len(undoStack)
      /\ TotalBytes(redoStack') + TotalBytes(undoStack')
           = TotalBytes(redoStack) + TotalBytes(undoStack)
      /\ undoStack' # <<>> /\ undoStack'[Len(undoStack')] = last
      /\ ReverseChained(redoStack')
      /\ redoStack' # <<>> => redoStack'[Len(redoStack')].before = last.after
  BY <1>1, <1>2, MovedChange
<1> HIDE DEF last
<1>4. session' \in Session /\ session'.text = last.after
  BY <1>1, <1>2, <1>3, EditedSession DEF Change
<1>5. Chained(undoStack')
  BY <1>1, <1>2, <1>3, ChainOfAppend
<1>6. EditTypeOK' /\ HistoryChains'
  BY <1>3, <1>4, <1>5 DEF EditTypeOK, HistoryChains
<1>7. HistoryWithinBudget'
  <2>1. /\ TotalBytes(undoStack) \in Nat /\ TotalBytes(redoStack) \in Nat
        /\ TotalBytes(undoStack') \in Nat /\ TotalBytes(redoStack') \in Nat
        /\ Len(undoStack) \in Nat /\ Len(redoStack) \in Nat
        /\ Len(undoStack') \in Nat /\ Len(redoStack') \in Nat
    BY <1>1, <1>3, TotalType, LenProperties
  <2>2. /\ TotalBytes(undoStack') + TotalBytes(redoStack')
             = TotalBytes(undoStack) + TotalBytes(redoStack)
        /\ Len(undoStack') + Len(redoStack') = Len(undoStack) + Len(redoStack)
    BY <1>3, <2>1
  <2> QED
    BY <1>1, <1>2, <2>2 DEF HistoryWithinBudget
<1> QED
  BY <1>1, <1>2, <1>6, <1>7 DEF EditInv

\* Another document comes with no history.
LEMMA ResetKeeps ==
    ASSUME session' \in Session, Reset
    PROVE  EditInv'
<1>1. /\ undoStack' = <<>> /\ redoStack' = <<>> /\ historyBytes' = 0
      /\ <<>> \in Seq(Change) /\ Len(<<>>) = 0
  BY EmptySeq DEF Reset
<1>2. Chained(<<>>) /\ ReverseChained(<<>>)
  BY DEF Chained, ReverseChained
<1>3. HistoryWithinBudget'
  BY <1>1, TotalOfNothing DEF HistoryWithinBudget
<1> QED
  BY <1>1, <1>2, <1>3 DEF EditInv, EditTypeOK, HistoryChains

LEMMA EditStepKeeps == ASSUME EditInv, EditStep PROVE EditInv'
  BY ApplyEditKeeps, UndoKeeps, RedoKeeps DEF EditStep

LEMMA ReplacedSession ==
    ASSUME session \in Session, NEW p \in Paths, NEW t \in Texts, NEW v \in Nat
    PROVE  LET s == Replaced(session, p, [version |-> v, text |-> t])
           IN  /\ s \in Session /\ s.document = session.document + 1
               /\ s.text = t /\ s.baseline = t /\ s.file = [version |-> v, text |-> t]
<1>1. /\ session.document + 1 \in Nat /\ Kind[p] \in Kinds
      /\ [version |-> v, text |-> t] \in Identity
  BY SessionAssumption DEF Session, Identity
<1> QED
  BY <1>1 DEF Replaced, Session

LEMMA EditInitHolds == EditInit => EditInv
<1> SUFFICES ASSUME EditInit PROVE EditInv
  OBVIOUS
<1>1. session \in Session
  BY SessionAssumption DEF EditInit, NewSession, Session, Kinds
<1>2. undoStack = <<>> /\ redoStack = <<>> /\ historyBytes = 0
      /\ <<>> \in Seq(Change) /\ Len(<<>>) = 0
  BY EmptySeq DEF EditInit
<1>3. Chained(<<>>) /\ ReverseChained(<<>>)
  BY DEF Chained, ReverseChained
<1>4. HistoryWithinBudget
  BY <1>2, TotalOfNothing DEF HistoryWithinBudget
<1> QED
  BY <1>1, <1>2, <1>3, <1>4 DEF EditInv, EditTypeOK, HistoryChains

\* Within a document every change of the text takes a new revision.
LEMMA EditStepNames ==
    ASSUME EditTypeOK, EditStep
    PROVE  /\ session' \in Session /\ session'.document = session.document
           /\ session'.revision \in {session.revision, session.revision + 1}
           /\ session'.revision = session.revision => session' = session
           /\ session'.baseline = session.baseline /\ session'.file = session.file
<1>1. \E t \in Texts : session' = Edited(session, t)
  <2>1. CASE \E t \in Texts : ApplyEdit(t)
    BY <2>1 DEF ApplyEdit
  <2>2. CASE Undo
    <3>1. undoStack[Len(undoStack)] \in Change
      BY <2>2, FrontFacts DEF Undo, EditTypeOK
    <3> QED
      BY <2>2, <3>1 DEF Undo, Change
  <2>3. CASE Redo
    <3>1. redoStack[Len(redoStack)] \in Change
      BY <2>3, FrontFacts DEF Redo, EditTypeOK
    <3> QED
      BY <2>3, <3>1 DEF Redo, Change
  <2> QED
    BY <2>1, <2>2, <2>3 DEF EditStep
<1>2. PICK t \in Texts : session' = Edited(session, t)
  BY <1>1
<1>3. session \in Session /\ session.revision \in Nat
  BY DEF EditTypeOK, Session
<1>4. CASE t = session.text
  BY <1>2, <1>3, <1>4, EditedSession
<1>5. CASE t # session.text
  <2>1. session.revision + 1 # session.revision
    BY <1>3
  <2> QED
    BY <1>2, <1>3, <1>5, <2>1, EditedSession
<1> QED
  BY <1>4, <1>5

(***************************************************************************)
(* The theorems.                                                           *)
(***************************************************************************)
\* The inductive invariant holds in every reachable state.
THEOREM EditInvariance == EditSpec => []EditInv
<1>1. ASSUME EditInv, EditStep \/ OpenAny PROVE EditInv'
  <2>1. CASE OpenAny
    <3>1. session' \in Session
      BY <1>1, <2>1, ReplacedSession DEF OpenAny, EditInv, EditTypeOK
    <3> QED
      BY <2>1, <3>1, ResetKeeps DEF OpenAny
  <2> QED
    BY <1>1, <2>1, EditStepKeeps
<1>2. ASSUME EditInv, UNCHANGED editVars PROVE EditInv'
  BY <1>2 DEF editVars, EditInv, EditTypeOK, HistoryChains, HistoryWithinBudget
<1> QED
  BY <1>1, <1>2, EditInitHolds, PTL DEF EditSpec

\* The session and both stacks keep their types.
THEOREM EditTypeCorrect == EditSpec => []EditTypeOK
<1>1. EditInv => EditTypeOK
  BY DEF EditInv
<1> QED
  BY <1>1, EditInvariance, PTL

\* The two stacks are one history of the buffer, however it was edited.
THEOREM HistoryIsOneChain == EditSpec => []HistoryChains
<1>1. EditInv => HistoryChains
  BY DEF EditInv
<1> QED
  BY <1>1, EditInvariance, PTL

\* The history that is kept fits the budget, and the counter covers it.
THEOREM BudgetHolds == EditSpec => []HistoryWithinBudget
<1>1. EditInv => HistoryWithinBudget
  BY DEF EditInv
<1> QED
  BY <1>1, EditInvariance, PTL

-----------------------------------------------------------------------------
(***************************************************************************)
(* The document transactions (Documents).                                  *)
(***************************************************************************)

(***************************************************************************)
(* The inductive invariant.                                                *)
(***************************************************************************)
\* The identity the next save accepts is of the baseline, and from the past.
FileKnown ==
    session.file # NoIdentity =>
        session.file.text = session.baseline /\ session.file.version <= clock

\* A frame that will open a file knows which.
Targeted ==
    /\ gui.then = "open" => gui.target \in Paths
    /\ gui.pc \in {"read", "replace"} => gui.target \in Paths

\* A dirty buffer on its way out was asked about, in this very state; and what
\* a save reported written is not dirty any more.
Consented ==
    /\ gui.pc = "unsaved" => Dirty(session) /\ gui.consent = Token(session)
    /\ gui.pc = "read" /\ Dirty(session) => gui.consent = Token(session)
    /\ gui.pc = "message" /\ gui.saved => ~Dirty(session)

\* The snapshot of a save in progress is the session, or of a document that has
\* been replaced since, by one nobody has edited.
Fits(snapshot) ==
    IF snapshot.document = session.document THEN snapshot = session
    ELSE snapshot.document < session.document /\ ~Dirty(session)

Snapped == gui.pc \in {"name", "writing"} => Fits(gui.snapshot)

Issued ==
    /\ gui.pc = "name" => gui.issuer = gui.snapshot.document
    /\ gui.pc = "writing" /\ gui.command = "save" => gui.issuer = gui.snapshot.document
    /\ gui.pc \in {"saveAs", "replace"} => gui.command = "saveAs"

\* The running call writes the snapshot, over its own file or a confirmed one.
Writing ==
    gui.pc = "writing" =>
        /\ call.pc # "none"
        /\ call.text = gui.snapshot.text
        /\ call.expected # NoIdentity => call.path = gui.snapshot.path \/ gui.confirmed = call.path

GuiInv == gui \in Gui /\ Targeted /\ Consented /\ Snapped /\ Issued /\ Writing

\* None of the properties is inductive alone: that no text is lost rests on what
\* the snapshot of a save is (Snapped), that rests on what the call writes
\* (Writing), and the call on the identity kept with the buffer (FileKnown).
DocInv == StoreInv /\ ReplaceInv /\ EditInv /\ FileKnown /\ GuiInv

(***************************************************************************)
(* Sessions and frames as values.                                          *)
(***************************************************************************)
LEMMA SessionFields ==
    ASSUME NEW s \in Session
    PROVE  /\ s.document \in Nat /\ s.revision \in Nat
           /\ s.text \in Texts /\ s.baseline \in Texts
           /\ s.path \in Paths \cup {Untitled}
           /\ s.file \in Identity \cup {NoIdentity}
           /\ Token(s) \in Nat \X Nat
  BY DEF Session, Token

LEMMA NewSessionType == NewSession \in Session
  BY SessionAssumption DEF NewSession, Session, Kinds

LEMMA IdleType == Idle \in Gui
<1>1. <<0, 0>> \in Nat \X Nat
  OBVIOUS
<1> QED
  BY <1>1, NewSessionType DEF Idle, Gui, GuiPc, Dialogs

LEMMA SavedSession ==
    ASSUME NEW s \in Session, NEW saved \in Session, NEW p \in Paths, NEW id \in Identity
    PROVE  LET r == MarkedSaved(s, saved, p, id)
           IN  /\ r \in Session /\ r.document = s.document /\ r.text = s.text
               /\ saved.document # s.document => r = s
               /\ saved.document = s.document => r.baseline = saved.text /\ r.file = id
               /\ r.revision \in {s.revision, s.revision + 1}
               /\ r.revision = s.revision => r.kind = s.kind
<1> DEFINE n == IF s.kind = Kind[p] THEN s.revision ELSE s.revision + 1
           r == [s EXCEPT !.baseline = saved.text, !.revision = n,
                          !.path = p, !.kind = Kind[p], !.file = id]
<1>1. /\ n \in Nat /\ Kind[p] \in Kinds /\ saved.text \in Texts
      /\ n \in {s.revision, s.revision + 1} /\ (n = s.revision => s.kind = Kind[p])
  <2>1. s.revision \in Nat /\ s.revision + 1 \in Nat /\ s.revision + 1 # s.revision
    BY SessionFields
  <2> QED
    BY <2>1, SessionAssumption, SessionFields
<1>2. MarkedSaved(s, saved, p, id) = IF saved.document # s.document THEN s ELSE r
  BY DEF MarkedSaved
<1> HIDE DEF n
<1>3. /\ r \in Session /\ r.document = s.document /\ r.text = s.text
      /\ r.baseline = saved.text /\ r.file = id /\ r.revision = n /\ r.kind = Kind[p]
  BY <1>1 DEF Session
<1> HIDE DEF r
<1> QED
  BY <1>1, <1>2, <1>3

LEMMA LoadedSession ==
    ASSUME StoreInv, session \in Session, NEW p \in Paths, files[p] # Absent
    PROVE  LET s == Replaced(session, p, IdentityOf(files[p]))
           IN  /\ s \in Session /\ s.document = session.document + 1 /\ ~Dirty(s)
               /\ s.file.text = s.baseline /\ s.file.version <= clock
<1>1. /\ files[p].version \in Nat /\ files[p].version <= clock /\ files[p].text \in Texts
  BY FileFields DEF StoreInv, StoreTypeOK, AllSolid, Solid, Clocked
<1> DEFINE v == files[p].version
           t == files[p].text
<1>2. IdentityOf(files[p]) = [version |-> v, text |-> t]
  BY DEF IdentityOf
<1> HIDE DEF v, t
<1>3. LET s == Replaced(session, p, [version |-> v, text |-> t])
      IN  /\ s \in Session /\ s.document = session.document + 1
          /\ s.text = t /\ s.baseline = t /\ s.file = [version |-> v, text |-> t]
  BY <1>1, ReplacedSession DEF v, t
<1>4. v <= clock
  BY <1>1 DEF v
<1> QED
  BY <1>2, <1>3, <1>4 DEF Dirty

(***************************************************************************)
(* Saves.                                                                  *)
(***************************************************************************)
\* A step of the call is about the same request.
LEMMA CallStepKeepsRequest ==
    ASSUME StoreInv, CallStep
    PROVE  /\ call'.pc # "none" /\ call'.text = call.text /\ call'.path = call.path
           /\ call'.expected = call.expected
<1>1. call \in Call
  BY DEF StoreInv, StoreTypeOK
<1>2. CASE Quiet
  <2>1. call'.expected = call.expected
    BY <1>1, <1>2 DEF Quiet, Inspect, Verify, CreateTemp, Fill, Flush, Recheck, PublishFails,
                      Stat, Step, Raise, Goto, Call
  <2> QED
    BY <1>2, <2>1, QuietSteps DEF StoreInv
<1>3. CASE PublishNew \/ PublishOver \/ Unlink
  BY <1>1, <1>3 DEF PublishNew, PublishOver, Unlink, Call
<1>4. ASSUME NEW durable \in BOOLEAN, SyncDirectory(durable)
      PROVE  /\ call'.pc # "none" /\ call'.text = call.text /\ call'.path = call.path
             /\ call'.expected = call.expected
  BY <1>1, <1>4 DEF SyncDirectory, Call
<1> QED
  BY <1>2, <1>3, <1>4 DEF CallStep, Quiet

\* The two outcomes of starting a save.
Called(frame, snapshot, p, overwrite) ==
    /\ gui' = [frame EXCEPT !.pc = "writing", !.snapshot = snapshot]
    /\ call'.pc = "inspect" /\ call'.text = snapshot.text /\ call'.path = p
    /\ call'.expected # NoIdentity => p = snapshot.path \/ overwrite

Refused(frame) == gui' = [frame EXCEPT !.pc = "message", !.saved = FALSE]

\* The start of a save: a call on the snapshot's text, with an identity that
\* some file had, or an error message.
LEMMA StartWriteCalls ==
    ASSUME StoreInv, FileKnown, session \in Session,
           NEW frame, NEW snapshot \in Session, NEW p \in Paths, NEW overwrite \in BOOLEAN,
           StartWrite(frame, snapshot, p, overwrite)
    PROVE  /\ CallAny \/ UNCHANGED storeVars
           /\ clock' = clock
           /\ Called(frame, snapshot, p, overwrite) \/ Refused(frame)
<1> DEFINE e == Expected(snapshot, p, overwrite)
<1>1. CASE /\ overwrite /\ p # snapshot.path => files[p] # Absent
           /\ WriteAtomic(snapshot.text, p, e)
           /\ gui' = [frame EXCEPT !.pc = "writing", !.snapshot = snapshot]
  <2>1. e \in Known
    <3>1. session.file \in Known
      <4>1. clock \in Nat
        BY DEF StoreInv, StoreTypeOK
      <4>2. CASE session.file = NoIdentity
        BY <4>2 DEF Known
      <4>3. CASE session.file # NoIdentity
        <5>1. session.file \in Identity /\ session.file.text \in Texts
              /\ session.file.version \in 0..clock
          BY <4>1, <4>3, SessionFields DEF FileKnown, Identity
        <5>2. session.file \in [version : 0..clock, text : Texts]
          BY <5>1 DEF Identity
        <5> QED
          BY <5>2 DEF Known
      <4> QED
        BY <4>2, <4>3
    <3>2. files[p] # Absent => IdentityOf(files[p]) \in Known
      BY FileFields
      DEF StoreInv, StoreTypeOK, AllSolid, Solid, Clocked, Known, IdentityOf
    <3>3. NoIdentity \in Known
      BY DEF Known
    <3> QED
      BY <1>1, <3>1, <3>2, <3>3 DEF Expected
  <2>2. clock < MaxVersion /\ snapshot.text \in Texts
    BY SessionFields DEF StartWrite
  <2>3. CallAny
    BY <1>1, <2>1, <2>2 DEF CallAny
  <2>4. /\ call'.pc = "inspect" /\ call'.text = snapshot.text /\ call'.path = p
        /\ call'.expected = e /\ clock' = clock
    BY <1>1 DEF WriteAtomic, NoCall
  <2>5. e # NoIdentity => p = snapshot.path \/ overwrite
    BY DEF Expected
  <2> QED
    BY <1>1, <2>3, <2>4, <2>5 DEF Called
<1>2. CASE gui' = [frame EXCEPT !.pc = "message", !.saved = FALSE] /\ UNCHANGED storeVars
  BY <1>2 DEF storeVars, Refused
<1> QED
  BY <1>1, <1>2 DEF StartWrite

\* The start of a save keeps the invariant of the frame.
LEMMA StartWriteKeeps ==
    ASSUME StoreInv, FileKnown, session \in Session, UNCHANGED session,
           NEW frame \in Gui, frame.then = "open" => frame.target \in Paths,
           NEW snapshot \in Session, Fits(snapshot),
           frame.command = "save" => frame.issuer = snapshot.document,
           NEW p \in Paths, NEW overwrite \in BOOLEAN, overwrite => frame.confirmed = p,
           StartWrite(frame, snapshot, p, overwrite)
    PROVE  GuiInv' /\ gui'.pc # "closed"
<1>1. CASE Called(frame, snapshot, p, overwrite)
  <2>1. /\ gui' \in Gui /\ gui'.pc = "writing" /\ gui'.snapshot = snapshot
        /\ gui'.then = frame.then /\ gui'.target = frame.target
        /\ gui'.command = frame.command /\ gui'.issuer = frame.issuer
        /\ gui'.confirmed = frame.confirmed
    BY <1>1 DEF Called, Gui, GuiPc
  <2>2. Snapped'
    BY <2>1 DEF Snapped, Fits, Dirty
  <2>3. Targeted' /\ Consented'
    BY <2>1 DEF Targeted, Consented
  <2>4. Issued'
    BY <2>1 DEF Issued
  <2>5. Writing'
    BY <1>1, <2>1 DEF Called, Writing
  <2> QED
    BY <2>1, <2>2, <2>3, <2>4, <2>5 DEF GuiInv
<1>2. CASE Refused(frame)
  <2>1. /\ gui' \in Gui /\ gui'.pc = "message" /\ gui'.saved = FALSE
        /\ gui'.then = frame.then /\ gui'.target = frame.target
    BY <1>2 DEF Refused, Gui, GuiPc, Dialogs
  <2> QED
    BY <2>1 DEF GuiInv, Targeted, Consented, Snapped, Issued, Writing
<1>3. Called(frame, snapshot, p, overwrite) \/ Refused(frame)
  BY StartWriteCalls
<1> QED
  BY <1>1, <1>2, <1>3

\* What follows a save or an answer: nothing, the read, or the end.
LEMMA ResumeKeeps ==
    ASSUME NEW frame \in Gui, frame.then = "open" => frame.target \in Paths,
           NEW ok \in BOOLEAN, ok /\ Dirty(session') => frame.consent = Token(session'),
           Resume(frame, ok)
    PROVE  /\ GuiInv'
           /\ gui'.pc = "closed" /\ Dirty(session') => frame.consent = Token(session')
<1>1. \/ gui' = [frame EXCEPT !.pc = "read", !.snapshot = NewSession] /\ ok /\ frame.then = "open"
      \/ gui' = [frame EXCEPT !.pc = "closed", !.snapshot = NewSession] /\ ok
      \/ gui' = Idle
  BY DEF Resume
<1>2. CASE gui' = [frame EXCEPT !.pc = "read", !.snapshot = NewSession]
           /\ ok /\ frame.then = "open"
  <2>1. /\ gui' \in Gui /\ gui'.pc = "read" /\ gui'.consent = frame.consent
        /\ gui'.then = frame.then /\ gui'.target = frame.target
    BY <1>2, NewSessionType DEF Gui, GuiPc
  <2> QED
    BY <1>2, <2>1 DEF GuiInv, Targeted, Consented, Snapped, Issued, Writing
<1>3. CASE gui' = [frame EXCEPT !.pc = "closed", !.snapshot = NewSession] /\ ok
  <2>1. /\ gui' \in Gui /\ gui'.pc = "closed"
        /\ gui'.then = frame.then /\ gui'.target = frame.target
    BY <1>3, NewSessionType DEF Gui, GuiPc
  <2> QED
    BY <1>3, <2>1 DEF GuiInv, Targeted, Consented, Snapped, Issued, Writing
<1>4. CASE gui' = Idle
  <2>1. gui' \in Gui /\ gui'.pc = "idle" /\ gui'.then = "none"
    BY <1>4, IdleType DEF Idle
  <2> QED
    BY <2>1 DEF GuiInv, Targeted, Consented, Snapped, Issued, Writing
<1> QED
  BY <1>1, <1>2, <1>3, <1>4

(***************************************************************************)
(* Every step keeps the invariant of the frame.                            *)
(***************************************************************************)
\* What the lemmas below take from the invariant.
LEMMA DocFacts ==
    ASSUME DocInv
    PROVE  /\ StoreInv /\ FileKnown /\ GuiInv /\ gui \in Gui /\ session \in Session
           /\ (gui.then = "open" => gui.target \in Paths)
           /\ gui.snapshot \in Session /\ gui.target \in Paths \cup {Untitled}
           /\ gui.issuer \in Nat /\ gui.consent \in Nat \X Nat
           /\ gui.pc \in GuiPc
           /\ Fits(session)
  BY DEF DocInv, GuiInv, Targeted, EditInv, EditTypeOK, Gui, Fits

LEMMA SaveKeeps ==
    ASSUME DocInv, UNCHANGED session, NEW frame \in Gui,
           frame.then = "open" => frame.target \in Paths,
           Save(frame)
    PROVE  GuiInv' /\ gui'.pc # "closed"
<1>1. session.document \in Nat
  BY DocFacts, SessionFields
<1>2. CASE session.path = Untitled
  <2>1. gui' = [frame EXCEPT !.pc = "name", !.snapshot = session, !.issuer = session.document]
    BY <1>2 DEF Save
  <2>2. /\ gui' \in Gui /\ gui'.pc = "name" /\ gui'.snapshot = session
        /\ gui'.issuer = session.document
        /\ gui'.then = frame.then /\ gui'.target = frame.target
    BY <1>1, <2>1, DocFacts DEF Gui, GuiPc, Dialogs
  <2> QED
    BY <2>2 DEF GuiInv, Targeted, Consented, Snapped, Issued, Writing, Fits
<1>3. CASE session.path # Untitled
  <2> DEFINE f == [frame EXCEPT !.issuer = session.document]
  <2>1. /\ f \in Gui /\ f.then = frame.then /\ f.target = frame.target
        /\ f.issuer = session.document
    BY <1>1 DEF Gui
  <2>2. session.path \in Paths /\ StartWrite(f, session, session.path, FALSE)
    BY <1>3, DocFacts, SessionFields DEF Save
  <2> HIDE DEF f
  <2> QED
    BY <2>1, <2>2, DocFacts, StartWriteKeeps
<1> QED
  BY <1>2, <1>3

LEMMA LeaveKeeps ==
    ASSUME DocInv, NEW frame \in Gui, frame.then = "open" => frame.target \in Paths,
           Leave(frame)
    PROVE  /\ GuiInv' /\ session' = session
           /\ gui'.pc = "closed" => ~Dirty(session)
<1>1. session' = session
  BY DEF Leave, editVars
<1>2. CASE Dirty(session)
  <2>1. gui' = [frame EXCEPT !.pc = "unsaved", !.consent = Token(session)]
    BY <1>2 DEF Leave
  <2>2. /\ gui' \in Gui /\ gui'.pc = "unsaved" /\ gui'.consent = Token(session)
        /\ gui'.then = frame.then /\ gui'.target = frame.target
    BY <2>1, DocFacts, SessionFields DEF Gui, GuiPc, Dialogs
  <2> QED
    BY <1>1, <1>2, <2>2
    DEF GuiInv, Targeted, Consented, Snapped, Issued, Writing, Dirty, Token
<1>3. CASE ~Dirty(session)
  <2>1. Resume(frame, TRUE)
    BY <1>3 DEF Leave
  <2>2. GuiInv'
    BY <1>1, <1>3, <2>1, ResumeKeeps
  <2> QED
    BY <1>1, <1>3, <2>2
<1> QED
  BY <1>2, <1>3

\* A new pause of the same transaction, in a dialog that asks for nothing but a
\* file name, a confirmation or an acknowledgement.
LEMMA PauseKeeps ==
    ASSUME NEW frame \in Gui, frame.then = "open" => frame.target \in Paths,
           NEW pc \in {"saveAs", "replace", "message"},
           gui' = [frame EXCEPT !.pc = pc],
           pc = "replace" => frame.target \in Paths,
           pc # "message" => frame.command = "saveAs",
           pc = "message" /\ frame.saved => ~Dirty(session')
    PROVE  GuiInv' /\ gui'.pc # "closed"
<1>1. /\ gui' \in Gui /\ gui'.pc = pc /\ gui'.then = frame.then /\ gui'.target = frame.target
      /\ gui'.command = frame.command /\ gui'.saved = frame.saved
  BY DEF Gui, GuiPc, Dialogs
<1> QED
  BY <1>1 DEF GuiInv, Targeted, Consented, Snapped, Issued, Writing

LEMMA WriteEnds ==
    ASSUME DocInv, WriteSucceeds
    PROVE  /\ GuiInv' /\ FileKnown' /\ session' \in Session
           /\ ~Dirty(session') \/ (session'.baseline = session.baseline /\ Dirty(session))
           /\ session'.text = session.text /\ session'.document = session.document
           /\ session'.revision \in {session.revision, session.revision + 1}
           /\ session'.revision = session.revision => session'.kind = session.kind
           /\ ~Dirty(session')
<1> DEFINE id == SavedIdentity
<1>1. /\ gui.pc = "writing" /\ call.pc = "done" /\ clock' = clock
      /\ session' = MarkedSaved(session, gui.snapshot, call.path, id)
      /\ UNCHANGED <<undoStack, redoStack, historyBytes>>
  BY DEF WriteSucceeds, Return
<1>2. /\ call.path \in Paths /\ id \in Identity /\ id.version <= clock
      /\ id.text = call.text /\ call.text = gui.snapshot.text
  BY <1>1, DocFacts, CallFields
  DEF StoreInv, StoreTypeOK, Clocked, SavedIdentity, Identity, GuiInv, Writing
<1> HIDE DEF id
<1>3. /\ session' \in Session /\ session'.document = session.document
      /\ session'.text = session.text
      /\ gui.snapshot.document # session.document => session' = session
      /\ gui.snapshot.document = session.document =>
            session'.baseline = gui.snapshot.text /\ session'.file = id
      /\ session'.revision \in {session.revision, session.revision + 1}
      /\ session'.revision = session.revision => session'.kind = session.kind
  <2>1. /\ session \in Session /\ gui.snapshot \in Session
        /\ call.path \in Paths /\ id \in Identity
    BY <1>2, DocFacts
  <2>2. LET r == MarkedSaved(session, gui.snapshot, call.path, id)
        IN  /\ r \in Session /\ r.document = session.document /\ r.text = session.text
            /\ gui.snapshot.document # session.document => r = session
            /\ gui.snapshot.document = session.document =>
                  r.baseline = gui.snapshot.text /\ r.file = id
            /\ r.revision \in {session.revision, session.revision + 1}
            /\ r.revision = session.revision => r.kind = session.kind
    BY <2>1, SavedSession
  <2> QED
    BY <1>1, <2>2
<1>4. Fits(gui.snapshot)
  BY <1>1, DocFacts DEF GuiInv, Snapped
<1>5. ~Dirty(session')
  BY <1>3, <1>4 DEF Fits, Dirty
<1>6. FileKnown'
  BY <1>1, <1>2, <1>3, DocFacts DEF FileKnown
<1>7. GuiInv'
  <2>1. CASE Resume(gui, TRUE)
    BY <1>5, <2>1, DocFacts, ResumeKeeps
  <2>2. CASE gui' = [gui EXCEPT !.pc = "message", !.saved = TRUE]
    <3>1. /\ gui' \in Gui /\ gui'.pc = "message"
          /\ gui'.then = gui.then /\ gui'.target = gui.target
      BY <2>2, DocFacts DEF Gui, GuiPc, Dialogs
    <3> QED
      BY <1>5, <3>1, DocFacts DEF GuiInv, Targeted, Consented, Snapped, Issued, Writing
  <2> QED
    BY <2>1, <2>2 DEF WriteSucceeds
<1> QED
  BY <1>3, <1>5, <1>6, <1>7

LEMMA DeliverKeeps ==
    ASSUME DocInv, NEW p \in Paths, Deliver(p)
    PROVE  GuiInv'
<1>1. /\ gui' = gui /\ gui.pc \in Dialogs \cup {"idle"} /\ ~Dirty(session)
      /\ session' = Replaced(session, p, IdentityOf(files[p])) /\ files[p] # Absent
  BY DEF Deliver, Load, EventLoop
<1>2. session'.document = session.document + 1 /\ ~Dirty(session')
  BY <1>1, DocFacts, LoadedSession
<1>3. session.document \in Nat /\ gui.snapshot.document \in Nat
  BY DocFacts, SessionFields
<1>4. Targeted' /\ Issued'
  BY <1>1, DocFacts DEF GuiInv, Targeted, Issued
<1>5. Consented'
  BY <1>1, <1>2, DocFacts DEF GuiInv, Consented, Dialogs
<1>6. Snapped'
  BY <1>1, <1>2, <1>3, DocFacts DEF GuiInv, Snapped, Fits
<1>7. Writing'
  BY <1>1 DEF Writing, Dialogs
<1> QED
  BY <1>1, <1>4, <1>5, <1>6, <1>7, DocFacts DEF GuiInv

\* The steps that move the frame only.
LEMMA FrameStepKeeps ==
    ASSUME DocInv,
           \/ CommandSave \/ CommandSaveAs \/ ConfirmReplace \/ CancelSaveAs \/ CancelName
           \/ Acknowledge \/ WriteFails \/ ReadFails
           \/ ChooseSave \/ ChooseDiscard \/ ChooseCancel \/ CommandClose
           \/ \E p \in Paths : ChooseName(p) \/ ChooseTarget(p) \/ CommandOpen(p)
    PROVE  /\ GuiInv' /\ session' = session
           /\ gui'.pc = "closed" /\ Dirty(session') => gui.consent = Token(session')
<1>1. session' = session
  BY DEF CommandSave, CommandSaveAs, ConfirmReplace, CancelSaveAs, CancelName, Acknowledge,
         WriteFails, ReadFails, ChooseSave, ChooseDiscard, ChooseCancel, CommandClose,
         ChooseName, ChooseTarget, CommandOpen, Leave, editVars
<1>2. /\ gui \in Gui /\ (gui.then = "open" => gui.target \in Paths) /\ session \in Session
      /\ Targeted /\ Consented /\ Snapped /\ Issued /\ StoreInv /\ FileKnown
  BY DocFacts DEF GuiInv
<1>3. CASE CommandSave
  BY <1>1, <1>2, <1>3, SaveKeeps DEF CommandSave
<1>4. CASE CommandSaveAs
  <2> DEFINE f == [gui EXCEPT !.command = "saveAs", !.issuer = session.document]
  <2>1. gui' = [f EXCEPT !.pc = "saveAs"]
    BY <1>2, <1>4 DEF CommandSaveAs, Gui
  <2>2. f \in Gui /\ f.then = gui.then /\ f.target = gui.target /\ f.command = "saveAs"
    BY <1>2, SessionFields DEF Gui
  <2> HIDE DEF f
  <2> QED
    BY <1>1, <1>2, <2>1, <2>2, PauseKeeps
<1>5. CASE ConfirmReplace
  <2> DEFINE f == [gui EXCEPT !.confirmed = gui.target]
  <2>1. gui.pc = "replace" /\ StartWrite(f, session, gui.target, TRUE)
    BY <1>5 DEF ConfirmReplace
  <2>2. /\ f \in Gui /\ f.then = gui.then /\ f.target = gui.target
        /\ f.command = "saveAs" /\ f.confirmed = gui.target /\ gui.target \in Paths
    BY <1>2, <2>1 DEF Gui, Targeted, Issued
  <2> HIDE DEF f
  <2> QED
    BY <1>1, <1>2, <2>1, <2>2, DocFacts, StartWriteKeeps
<1>6. CASE CancelSaveAs
  <2>1. gui' \in Gui /\ gui'.pc = "idle" /\ gui'.then = "none"
    BY <1>6, IdleType DEF CancelSaveAs, Idle
  <2> QED
    BY <1>1, <2>1 DEF GuiInv, Targeted, Consented, Snapped, Issued, Writing
<1>7. CASE CancelName \/ ChooseCancel
  BY <1>1, <1>2, <1>7, ResumeKeeps DEF CancelName, ChooseCancel
<1>8. CASE Acknowledge
  <2>1. gui.pc = "message" /\ Resume(gui, gui.saved) /\ gui.saved \in BOOLEAN
    BY <1>2, <1>8 DEF Acknowledge, Gui
  <2>2. gui.saved => ~Dirty(session')
    BY <1>1, <1>2, <2>1 DEF Consented
  <2> QED
    BY <1>1, <1>2, <2>1, <2>2, ResumeKeeps
<1>9. CASE WriteFails \/ ReadFails
  <2> DEFINE f == [gui EXCEPT !.saved = FALSE]
  <2>1. gui' = [f EXCEPT !.pc = "message"]
    BY <1>2, <1>9 DEF WriteFails, ReadFails, Gui
  <2>2. f \in Gui /\ f.then = gui.then /\ f.target = gui.target /\ f.saved = FALSE
    BY <1>2 DEF Gui
  <2> HIDE DEF f
  <2> QED
    BY <1>1, <1>2, <2>1, <2>2, PauseKeeps
<1>10. CASE ChooseSave
  <2> DEFINE f == [gui EXCEPT !.consent = <<0, 0>>]
  <2>1. Save(f)
    BY <1>10 DEF ChooseSave
  <2>2. f \in Gui /\ f.then = gui.then /\ f.target = gui.target
    BY <1>2 DEF Gui
  <2> HIDE DEF f
  <2> QED
    BY <1>1, <1>2, <2>1, <2>2, SaveKeeps
<1>11. CASE ChooseDiscard
  <2>1. gui.pc = "unsaved" /\ Resume(gui, TRUE) /\ gui.consent = Token(session')
    BY <1>1, <1>2, <1>11 DEF ChooseDiscard, Consented
  <2> QED
    BY <1>1, <1>2, <2>1, ResumeKeeps
<1>12. CASE CommandClose
  <2> DEFINE f == [gui EXCEPT !.then = "close"]
  <2>1. Leave(f)
    BY <1>12 DEF CommandClose
  <2>2. f \in Gui /\ f.then = "close"
    BY <1>2 DEF Gui
  <2> HIDE DEF f
  <2> QED
    BY <1>1, <2>1, <2>2, LeaveKeeps
<1>13. ASSUME NEW p \in Paths, ChooseName(p)
      PROVE  /\ GuiInv'
             /\ gui'.pc = "closed" /\ Dirty(session') => gui.consent = Token(session')
  <2>1. gui.pc = "name" /\ StartWrite(gui, gui.snapshot, p, FALSE)
    BY <1>13 DEF ChooseName
  <2>2. Fits(gui.snapshot) /\ gui.issuer = gui.snapshot.document
    BY <1>2, <2>1 DEF Snapped, Issued
  <2> QED
    BY <1>1, <1>2, <2>1, <2>2, DocFacts, StartWriteKeeps
<1>14. ASSUME NEW p \in Paths, ChooseTarget(p)
      PROVE  /\ GuiInv'
             /\ gui'.pc = "closed" /\ Dirty(session') => gui.consent = Token(session')
  <2>1. gui.pc = "saveAs" /\ gui.command = "saveAs"
    BY <1>2, <1>14 DEF ChooseTarget, Issued
  <2>2. CASE gui' = [gui EXCEPT !.pc = "replace", !.target = p]
    <3> DEFINE f == [gui EXCEPT !.target = p]
    <3>1. gui' = [f EXCEPT !.pc = "replace"]
      BY <1>2, <2>2 DEF Gui
    <3>2. f \in Gui /\ f.then = gui.then /\ f.target = p /\ f.command = "saveAs"
      BY <1>2, <2>1 DEF Gui
    <3> HIDE DEF f
    <3> QED
      BY <3>1, <3>2, PauseKeeps
  <2>3. CASE StartWrite(gui, session, p, FALSE)
    BY <1>1, <1>2, <2>1, <2>3, DocFacts, StartWriteKeeps
  <2> QED
    BY <1>14, <2>2, <2>3 DEF ChooseTarget
<1>15. ASSUME NEW p \in Paths, CommandOpen(p)
      PROVE  /\ GuiInv'
             /\ gui'.pc = "closed" /\ Dirty(session') => gui.consent = Token(session')
  <2> DEFINE f == [gui EXCEPT !.then = "open", !.target = p]
  <2>1. Leave(f)
    BY <1>15 DEF CommandOpen
  <2>2. f \in Gui /\ f.target = p
    BY <1>2 DEF Gui
  <2> HIDE DEF f
  <2> QED
    BY <2>1, <2>2, LeaveKeeps
<1> QED
  BY <1>1, <1>3, <1>4, <1>5, <1>6, <1>7, <1>8, <1>9, <1>10, <1>11, <1>12, <1>13, <1>14, <1>15

(***************************************************************************)
(* The store and the edit history, driven by these transactions.           *)
(***************************************************************************)
\* To the store, a step of the window is a call, a step of the call, its
\* return, another program, or nothing.
LEMMA StoreSteps ==
    ASSUME DocInv, [Next]_vars
    PROVE  /\ \/ gui.pc = "writing" /\ CallStep
              \/ Environment \/ CallAny \/ Return \/ UNCHANGED storeVars
           /\ [StoreNext]_storeVars
<1> SUFFICES \/ gui.pc = "writing" /\ CallStep
             \/ Environment \/ CallAny \/ Return \/ UNCHANGED storeVars
  BY DEF StoreNext
<1>1. /\ StoreInv /\ FileKnown /\ session \in Session /\ gui.snapshot \in Session
      /\ gui.pc = "replace" => gui.target \in Paths
  BY DocFacts DEF GuiInv, Targeted
<1>2. ASSUME NEW frame, NEW snapshot \in Session, NEW p \in Paths, NEW overwrite \in BOOLEAN,
             StartWrite(frame, snapshot, p, overwrite)
      PROVE  CallAny \/ UNCHANGED storeVars
  BY <1>1, <1>2, StartWriteCalls
<1>3. ASSUME NEW frame, Save(frame) PROVE CallAny \/ UNCHANGED storeVars
  <2>1. CASE session.path = Untitled
    BY <1>3, <2>1 DEF Save
  <2>2. CASE session.path # Untitled
    <3> DEFINE f == [frame EXCEPT !.issuer = session.document]
    <3>1. session.path \in Paths /\ StartWrite(f, session, session.path, FALSE)
      BY <1>1, <1>3, <2>2, SessionFields DEF Save
    <3> HIDE DEF f
    <3> QED
      BY <1>1, <1>2, <3>1
  <2> QED
    BY <2>1, <2>2
<1>4. CASE CommandSave
  BY <1>3, <1>4 DEF CommandSave
<1>5. CASE ChooseSave
  <2> DEFINE f == [gui EXCEPT !.consent = <<0, 0>>]
  <2>1. Save(f)
    BY <1>5 DEF ChooseSave
  <2> HIDE DEF f
  <2> QED
    BY <1>3, <2>1
<1>6. CASE ConfirmReplace
  <2> DEFINE f == [gui EXCEPT !.confirmed = gui.target]
  <2>1. gui.pc = "replace" /\ StartWrite(f, session, gui.target, TRUE)
    BY <1>6 DEF ConfirmReplace
  <2> HIDE DEF f
  <2> QED
    BY <1>1, <1>2, <2>1
<1>7. ASSUME NEW p \in Paths, ChooseName(p) PROVE CallAny \/ UNCHANGED storeVars
  <2>1. StartWrite(gui, gui.snapshot, p, FALSE)
    BY <1>7 DEF ChooseName
  <2> QED
    BY <1>1, <1>2, <2>1
<1>8. ASSUME NEW p \in Paths, ChooseTarget(p) PROVE CallAny \/ UNCHANGED storeVars
  <2>1. StartWrite(gui, session, p, FALSE) \/ UNCHANGED storeVars
    BY <1>8 DEF ChooseTarget
  <2> QED
    BY <1>1, <1>2, <2>1
<1>9. CASE \/ EditBuffer \/ CancelName \/ Acknowledge \/ CommandSaveAs \/ CancelSaveAs
           \/ CommandClose \/ ChooseDiscard \/ ChooseCancel \/ ReadSucceeds \/ ReadFails
           \/ \E p \in Paths : CommandOpen(p) \/ Deliver(p)
  BY <1>9 DEF EditBuffer, CancelName, Acknowledge, CommandSaveAs, CancelSaveAs, CommandClose,
              ChooseDiscard, ChooseCancel, ReadSucceeds, ReadFails, CommandOpen, Deliver, Leave
<1>10. CASE WriteSucceeds \/ WriteFails
  BY <1>10 DEF WriteSucceeds, WriteFails
<1>11. CASE WriteStep \/ OtherPrograms
  BY <1>11 DEF WriteStep, OtherPrograms
<1>12. CASE UNCHANGED vars
  BY <1>12 DEF vars, storeVars
<1> QED
  BY <1>4, <1>5, <1>6, <1>7, <1>8, <1>9, <1>10, <1>11, <1>12 DEF Next

LEMMA ClockGrows ==
    ASSUME StoreInv, Environment \/ CallStep \/ CallAny \/ Return \/ UNCHANGED storeVars
    PROVE  clock <= clock'
<1>1. StoreTypeOK /\ Staged /\ clock \in Nat
  BY DEF StoreInv, StoreTypeOK
<1>2. CASE Environment
  BY <1>1, <1>2, EnvironmentTypes
<1>3. CASE CallStep
  <2>1. CASE Quiet
    BY <1>1, <2>1, QuietSteps
  <2>2. CASE PublishNew \/ PublishOver \/ Unlink
    BY <1>1, <2>2 DEF PublishNew, PublishOver, Unlink
  <2>3. CASE \E durable \in BOOLEAN : SyncDirectory(durable)
    BY <1>1, <2>3 DEF SyncDirectory
  <2> QED
    BY <1>3, <2>1, <2>2, <2>3 DEF CallStep, Quiet
<1>4. CASE CallAny \/ Return \/ UNCHANGED storeVars
  <2>1. clock' = clock
    BY <1>4, Zenon DEF CallAny, WriteAtomic, Return, storeVars
  <2> QED
    BY <1>1, <2>1
<1> QED
  BY <1>2, <1>3, <1>4

\* Another document in the buffer: a history of its own, and the file's identity.
LEMMA LoadKeeps ==
    ASSUME DocInv, NEW p \in Paths, Load(p)
    PROVE  /\ EditInv' /\ ~Dirty(session') /\ session'.document = session.document + 1
           /\ session'.file.text = session'.baseline /\ session'.file.version <= clock
<1>1. files[p] # Absent /\ session' = Replaced(session, p, IdentityOf(files[p])) /\ Reset
  BY DEF Load
<1>2. /\ session' \in Session /\ session'.document = session.document + 1 /\ ~Dirty(session')
      /\ session'.file.text = session'.baseline /\ session'.file.version <= clock
  BY <1>1, DocFacts, LoadedSession
<1> QED
  BY <1>1, <1>2, ResetKeeps

\* What a step does to the buffer: an edit, another document, a save, nothing.
LEMMA BufferSteps ==
    ASSUME [Next]_vars
    PROVE  \/ EditBuffer
           \/ ReadSucceeds
           \/ \E p \in Paths : Deliver(p)
           \/ WriteSucceeds
           \/ UNCHANGED editVars
<1>1. CASE \/ CommandSave \/ CommandSaveAs \/ ConfirmReplace \/ CancelSaveAs \/ CancelName
           \/ Acknowledge \/ WriteFails \/ ReadFails \/ WriteStep \/ OtherPrograms
           \/ ChooseSave \/ ChooseDiscard \/ ChooseCancel \/ CommandClose
           \/ \E p \in Paths : ChooseName(p) \/ ChooseTarget(p) \/ CommandOpen(p)
  BY <1>1 DEF CommandSave, CommandSaveAs, ConfirmReplace, CancelSaveAs, CancelName, Acknowledge,
              WriteFails, ReadFails, ChooseSave, ChooseDiscard, ChooseCancel, CommandClose,
              ChooseName, ChooseTarget, CommandOpen, Leave, WriteStep, OtherPrograms
<1>2. CASE UNCHANGED vars
  BY <1>2 DEF vars, editVars
<1> QED
  BY <1>1, <1>2 DEF Next

LEMMA EditHistoryKept ==
    ASSUME DocInv, [Next]_vars
    PROVE  EditInv'
<1>1. EditInv
  BY DEF DocInv
<1>2. CASE EditBuffer
  BY <1>1, <1>2, EditStepKeeps DEF EditBuffer
<1>3. CASE ReadSucceeds
  <2>1. gui.target \in Paths /\ Load(gui.target)
    BY <1>3, DocFacts DEF GuiInv, Targeted, ReadSucceeds
  <2> QED
    BY <2>1, LoadKeeps
<1>4. ASSUME NEW p \in Paths, Deliver(p) PROVE EditInv'
  BY <1>4, LoadKeeps DEF Deliver
<1>5. CASE WriteSucceeds
  <2>1. UNCHANGED <<undoStack, redoStack, historyBytes>>
    BY <1>5 DEF WriteSucceeds
  <2>2. session' \in Session /\ session'.text = session.text
    BY <1>5, WriteEnds
  <2> QED
    BY <1>1, <2>1, <2>2
    DEF EditInv, EditTypeOK, HistoryChains, HistoryWithinBudget
<1>6. CASE UNCHANGED editVars
  BY <1>1, <1>6 DEF editVars, EditInv, EditTypeOK, HistoryChains, HistoryWithinBudget
<1> QED
  BY <1>2, <1>3, <1>4, <1>5, <1>6, BufferSteps

LEMMA FileStaysKnown ==
    ASSUME DocInv, [Next]_vars
    PROVE  FileKnown'
<1>1. FileKnown /\ clock \in Nat /\ session \in Session /\ EditTypeOK /\ StoreInv
  BY DocFacts DEF StoreInv, StoreTypeOK, DocInv, EditInv
<1>2. clock <= clock' /\ StoreInv'
  BY <1>1, StoreSteps, ClockGrows, StepKeepsStoreInv
<1>3. clock' \in Nat
  BY <1>2 DEF StoreInv, StoreTypeOK
<1>4. session.file # NoIdentity => session.file.version \in Nat
  BY <1>1, SessionFields DEF Identity
<1>5. CASE session'.file = session.file /\ session'.baseline = session.baseline
  BY <1>1, <1>2, <1>3, <1>4, <1>5 DEF FileKnown
<1>6. CASE EditBuffer
  BY <1>1, <1>5, <1>6, EditStepNames DEF EditBuffer
<1>7. ASSUME NEW p \in Paths, Load(p), UNCHANGED storeVars PROVE FileKnown'
  <2>1. clock' = clock
    BY <1>7 DEF storeVars
  <2> QED
    BY <1>7, <2>1, LoadKeeps DEF FileKnown
<1>8. CASE ReadSucceeds
  <2>1. gui.target \in Paths /\ Load(gui.target) /\ UNCHANGED storeVars
    BY <1>8, DocFacts DEF GuiInv, Targeted, ReadSucceeds
  <2> QED
    BY <1>7, <2>1
<1>9. ASSUME NEW p \in Paths, Deliver(p) PROVE FileKnown'
  <2>1. Load(p) /\ UNCHANGED storeVars
    BY <1>9 DEF Deliver
  <2> QED
    BY <1>7, <2>1
<1>10. CASE WriteSucceeds
  BY <1>10, WriteEnds
<1>11. CASE UNCHANGED editVars
  BY <1>5, <1>11 DEF editVars
<1> QED
  BY <1>6, <1>8, <1>9, <1>10, <1>11, BufferSteps

\* A step of the call or of another program, with the window waiting.
LEMMA WaitKeeps ==
    ASSUME DocInv, UNCHANGED <<session, gui>>,
           (gui.pc = "writing" /\ CallStep) \/ Environment
    PROVE  GuiInv'
<1>1. GuiInv /\ StoreInv /\ StoreTypeOK
  BY DocFacts DEF StoreInv
<1>2. Writing'
  <2>1. SUFFICES ASSUME gui.pc = "writing"
        PROVE  /\ call'.pc # "none" /\ call'.text = call.text /\ call'.path = call.path
               /\ call'.expected = call.expected
    BY <1>1 DEF GuiInv, Writing
  <2>2. call.pc # "none"
    BY <1>1, <2>1 DEF GuiInv, Writing
  <2>3. CASE CallStep
    BY <1>1, <2>3, CallStepKeepsRequest
  <2>4. CASE Environment
    BY <1>1, <2>2, <2>4, EnvironmentTypes, EnvironmentTarget
  <2> QED
    BY <2>3, <2>4
<1> QED
  BY <1>1, <1>2 DEF GuiInv, Targeted, Consented, Snapped, Issued, Fits, Dirty, Token

LEMMA FrameKept ==
    ASSUME DocInv, [Next]_vars
    PROVE  GuiInv'
<1>1. GuiInv /\ gui \in Gui
  BY DocFacts
<1>2. CASE EditBuffer
  BY <1>1, <1>2
  DEF EditBuffer, GuiInv, Targeted, Consented, Snapped, Issued, Writing
<1>3. CASE WriteStep \/ OtherPrograms
  BY <1>3, WaitKeeps DEF WriteStep, OtherPrograms, editVars
<1>4. CASE WriteSucceeds
  BY <1>4, WriteEnds
<1>5. CASE ReadSucceeds
  <2>1. gui' \in Gui /\ gui'.pc = "idle" /\ gui'.then = "none"
    BY <1>5, IdleType DEF ReadSucceeds, Idle
  <2> QED
    BY <2>1 DEF GuiInv, Targeted, Consented, Snapped, Issued, Writing
<1>6. ASSUME NEW p \in Paths, Deliver(p) PROVE GuiInv'
  BY <1>6, DeliverKeeps
<1>7. CASE UNCHANGED vars
  BY <1>1, <1>7
  DEF vars, GuiInv, Targeted, Consented, Snapped, Issued, Writing, Fits, Dirty, Token
<1> QED
  BY <1>2, <1>3, <1>4, <1>5, <1>6, <1>7, FrameStepKeeps DEF Next

(***************************************************************************)
(* The theorems.                                                           *)
(***************************************************************************)
LEMMA DocInitHolds == Init => DocInv
<1> SUFFICES ASSUME Init PROVE DocInv
  OBVIOUS
<1>1. EditInv /\ StoreInv
  BY EditInitHolds, InitHolds DEF Init
<1>2. ReplaceInv
  BY DEF Init, StoreInit, ReplaceInv, Ours, Compared, After, Verified, NoCall
<1>3. FileKnown
  BY DEF Init, EditInit, NewSession, FileKnown
<1>4. gui \in Gui /\ gui.pc = "idle" /\ gui.then = "none"
  BY IdleType DEF Init, Idle
<1> QED
  BY <1>1, <1>2, <1>3, <1>4
  DEF DocInv, GuiInv, Targeted, Consented, Snapped, Issued, Writing

LEMMA DocStepKeeps == ASSUME DocInv, [Next]_vars PROVE DocInv'
<1>1. StoreInv /\ ReplaceInv /\ [StoreNext]_storeVars
  BY StoreSteps DEF DocInv
<1>2. StoreInv' /\ ReplaceInv'
  BY <1>1, StepKeepsStoreInv, StepKeepsReplaceInv
<1> QED
  BY <1>2, EditHistoryKept, FileStaysKnown, FrameKept DEF DocInv

\* The inductive invariant holds in every reachable state.
THEOREM DocInvariance == Spec => []DocInv
  BY DocInitHolds, DocStepKeeps, PTL DEF Spec

\* The buffer, its history, the store and the frame keep their types.
THEOREM TypeCorrect == Spec => []TypeOK
<1>1. DocInv => TypeOK
  BY DEF DocInv, StoreInv, EditInv, GuiInv, TypeOK
<1> QED
  BY <1>1, DocInvariance, PTL

\* The undo history and the accepted identity are of the document in the
\* buffer, whichever way it got there.
THEOREM KeptTogether == Spec => []KeptWithItsDocument
<1>1. DocInv => KeptWithItsDocument
  BY DEF DocInv, EditInv, FileKnown, KeptWithItsDocument
<1> QED
  BY <1>1, DocInvariance, PTL

\* A save writes the document it was given for, whatever was delivered while
\* its name was being chosen.
THEOREM SaveIsOfItsDocument == Spec => []SaveWritesItsDocument
<1>1. DocInv => SaveWritesItsDocument
  BY DEF DocInv, GuiInv, Issued, SaveWritesItsDocument
<1> QED
  BY <1>1, DocInvariance, PTL

\* The store keeps its promises under these transactions too: this window is
\* one of the callers that StoreSpec allows.
THEOREM WindowUsesTheStore == Spec => StoreSpec
<1>1. Init => StoreInit
  BY DEF Init
<1>2. ASSUME DocInv, [Next]_vars PROVE [StoreNext]_storeVars
  BY <1>2, StoreSteps
<1> QED
  BY <1>1, <1>2, DocInvariance, PTL DEF Spec, StoreSpec

\* Unsaved text is given up only for the revision the user was asked about,
\* and only an edit makes text unsaved.
THEOREM NothingLostUnasked == Spec => NoSilentLoss
<1> DEFINE A == /\ \/ Dirty(session) /\ session'.document # session.document
                   \/ Dirty(session') /\ gui.pc # "closed" /\ gui'.pc = "closed"
                 => gui.consent = Token(session)
                /\ ~Dirty(session) /\ Dirty(session')
                     => session'.document = session.document
                        /\ session'.baseline = session.baseline
                        /\ session'.revision = session.revision + 1
<1>1. ASSUME DocInv, [Next]_vars PROVE [A]_vars
  <2>1. Consented /\ session \in Session /\ EditTypeOK
    BY <1>1, DocFacts DEF DocInv, EditInv, GuiInv
  <2>2. CASE EditBuffer
    BY <2>1, <2>2, EditStepNames DEF EditBuffer
  <2>3. CASE WriteStep \/ OtherPrograms
    BY <2>3 DEF WriteStep, OtherPrograms, editVars
  <2>4. CASE WriteSucceeds
    BY <1>1, <2>4, WriteEnds
  <2>5. CASE ReadSucceeds
    <3>1. gui.target \in Paths /\ Load(gui.target) /\ gui.pc = "read" /\ gui' = Idle
      BY <1>1, <2>5, DocFacts DEF GuiInv, Targeted, ReadSucceeds
    <3>2. ~Dirty(session') /\ gui'.pc = "idle"
      BY <1>1, <3>1, LoadKeeps DEF Idle
    <3> QED
      BY <2>1, <3>1, <3>2 DEF Consented
  <2>6. ASSUME NEW p \in Paths, Deliver(p) PROVE A
    <3>1. Load(p) /\ ~Dirty(session) /\ gui' = gui
      BY <2>6 DEF Deliver
    <3>2. ~Dirty(session')
      BY <1>1, <3>1, LoadKeeps
    <3> QED
      BY <3>1, <3>2
  <2>7. CASE UNCHANGED vars
    BY <2>7
  <2>8. CASE \/ CommandSave \/ CommandSaveAs \/ ConfirmReplace \/ CancelSaveAs \/ CancelName
             \/ Acknowledge \/ WriteFails \/ ReadFails
             \/ ChooseSave \/ ChooseDiscard \/ ChooseCancel \/ CommandClose
             \/ \E p \in Paths : ChooseName(p) \/ ChooseTarget(p) \/ CommandOpen(p)
    BY <1>1, <2>8, FrameStepKeeps
  <2> QED
    BY <1>1, <2>2, <2>3, <2>4, <2>5, <2>6, <2>7, <2>8 DEF Next
<1> QED
  BY <1>1, DocInvariance, PTL DEF Spec, NoSilentLoss

\* No file but the document's own is replaced without a confirmation of that
\* very path.
THEOREM ReplacedOnlyIfConfirmed == Spec => OverwriteConfirmed
<1>1. ASSUME DocInv, [Next]_vars
      PROVE  [ Publishing /\ Target # Absent
                 => call.path = gui.snapshot.path \/ gui.confirmed = call.path ]_vars
  <2> SUFFICES ASSUME Publishing, Target # Absent
               PROVE  call.path = gui.snapshot.path \/ gui.confirmed = call.path
    OBVIOUS
  <2>1. StoreInv /\ StoreTypeOK /\ ReplaceInv /\ Writing
    BY <1>1 DEF DocInv, GuiInv, StoreInv
  <2>2. gui.pc = "writing"
    <3>1. call.pc = "publish" /\ call'.pc \in {"unlink", "stat"}
      BY DEF Publishing
    <3>2. ~Environment
      BY <2>1, <3>1, EnvironmentTypes
    <3>3. ~CallAny /\ ~Return /\ ~UNCHANGED storeVars
      BY <3>1 DEF CallAny, WriteAtomic, Return, NoCall, storeVars
    <3> QED
      BY <1>1, <3>2, <3>3, StoreSteps
  <2>3. call.expected # NoIdentity
    BY <1>1, <2>1, StoreSteps, StepReplacesExpected
  <2> QED
    BY <2>1, <2>2, <2>3 DEF Writing
<1> QED
  BY <1>1, DocInvariance, PTL DEF Spec, OverwriteConfirmed

\* A token names one text of one document, and tokens only grow, also when
\* saves and deliveries change the session.
THEOREM TokensName == Spec => TokenNamesOneSource
<1> DEFINE A == /\ Token(session') = Token(session) =>
                      session'.text = session.text /\ session'.kind = session.kind
                /\ \/ session'.document > session.document
                   \/ session'.document = session.document
                      /\ session'.revision >= session.revision
<1>1. ASSUME DocInv, [Next]_vars PROVE [A]_editVars
  <2>1. session \in Session /\ session.document \in Nat /\ session.revision \in Nat /\ EditTypeOK
    BY <1>1, DocFacts, SessionFields DEF DocInv, EditInv
  <2>2. CASE EditBuffer
    BY <2>1, <2>2, EditStepNames DEF EditBuffer, Token
  <2>3. CASE session'.document = session.document + 1
    BY <2>1, <2>3 DEF Token
  <2>4. CASE ReadSucceeds
    <3>1. gui.target \in Paths /\ Load(gui.target)
      BY <1>1, <2>4, DocFacts DEF GuiInv, Targeted, ReadSucceeds
    <3> QED
      BY <1>1, <2>3, <3>1, LoadKeeps
  <2>5. ASSUME NEW p \in Paths, Deliver(p) PROVE [A]_editVars
    <3>1. Load(p)
      BY <2>5 DEF Deliver
    <3> QED
      BY <1>1, <2>3, <3>1, LoadKeeps
  <2>6. CASE WriteSucceeds
    BY <1>1, <2>1, <2>6, WriteEnds DEF Token
  <2>7. CASE UNCHANGED editVars
    BY <2>7
  <2> QED
    BY <1>1, <2>2, <2>4, <2>5, <2>6, <2>7, BufferSteps
<1> QED
  BY <1>1, DocInvariance, PTL DEF Spec, TokenNamesOneSource
=============================================================================
