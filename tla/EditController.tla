--------------------------- MODULE EditController --------------------------
(***************************************************************************)
(* EditController: the undo and redo stacks of the session's document and  *)
(* the byte budget of the history.  A change is the pair of texts before   *)
(* and after it; its weight is the bytes it removed plus those it put in   *)
(* their place, the same for the change and its inverse.                   *)
(***************************************************************************)
EXTENDS DocumentSession, Sequences

CONSTANTS Weight,      \* [Texts -> [Texts -> Nat]]: bytes a change keeps
          Budget       \* 32 MiB in the program

ASSUME EditAssumption ==
    /\ Weight \in [Texts -> [Texts -> Nat]]
    /\ Budget \in Nat

VARIABLES session,
          undoStack, redoStack,   \* sequences of changes, the newest last
          historyBytes            \* the running total the trimming looks at

editVars == <<session, undoStack, redoStack, historyBytes>>

Change == [before : Texts, after : Texts]

Bytes(c) == Weight[c.before][c.after]

TotalBytes(stack) ==
    LET sum[n \in 0..Len(stack)] == IF n = 0 THEN 0 ELSE sum[n - 1] + Bytes(stack[n])
    IN sum[Len(stack)]

EditInit ==
    /\ session = NewSession
    /\ undoStack = <<>>
    /\ redoStack = <<>>
    /\ historyBytes = 0

\* Mutant of Drops: the loop spares the last two changes.
DropsSparingTwo(stack, bytes, n) ==
    LET left(k) == bytes - TotalBytes(SubSeq(stack, 1, k))
        stops(k) == left(k) <= Budget \/ k >= Len(stack) - 2
    IN stops(n) /\ \A k \in 0..(n - 1) : ~stops(k)

\* The number of oldest changes the trimming loop drops: it stops as soon as
\* the counter is within the budget, and never drops the last change.
Drops(stack, bytes, n) ==
    LET left(k) == bytes - TotalBytes(SubSeq(stack, 1, k))
        stops(k) == left(k) <= Budget \/ k = Len(stack) - 1
    IN stops(n) /\ \A k \in 0..(n - 1) : ~stops(k)

\* Mutant of ApplyEdit: the redo branch survives a new edit.
ApplyEditKeepingRedo(t) ==
    LET change == [before |-> session.text, after |-> t]
    IN /\ t # session.text
       /\ session' = Edited(session, t)
       /\ undoStack' = Append(undoStack, change)
       /\ historyBytes' = historyBytes + Bytes(change)
       /\ UNCHANGED redoStack

\* applyEdit: a recorded change.  An edit that leaves the text as it was is
\* not recorded and keeps the redo stack.
ApplyEdit(t) ==
    LET change == [before |-> session.text, after |-> t]
        recorded == Append(undoStack, change)
        bytes == historyBytes + Bytes(change)
    IN /\ t # session.text
       /\ session' = Edited(session, t)
       /\ redoStack' = <<>>
       /\ \E n \in 0..(Len(recorded) - 1) :
              /\ Drops(recorded, bytes, n)
              /\ undoStack' = SubSeq(recorded, n + 1, Len(recorded))
              /\ historyBytes' = bytes - TotalBytes(SubSeq(recorded, 1, n))

\* Mutant of Undo: it keeps the text for redo, not the change.
UndoKeepingText ==
    /\ undoStack # <<>>
    /\ LET change == undoStack[Len(undoStack)]
       IN /\ session' = Edited(session, change.before)
          /\ undoStack' = SubSeq(undoStack, 1, Len(undoStack) - 1)
          /\ redoStack' = Append(redoStack, change.after)
    /\ UNCHANGED historyBytes

Undo ==
    /\ undoStack # <<>>
    /\ LET change == undoStack[Len(undoStack)]
       IN /\ session' = Edited(session, change.before)
          /\ undoStack' = SubSeq(undoStack, 1, Len(undoStack) - 1)
          /\ redoStack' = Append(redoStack, change)
    /\ UNCHANGED historyBytes

Redo ==
    /\ redoStack # <<>>
    /\ LET change == redoStack[Len(redoStack)]
       IN /\ session' = Edited(session, change.after)
          /\ redoStack' = SubSeq(redoStack, 1, Len(redoStack) - 1)
          /\ undoStack' = Append(undoStack, change)
    /\ UNCHANGED historyBytes

Reset ==
    /\ undoStack' = <<>>
    /\ redoStack' = <<>>
    /\ historyBytes' = 0

(***************************************************************************)
(* The controller on its own: a user who edits, undoes and redoes, and now *)
(* and then another document.  MaxRevision and MaxDocument bound the run.  *)
(***************************************************************************)
CONSTANTS MaxRevision, MaxDocument

CanRevise == session.revision < MaxRevision

EditStep ==
    /\ CanRevise
    /\ \/ \E t \in Texts : ApplyEdit(t)
       \/ Undo
       \/ Redo

OpenAny ==
    /\ session.document < MaxDocument
    /\ \E p \in Paths, t \in Texts :
           session' = Replaced(session, p, [version |-> 0, text |-> t])
    /\ Reset

EditSpec == EditInit /\ [][EditStep \/ OpenAny]_editVars

(***************************************************************************)
(* Properties.                                                             *)
(***************************************************************************)
EditTypeOK ==
    /\ session \in Session
    /\ undoStack \in Seq(Change)
    /\ redoStack \in Seq(Change)

\* Adjacent changes meet: what one leaves is what the next one found.
Chained(stack) == \A i \in 1..(Len(stack) - 1) : stack[i].after = stack[i + 1].before

ReverseChained(stack) == \A i \in 1..(Len(stack) - 1) : stack[i].before = stack[i + 1].after

\* The two stacks are one history of this very document, with the buffer
\* between them: every recorded range still fits the text it will be applied
\* to.  Trimming, a document switch and dropping the redo branch all keep it.
HistoryChains ==
    /\ Chained(undoStack)
    /\ ReverseChained(redoStack)
    /\ undoStack # <<>> => undoStack[Len(undoStack)].after = session.text
    /\ redoStack # <<>> => redoStack[Len(redoStack)].before = session.text

\* The history that is kept fits the budget, a single change excepted; and
\* the unsigned counter never falls below what the stacks hold, so that no
\* subtraction in the trimming loop wraps around.
HistoryWithinBudget ==
    LET kept == TotalBytes(undoStack) + TotalBytes(redoStack)
    IN /\ kept <= historyBytes
       /\ kept <= Budget \/ Len(undoStack) + Len(redoStack) <= 1

\* What the budget is for: an edit drops older undo steps only when the undo
\* stack would otherwise hold more than the budget.
DropsOnlyOverBudget ==
    [][ \A t \in Texts :
          ApplyEdit(t) /\ Len(undoStack') <= Len(undoStack) =>
            TotalBytes(undoStack) + Weight[session.text][t] > Budget ]_editVars

\* A revision number is never used for two texts of one document, whatever
\* edits, undos and redos happen in between; tokens only grow.
TokenNamesOneSource ==
    [][ /\ Token(session') = Token(session) =>
             session'.text = session.text /\ session'.kind = session.kind
        /\ \/ session'.document > session.document
           \/ session'.document = session.document /\ session'.revision >= session.revision
      ]_editVars
=============================================================================
