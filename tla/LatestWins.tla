----------------------------- MODULE LatestWins -----------------------------
(***************************************************************************)
(* What a latest-job worker promises its client: a new question replaces   *)
(* the one before, with whatever answer it had; an answer is the answer to *)
(* the latest question, says honestly whether it could be worked out, and  *)
(* is handed over once.  ParserWorker implements it with a thread.         *)
(***************************************************************************)
CONSTANTS Sources,    \* the questions
          Faulty,     \* those that have no answer but an error
          None

VARIABLES question,   \* the latest question whose answer was not taken, or None
          answer,     \* "none", "ok" or "error"
          closed      \* the worker was told to stop

vars == <<question, answer, closed>>

Init == question = None /\ answer = "none" /\ closed = FALSE

Ask(s) ==
    /\ ~closed
    /\ question' = s
    /\ answer' = "none"
    /\ UNCHANGED closed

Answer ==
    /\ question # None
    /\ answer = "none"
    /\ ~closed
    /\ answer' = IF question \in Faulty THEN "error" ELSE "ok"
    /\ UNCHANGED <<question, closed>>

Take ==
    /\ answer # "none"
    /\ question' = None
    /\ answer' = "none"
    /\ UNCHANGED closed

\* Closing drops a question that nobody started on.
Close ==
    /\ closed' = TRUE
    /\ question' \in {question, None}
    /\ UNCHANGED answer

Next == (\E s \in Sources : Ask(s)) \/ Answer \/ Take \/ Close

Spec == Init /\ [][Next]_vars
=============================================================================
