------------------------------ MODULE MCEditing ------------------------------
(* Where the text comes from and where it goes: the history of edits, and   *)
(* the thread that parses what was edited. They share no state, so each     *)
(* behaviour follows one, the focus, and the other rests where it began.    *)
EXTENDS MCEditController, ParserWorker

VARIABLE focus     \* the component this behaviour follows

editingVars == <<focus, editVars, workerVars>>

Init == focus \in {"edits", "worker"} /\ EditInit /\ WorkerInit

Next ==
    /\ UNCHANGED focus
    /\ \/ focus = "edits" /\ (EditStep \/ OpenAny) /\ UNCHANGED workerVars
       \/ focus = "worker" /\ WorkerNext /\ UNCHANGED editVars

\* A step of the worker, when the behaviour follows it.
OfWorker(step) == focus = "worker" /\ UNCHANGED <<focus, editVars>> /\ step

\* WorkerFairness.
Fairness ==
    /\ WF_workerVars(OfWorker(Run)) /\ WF_workerVars(OfWorker(Notify))
    /\ WF_workerVars(OfWorker(Join))

Spec == Init /\ [][Next]_editingVars /\ Fairness
=============================================================================
