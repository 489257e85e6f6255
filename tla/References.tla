----------------------------- MODULE References -----------------------------
(***************************************************************************)
(* The index of the document on display and the headings of the files it   *)
(* refers to: IndexPanel, ApplicationIndex and ReferenceWorker with its    *)
(* thread.  The reader expands a file; a zero timer asks for its headings; *)
(* the thread reads and parses it; another timer collects the answers.     *)
(* Meanwhile the document changes and its index is built anew.             *)
(***************************************************************************)
EXTENDS Naturals, Sequences, SequencesExt, FiniteSets

CONSTANTS
    Files,        \* the documents there are
    MaxQueue,     \* ReferenceWorker holds 32 requests
    MaxGeneration \* bound: cancels

ASSUME ReferencesAssumption == MaxQueue \in Nat \ {0} /\ MaxGeneration \in Nat

VARIABLES
    current,    \* the session: path, token; its model is there (parsed), or to come (awaited)
    index,      \* IndexPanel: valid, token, path, files, loading, requests
    rows,       \* what is under each file of the panel
    pending, completed,   \* ReferenceWorker's queues of paths
    generation, worker,   \* thread: its path and the generation it began in
    stopping,
    timers,     \* the timers that are armed: "request" and "poll" (number 4)
    heading     \* Application::pendingHeading: the path of a heading, or none

refVars == <<current, index, rows, pending, completed, generation, worker, stopping, timers, heading>>

workerState == <<pending, completed, generation, worker, stopping>>

Asleep == [state |-> "waiting", path |-> "", generation |-> 0]
Working == worker.state \in {"reading", "parsing"}

\* A request carries the generation it was submitted in (for the properties).
Item(path) == [path |-> path, generation |-> generation]

RefInit ==
    /\ current \in [path : Files, token : {0}, parsed : {FALSE}, awaited : {TRUE}]
    /\ index = [valid |-> FALSE, token |-> 0, path |-> "", files |-> {}, loading |-> {}, requests |-> {}]
    /\ rows = <<>>
    /\ pending = <<>> /\ completed = <<>> /\ generation = 0
    /\ worker = Asleep /\ stopping = FALSE
    /\ timers = {} /\ heading = ""

(***************************************************************************)
(* IndexPanel.                                                             *)
(***************************************************************************)
Invalid(token, path) ==
    IF index.token = token /\ index.path = path THEN index
    ELSE [index EXCEPT !.valid = FALSE, !.requests = {}]

\* presentReference, for the results at these paths.
Answered(paths) ==
    IF index.valid THEN [index EXCEPT !.loading = @ \ (paths \cap index.files)] ELSE index
Filled(paths) ==
    [f \in DOMAIN rows |-> IF index.valid /\ f \in paths THEN "answered" ELSE rows[f]]

\* ReferenceWorker::cancel
Cancelled ==
    /\ generation < MaxGeneration
    /\ generation' = generation + 1
    /\ pending' = <<>> /\ completed' = <<>>

Present(links) ==
    /\ index' = [valid |-> TRUE, token |-> current.token, path |-> current.path, files |-> links,
                 loading |-> {}, requests |-> {}]
    /\ rows' = [f \in links |-> "hint"]
    /\ timers' = timers \ {"request"}

\* documentOpened and contentChanged: references are cancelled, a pending
\* heading is dropped, a new model is asked for, and the index is invalidated
\* (not when the same file was saved, with the same text).
Changed(path, token) ==
    /\ current' = [path |-> path, token |-> token, awaited |-> TRUE,
                   parsed |-> current.parsed /\ token = current.token]
    /\ Cancelled
    /\ index' = Invalid(token, path)
    /\ timers' = IF index' = index THEN timers ELSE timers \ {"request"}
    /\ UNCHANGED <<rows, worker, stopping>>

\* Another document is opened, or this one is edited.
Change(path) ==
    /\ Changed(path, current.token + 1) /\ heading' = ""

Save(path) == Changed(path, current.token) /\ heading' = ""

\* Another layout of the same text.
Relayout ==
    /\ index' = Invalid(current.token, current.path)
    /\ timers' = IF index' = index THEN timers ELSE timers \ {"request"}
    /\ UNCHANGED <<current, rows, heading, workerState>>

\* modelReady: the model of the current text; the index lists `links`.
ModelReady(links) ==
    /\ current.awaited
    /\ current' = [current EXCEPT !.parsed = TRUE, !.awaited = FALSE]
    /\ Cancelled /\ Present(links)
    /\ heading' = ""
    /\ UNCHANGED <<worker, stopping>>

\* indexRefresh: the Refresh button of the index.
RefreshIndex(links) ==
    /\ Cancelled
    /\ IF current.parsed THEN Present(links) /\ UNCHANGED current
       ELSE current' = [current EXCEPT !.awaited = TRUE] /\ UNCHANGED <<index, rows, timers>>
    /\ UNCHANGED <<heading, worker, stopping>>

\* request: the reader expands a file.
ExpandFile(f) ==
    /\ f \in index.files
    /\ index.valid /\ f \notin index.loading
    /\ index' = [index EXCEPT !.loading = @ \cup {f}, !.requests = @ \cup {f}]
    /\ timers' = timers \cup {"request"}
    /\ UNCHANGED <<current, rows, heading, workerState>>

Room == MaxQueue - (Len(pending) + Len(completed) + IF Working THEN 1 ELSE 0)

\* onRequest: the document on display answers for itself, the other files
\* are submitted while the queue has room and told to retry when it has not.
OnRequest ==
    /\ "request" \in timers
    /\ LET own == {f \in index.requests : f = current.path /\ current.parsed}
           others == SetToSeq(index.requests \ own)
           sent == SubSeq(others, 1, IF Room < Len(others) THEN Room ELSE Len(others))
           answered == index.requests \ ToSet(sent)
       IN /\ pending' = pending \o [i \in DOMAIN sent |-> Item(sent[i])]
          /\ index' = [index EXCEPT !.requests = {}, !.loading = @ \ answered]
          /\ rows' = [f \in DOMAIN rows |->
                        IF f \in answered THEN "answered"
                        ELSE IF f \in index.requests THEN "loading" ELSE rows[f]]
          /\ timers' = (timers \ {"request"}) \cup IF sent = <<>> THEN {} ELSE {"poll"}
    /\ UNCHANGED <<current, completed, generation, worker, stopping, heading>>

\* Mutant of RefBusy: a thread that works on the last request does not count.
RefBusyQueues(results) == pending # <<>> \/ results # <<>>

RefBusy(results) == Working \/ pending # <<>> \/ results # <<>>

\* pollReferences takes every result, then asks whether more may come.
PollReferences ==
    /\ "poll" \in timers
    /\ completed' = <<>>
    /\ index' = Answered({r.path : r \in ToSet(completed)})
    /\ rows' = Filled({r.path : r \in ToSet(completed)})
    /\ timers' = IF RefBusy(<<>>) THEN timers ELSE timers \ {"poll"}
    /\ UNCHANGED <<current, pending, generation, worker, stopping, heading>>

\* activateIndex: a heading under another file opens it, and is sought when
\* its model arrives.
ActivateHeading(f) ==
    /\ index.valid /\ f \in DOMAIN rows /\ rows[f] = "answered"
    /\ f # current.path
    /\ Changed(f, current.token + 1) /\ heading' = f

(***************************************************************************)
(* run, one step per critical section of the mutex; a file that cannot be  *)
(* read or parsed is answered with its error.                              *)
(***************************************************************************)
BeginReading ==
    /\ worker.state = "waiting" /\ ~stopping /\ pending # <<>>
    /\ worker' = [state |-> "reading", path |-> Head(pending).path, generation |-> generation]
    /\ pending' = Tail(pending)
    /\ UNCHANGED <<current, index, rows, completed, generation, stopping, timers, heading>>

Read ==
    /\ worker.state = "reading"
    /\ worker' = [worker EXCEPT !.state = "parsing"]
    /\ UNCHANGED <<current, index, rows, pending, completed, generation, stopping, timers, heading>>

\* Mutant of Finish: the generation is not compared.
FinishLate ==
    /\ worker.state = "parsing"
    /\ worker' = Asleep
    /\ completed' = IF stopping THEN completed
                    ELSE Append(completed, [path |-> worker.path, generation |-> worker.generation])
    /\ UNCHANGED <<current, index, rows, pending, generation, stopping, timers, heading>>

Finish ==
    /\ worker.state = "parsing"
    /\ worker' = Asleep
    /\ completed' = IF stopping \/ worker.generation # generation THEN completed
                    ELSE Append(completed, [path |-> worker.path, generation |-> worker.generation])
    /\ UNCHANGED <<current, index, rows, pending, generation, stopping, timers, heading>>

\* ~ReferenceWorker
Stop ==
    /\ ~stopping
    /\ stopping' = TRUE /\ pending' = <<>> /\ timers' = {}
    /\ UNCHANGED <<current, index, rows, completed, generation, worker, heading>>

Exit ==
    /\ stopping /\ worker.state = "waiting"
    /\ worker' = [worker EXCEPT !.state = "exited"]
    /\ UNCHANGED <<current, index, rows, pending, completed, generation, stopping, timers, heading>>

RefNext ==
    \/ /\ ~stopping
       /\ \/ \E f \in Files : Change(f) \/ Save(f) \/ ExpandFile(f) \/ ActivateHeading(f)
          \/ \E links \in SUBSET Files : ModelReady(links) \/ RefreshIndex(links)
          \/ Relayout \/ OnRequest \/ PollReferences \/ Stop
    \/ BeginReading \/ Read \/ Finish \/ Exit

\* The thread is scheduled.
RefFairness == WF_refVars(BeginReading \/ Read \/ Finish \/ Exit)

RefSpec == RefInit /\ [][RefNext]_refVars /\ RefFairness

(***************************************************************************)
(* Properties.                                                             *)
(***************************************************************************)
RefTypeOK ==
    /\ current \in [path : Files, token : 0 .. MaxGeneration, parsed : BOOLEAN, awaited : BOOLEAN]
    /\ index.valid \in BOOLEAN /\ {index.files, index.loading, index.requests} \subseteq SUBSET Files
    /\ DOMAIN rows = index.files /\ \A f \in DOMAIN rows : rows[f] \in {"hint", "loading", "answered"}
    /\ worker.state \in {"waiting", "reading", "parsing", "exited"}
    /\ timers \subseteq {"request", "poll"} /\ generation \in 0 .. MaxGeneration

\* Whatever a file's row says is being loaded will be answered: its request
\* waits for a timer that is armed, or for the thread with the poll armed, or
\* the index is about to be built anew. No answer to a request of an earlier
\* index is ever in the queue, which keeps within its limit; and a heading is
\* sought only in the document it was picked in.
LoadingIsAnswered ==
    /\ Len(pending) + Len(completed) + (IF Working THEN 1 ELSE 0) <= MaxQueue
    /\ \A r \in ToSet(pending) \cup ToSet(completed) : r.generation = generation
    /\ heading # "" => heading = current.path /\ current.awaited /\ ~current.parsed
    /\ index.valid /\ ~stopping /\ ~current.awaited =>
          \A f \in index.files :
             /\ rows[f] = "loading" => f \in index.loading
             /\ f \in index.loading =>
                   \/ f \in index.requests /\ "request" \in timers
                   \/ /\ "poll" \in timers
                      /\ \/ \E r \in ToSet(pending) \cup ToSet(completed) : r.path = f
                         \/ Working /\ worker.path = f /\ worker.generation = generation
=============================================================================
