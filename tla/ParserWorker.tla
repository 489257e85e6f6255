---------------------------- MODULE ParserWorker ----------------------------
(***************************************************************************)
(* ParserWorker: one background thread that parses the latest snapshot.    *)
(* Each critical section of the mutex is one step; the notification comes  *)
(* after the section, as in the code, and the wait on the condition        *)
(* variable rechecks its predicate, so it may also wake up for nothing.    *)
(***************************************************************************)
EXTENDS Naturals

CONSTANTS Sources,   \* snapshots: a token and what the parser makes of it
          Faulty,    \* the snapshots the interpreter or its prepare step rejects
          None       \* an empty std::optional

Completion == [source : Sources, error : BOOLEAN]

ASSUME WorkerAssumption ==
    /\ Faulty \subseteq Sources
    /\ None \notin Sources
    /\ None \notin Completion

VARIABLES pending, completed,   \* the latest unstarted job, the latest result
          ticket,               \* counts the submissions
          working, stopping,
          thread,               \* the thread's pc and the locals of run()
          caller                \* what the owner does outside the mutex

workerVars == <<pending, completed, ticket, working, stopping, thread, caller>>

Parsing == {"parsing", "preparing", "finishing"}

Thread == [pc : Parsing \cup {"awake", "asleep", "exited"},
           source : Sources \cup {None}, current : Nat, error : BOOLEAN]

WorkerInit ==
    /\ pending = None
    /\ completed = None
    /\ ticket = 0
    /\ working = FALSE
    /\ stopping = FALSE
    /\ thread = [pc |-> "awake", source |-> None, current |-> 0, error |-> FALSE]
    /\ caller = "free"

(***************************************************************************)
(* The owner's side.                                                       *)
(***************************************************************************)
\* Mutants of Submit: the old result stays; the ticket stays.
SubmitKeepingResult(source) ==
    /\ caller = "free"
    /\ pending' = source
    /\ ticket' = ticket + 1
    /\ caller' = "submitted"
    /\ UNCHANGED <<completed, working, stopping, thread>>

SubmitKeepingTicket(source) ==
    /\ caller = "free"
    /\ pending' = source
    /\ completed' = None
    /\ caller' = "submitted"
    /\ UNCHANGED <<ticket, working, stopping, thread>>

Submit(source) ==
    /\ caller = "free"
    /\ pending' = source
    /\ completed' = None
    /\ ticket' = ticket + 1
    /\ caller' = "submitted"
    /\ UNCHANGED <<working, stopping, thread>>

\* ~ParserWorker up to the end of its critical section.
Stop ==
    /\ caller = "free"
    /\ stopping' = TRUE
    /\ pending' = None
    /\ caller' = "stopped"
    /\ UNCHANGED <<completed, ticket, working, thread>>

Notify ==
    /\ caller \in {"submitted", "stopped"}
    /\ caller' = IF caller = "submitted" THEN "free" ELSE "joining"
    /\ thread' = IF thread.pc = "asleep" THEN [thread EXCEPT !.pc = "awake"] ELSE thread
    /\ UNCHANGED <<pending, completed, ticket, working, stopping>>

Join ==
    /\ caller = "joining"
    /\ thread.pc = "exited"
    /\ caller' = "joined"
    /\ UNCHANGED <<pending, completed, ticket, working, stopping, thread>>

Take ==
    /\ caller = "free"
    /\ completed' = None
    /\ UNCHANGED <<pending, ticket, working, stopping, thread, caller>>

\* Mutant of Busy: a result that waits to be taken does not count.
BusyWorking == working \/ pending # None

Busy == working \/ pending # None \/ completed # None

(***************************************************************************)
(* run().                                                                  *)
(***************************************************************************)
\* The predicate of the wait, evaluated with the mutex held.
Exit ==
    /\ thread.pc = "awake"
    /\ stopping
    /\ thread' = [thread EXCEPT !.pc = "exited"]
    /\ UNCHANGED <<pending, completed, ticket, working, stopping, caller>>

\* Mutant of Begin: the snapshot is read after pending was reset.
BeginEmptyHanded ==
    /\ thread.pc = "awake"
    /\ ~stopping
    /\ pending # None
    /\ thread' = [pc |-> "parsing", source |-> None, current |-> ticket, error |-> FALSE]
    /\ pending' = None
    /\ working' = TRUE
    /\ UNCHANGED <<completed, ticket, stopping, caller>>

Begin ==
    /\ thread.pc = "awake"
    /\ ~stopping
    /\ pending # None
    /\ thread' = [pc |-> "parsing", source |-> pending, current |-> ticket, error |-> FALSE]
    /\ pending' = None
    /\ working' = TRUE
    /\ UNCHANGED <<completed, ticket, stopping, caller>>

\* Mutants of Sleep: the predicate of the wait leaves out pending, or stopping.
SleepOnPending ==
    /\ thread.pc = "awake"
    /\ ~stopping
    /\ thread' = [thread EXCEPT !.pc = "asleep"]
    /\ UNCHANGED <<pending, completed, ticket, working, stopping, caller>>

SleepOnStopping ==
    /\ thread.pc = "awake"
    /\ pending = None
    /\ thread' = [thread EXCEPT !.pc = "asleep"]
    /\ UNCHANGED <<pending, completed, ticket, working, stopping, caller>>

Sleep ==
    /\ thread.pc = "awake"
    /\ ~stopping
    /\ pending = None
    /\ thread' = [thread EXCEPT !.pc = "asleep"]
    /\ UNCHANGED <<pending, completed, ticket, working, stopping, caller>>

WakeForNothing ==
    /\ thread.pc = "asleep"
    /\ thread' = [thread EXCEPT !.pc = "awake"]
    /\ UNCHANGED <<pending, completed, ticket, working, stopping, caller>>

Goto(pc, error) ==
    /\ thread' = [thread EXCEPT !.pc = pc, !.error = error]
    /\ UNCHANGED <<pending, completed, ticket, working, stopping, caller>>

\* interpreter.parse(): no lock held; an exception becomes an error result.
Parse ==
    /\ thread.pc = "parsing"
    /\ IF thread.source \in Faulty
       THEN \E pc \in {"preparing", "finishing"} : Goto(pc, pc = "finishing")
       ELSE Goto("preparing", FALSE)

Cancelled == stopping \/ thread.current # ticket

\* prepare(): its last checkpoint throws when the job was cancelled, and a
\* source may be rejected on its own account.
Prepare ==
    /\ thread.pc = "preparing"
    /\ Goto("finishing", Cancelled \/ thread.source \in Faulty)

\* Mutant of Finish: a superseded result is published too.
FinishAnyway ==
    /\ thread.pc = "finishing"
    /\ working' = FALSE
    /\ completed' = [source |-> thread.source, error |-> thread.error]
    /\ thread' = [thread EXCEPT !.pc = "awake", !.source = None]
    /\ UNCHANGED <<pending, ticket, stopping, caller>>

Finish ==
    /\ thread.pc = "finishing"
    /\ working' = FALSE
    /\ completed' = IF Cancelled THEN completed
                    ELSE [source |-> thread.source, error |-> thread.error]
    /\ thread' = [thread EXCEPT !.pc = "awake", !.source = None]
    /\ UNCHANGED <<pending, ticket, stopping, caller>>

Run == Exit \/ Begin \/ Sleep \/ Parse \/ Prepare \/ Finish

(***************************************************************************)
(* The worker with an arbitrary owner; MaxTicket bounds the submissions.   *)
(***************************************************************************)
CONSTANT MaxTicket

ASSUME MaxTicketAssumption == MaxTicket \in Nat

SubmitAny == ticket < MaxTicket /\ \E s \in Sources : Submit(s)

WorkerNext == SubmitAny \/ Take \/ Stop \/ Notify \/ Join \/ Run \/ WakeForNothing

\* A thread that can run does so in the end, and parsing terminates; the
\* owner goes on to its notify and its join.
WorkerFairness ==
    WF_workerVars(Run) /\ WF_workerVars(Notify) /\ WF_workerVars(Join)

WorkerSpec == WorkerInit /\ [][WorkerNext]_workerVars /\ WorkerFairness

(***************************************************************************)
(* Properties.                                                             *)
(***************************************************************************)
WorkerTypeOK ==
    /\ pending \in Sources \cup {None}
    /\ completed \in Completion \cup {None}
    /\ ticket \in Nat
    /\ working \in BOOLEAN
    /\ stopping \in BOOLEAN
    /\ thread \in Thread
    /\ thread.pc \in Parsing => thread.source \in Sources
    /\ caller \in {"free", "submitted", "stopped", "joining", "joined"}

Current == thread.pc \in Parsing /\ thread.current = ticket

\* The latest submission is in exactly one place: waiting, being parsed, or
\* answered.  In particular a result is kept only while nothing newer was
\* submitted, and the busy flag is what it says.
OnePlace ==
    /\ pending # None => completed = None /\ ~Current
    /\ completed # None => ~Current
    /\ working <=> thread.pc \in Parsing
    /\ thread.current <= ticket

\* Cancelling a superseded job makes its prepare step fail; that failure is
\* never reported as the failure of the document.
ErrorsAreTheSources == completed # None => (completed.error <=> completed.source \in Faulty)

Latest ==
    CASE pending # None -> pending
      [] pending = None /\ Current /\ ~stopping -> thread.source
      [] pending = None /\ ~(Current /\ ~stopping) /\ completed # None -> completed.source
      [] OTHER -> None

Abstract == INSTANCE LatestWins
    WITH question <- Latest,
         answer <- IF completed = None THEN "none"
                   ELSE IF completed.error THEN "error" ELSE "ok",
         closed <- stopping

\* The thread, its races with submit() and take() included, looks to the
\* owner like a worker that only knows the latest question.
ImplementsLatestWins == Abstract!Spec

\* The latest submission is answered unless it is superseded or the worker is
\* destroyed: no notification is lost between the predicate and the wait.
LatestIsAnswered ==
    \A n \in 1..MaxTicket :
        ticket = n /\ Latest # None ~> completed # None \/ ticket > n \/ stopping

\* The destructor's join returns, whatever the thread was doing.
StopTerminates == stopping ~> caller = "joined"
=============================================================================
