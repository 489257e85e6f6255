------------------------------- MODULE Export -------------------------------
(***************************************************************************)
(* Exporting the buffer to a PDF: ApplicationExport, ExportCoordinator and *)
(* its thread, ExportPipeline, PdfOutput and PdfFilePublisher.  The reader *)
(* edits, cancels or quits while the thread lays out, writes and publishes *)
(* and while other programs touch the target file.                         *)
(***************************************************************************)
EXTENDS Integers

CONSTANTS
    MaxChanges,    \* bound: changes of the target
    MaxRevision    \* bound: edits of the buffer

ASSUME ExportAssumption == {MaxChanges, MaxRevision} \subseteq Nat

VARIABLES
    text,       \* the revision of the buffer
    target,     \* the file the PDF goes to: its identity, and the revision it shows
    temporary,  \* whether the file beside it exists
    job,        \* the request, PdfTarget and the locals of the thread
    control,    \* ExportControl
    exporter,   \* idle; busy: the thread is joinable; quitting: ~Application waits; gone
    status      \* what the last finished export was reported as

exportVars == <<text, target, temporary, job, control, exporter, status>>

\* A file has an identity (device, inode, size and times): a number here, that
\* every change renews.  Foreign: what another program wrote.
Foreign == -1
File(exists, shows) == [stamp |-> target.stamp + 1, exists |-> exists, shows |-> shows]

\* The steps of the thread; the publication mutex is held in Locked.
Locked == {"inspect", "replace", "flush"}
ThreadSteps == {"parse", "layout", "create", "write", "sync", "lock", "failed", "none"} \cup Locked

ExportInit ==
    /\ text = 0 /\ temporary = FALSE /\ status = "none" /\ exporter = "idle"
    /\ target \in [stamp : {0}, exists : BOOLEAN, shows : {Foreign}]
    /\ job = [step |-> "none", revision |-> 0, seen |-> target, frame |-> Foreign,
              success |-> FALSE, cancelled |-> FALSE]
    /\ control = [cancelled |-> FALSE, published |-> FALSE]

(***************************************************************************)
(* The reader's side.                                                      *)
(***************************************************************************)
Edit ==
    /\ exporter \in {"idle", "busy"}
    /\ text < MaxRevision
    /\ text' = text + 1
    /\ UNCHANGED <<target, temporary, job, control, exporter, status>>

\* startExport and start: the target is inspected, the text is copied, and the
\* frame on display goes along; `frame` is the revision it shows.
Start(frame) ==
    /\ exporter = "idle" /\ target.stamp < MaxChanges
    /\ exporter' = "busy"
    /\ job' = [step |-> "parse", revision |-> text, seen |-> target, frame |-> frame,
               success |-> FALSE, cancelled |-> FALSE]
    /\ control' = [cancelled |-> FALSE, published |-> FALSE]
    /\ UNCHANGED <<text, target, temporary, status>>

\* Mutant of Cancel: the mutex is not taken, nor `published` looked at.
CancelAlways ==
    /\ exporter = "busy"
    /\ control' = [control EXCEPT !.cancelled = TRUE]
    /\ UNCHANGED <<text, target, temporary, job, exporter, status>>

\* cancel: waits for the publication mutex.
Cancel ==
    /\ exporter = "busy" /\ job.step \notin Locked
    /\ control' = [control EXCEPT !.cancelled = @ \/ ~control.published]
    /\ UNCHANGED <<text, target, temporary, job, exporter, status>>

\* pollExport: take() joins a thread that is done.
PollExport ==
    /\ exporter = "busy" /\ job.step = "none"
    /\ exporter' = "idle"
    /\ status' = IF job.success THEN "exported" ELSE IF job.cancelled THEN "cancelled" ELSE "failed"
    /\ UNCHANGED <<text, target, temporary, job, control>>

\* ~Application: cancel, then join.
QuitExport ==
    /\ exporter \in {"idle", "busy"} /\ job.step \notin Locked
    /\ exporter' = "quitting"
    /\ control' = [control EXCEPT !.cancelled = @ \/ ~control.published]
    /\ UNCHANGED <<text, target, temporary, job, status>>

Quitted ==
    /\ exporter = "quitting" /\ job.step = "none"
    /\ exporter' = "gone"
    /\ UNCHANGED <<text, target, temporary, job, control, status>>

(***************************************************************************)
(* The thread.                                                             *)
(***************************************************************************)
Goto(step) == job' = [job EXCEPT !.step = step]

JobOnly == UNCHANGED <<text, target, control, exporter, status>>

\* Any step up to the publication may throw, and does at a checkpoint when
\* cancelled; the publisher's destructor removes the temporary file.
Fail ==
    /\ job.step \notin {"none", "failed", "flush"}
    /\ Goto("failed")
    /\ UNCHANGED temporary /\ JobOnly

\* checkpoint
Goes(from, to) == job.step = from /\ ~control.cancelled /\ Goto(to)

\* run: the frame is taken if it is of this text, profile and font set.
Parse(fits) ==
    /\ \/ fits /\ job.frame = job.revision /\ Goes("parse", "create")
       \/ ~(fits /\ job.frame = job.revision) /\ Goes("parse", "layout")
    /\ UNCHANGED temporary /\ JobOnly

Layout ==
    /\ job.step = "layout" /\ ~control.cancelled
    /\ job' = [job EXCEPT !.step = "create", !.frame = job.revision]
    /\ UNCHANGED temporary /\ JobOnly

Create == Goes("create", "write") /\ temporary' = TRUE /\ JobOnly

\* PdfOutput::write, and fsync; the checkpoint of commit comes before it.
Write == Goes("write", "sync") /\ UNCHANGED temporary /\ JobOnly
Sync == Goes("sync", "lock") /\ UNCHANGED temporary /\ JobOnly

\* commit with the publication mutex.
Lock == Goes("lock", "inspect") /\ UNCHANGED temporary /\ JobOnly

\* inspect again: still absent, or still the same file.
Inspect ==
    /\ job.step = "inspect"
    /\ Goto(IF target.exists = job.seen.exists /\ (target.exists => target.stamp = job.seen.stamp)
            THEN "replace" ELSE "failed")
    /\ UNCHANGED temporary /\ JobOnly

\* rename replaces whatever is there by now; link fails if something is.
Replace ==
    /\ job.step = "replace"
    /\ IF ~job.seen.exists /\ target.exists
       THEN Goto("failed") /\ UNCHANGED <<target, temporary, control>>
       ELSE /\ target' = File(TRUE, job.frame)
            /\ temporary' = FALSE
            /\ control' = [control EXCEPT !.published = TRUE]
            /\ Goto("flush")
    /\ UNCHANGED <<text, exporter, status>>

\* The directory is flushed, the mutex released, the result noted.
Flush ==
    /\ job.step = "flush"
    /\ job' = [job EXCEPT !.step = "none", !.success = TRUE]
    /\ UNCHANGED temporary /\ JobOnly

\* The catch blocks: was it cancelled?
Failed ==
    /\ job.step = "failed"
    /\ temporary' = FALSE
    /\ job' = [job EXCEPT !.step = "none", !.cancelled = control.cancelled]
    /\ JobOnly

\* Another program writes or removes the target.
Meddle(exists) ==
    /\ target.stamp < MaxChanges
    /\ target' = File(exists, Foreign)
    /\ UNCHANGED <<text, temporary, job, control, exporter, status>>

Thread ==
    \/ \E fits \in BOOLEAN : Parse(fits)
    \/ Layout \/ Create \/ Write \/ Sync \/ Lock \/ Inspect \/ Replace \/ Flush \/ Fail \/ Failed

\* The frame on display is of this text or of an earlier one, or there is none.
ExportNext ==
    \/ Edit \/ Cancel \/ PollExport \/ QuitExport \/ Quitted
    \/ \E frame \in Foreign .. MaxRevision : frame <= text /\ Start(frame)
    \/ \E exists \in BOOLEAN : Meddle(exists)
    \/ Thread

\* The thread is scheduled, and ~Application gets past the join.
ExportFairness == WF_exportVars(Thread) /\ WF_exportVars(Quitted)

ExportSpec == ExportInit /\ [][ExportNext]_exportVars /\ ExportFairness

(***************************************************************************)
(* Properties.                                                             *)
(***************************************************************************)
ExportTypeOK ==
    /\ text \in 0 .. MaxRevision /\ temporary \in BOOLEAN
    /\ target \in [stamp : Nat, exists : BOOLEAN, shows : Foreign .. MaxRevision]
    /\ job \in [step : ThreadSteps, revision : 0 .. MaxRevision, frame : Foreign .. MaxRevision,
                seen : [stamp : Nat, exists : BOOLEAN, shows : Foreign .. MaxRevision],
                success : BOOLEAN, cancelled : BOOLEAN]
    /\ control \in [cancelled : BOOLEAN, published : BOOLEAN]
    /\ exporter \in {"idle", "busy", "quitting", "gone"}
    /\ status \in {"none", "exported", "cancelled", "failed"}

\* A cancel that took effect means that nothing was published, and nothing is
\* published after it: the reader is told that the export was cancelled or
\* failed exactly when the target was left alone, and that it was exported
\* exactly when the target was replaced by the text as it was when the export
\* began. No temporary file outlives the thread.
PublishedAsReported ==
    /\ ~(control.cancelled /\ control.published)
    /\ control.published => job.frame = job.revision /\ job.step \in {"flush", "none"}
    /\ job.step = "none" => (job.success <=> control.published) /\ ~temporary
    /\ exporter = "idle" => job.step = "none" /\ (status = "exported" <=> control.published)
=============================================================================
