-------------------------- MODULE Services_proofs ---------------------------
(***************************************************************************)
(* Proofs about the two services beside the preview, each for any files,   *)
(* any limits and any number of edits.                                     *)
(*                                                                         *)
(* Export: its type invariant, and that what the reader is told about an   *)
(* export is what was published.                                           *)
(*                                                                         *)
(* References: its type invariant, and that a row of the index that says   *)
(* "loading" has a request that will be answered.                          *)
(***************************************************************************)
EXTENDS Export, References, SequenceTheorems, FiniteSetTheorems, TLAPS

-----------------------------------------------------------------------------
(***************************************************************************)
(* Export.                                                                 *)
(***************************************************************************)

\* What each step of the thread may rely on: from the layout to the
\* publication the frame is that of the text as it was when the export began;
\* with the publication mutex held nothing has been cancelled, because Cancel
\* takes the mutex too; and success is noted only after the publication.
ExportSteps ==
    /\ job.step \in {"create", "write", "sync", "lock"} \cup Locked => job.frame = job.revision
    /\ job.step \in Locked => ~control.cancelled
    /\ job.step = "flush" => control.published
    /\ job.step # "none" => ~job.success
    /\ temporary => job.step \in {"write", "sync", "lock", "inspect", "replace", "failed"}

\* The inductive invariant.  PublishedAsReported alone is not inductive: that
\* Replace keeps it needs the frame and the absence of a cancel, which the
\* steps before it have established.
ExportInv == ExportTypeOK /\ PublishedAsReported /\ ExportSteps

\* Nothing is exported at first.
LEMMA ExportInitHolds == ExportInit => ExportInv
<1> SUFFICES ASSUME ExportInit PROVE ExportInv
  OBVIOUS
<1>1. 0 \in 0 .. MaxRevision /\ Foreign \in Foreign .. MaxRevision
  BY ExportAssumption DEF Foreign
<1>2. ExportTypeOK
  <2>1. target \in [stamp : {0}, exists : BOOLEAN, shows : {Foreign}]
    BY DEF ExportInit
  <2>2. target \in [stamp : Nat, exists : BOOLEAN, shows : Foreign .. MaxRevision]
    BY <1>1, <2>1
  <2>3. job \in [step : ThreadSteps, revision : 0 .. MaxRevision, frame : Foreign .. MaxRevision,
                seen : [stamp : Nat, exists : BOOLEAN, shows : Foreign .. MaxRevision],
                success : BOOLEAN, cancelled : BOOLEAN]
    BY <1>1, <2>2 DEF ExportInit, ThreadSteps
  <2> QED
    BY <1>1, <2>2, <2>3 DEF ExportInit, ExportTypeOK
<1>3. PublishedAsReported /\ ExportSteps
  BY DEF ExportInit, PublishedAsReported, ExportSteps, Locked
<1> QED
  BY <1>2, <1>3 DEF ExportInv

\* The thread: every step of the job keeps the invariant.
LEMMA ThreadKeeps == ASSUME ExportInv, Thread PROVE ExportInv'
<1> USE ExportAssumption DEF ExportInv, ExportTypeOK, PublishedAsReported, ExportSteps, Goto, Goes,
        JobOnly, Locked, ThreadSteps
<1>1. ASSUME NEW fits \in BOOLEAN, Parse(fits) PROVE ExportInv'
  BY <1>1 DEF Parse
<1>2. CASE Layout
  <2>1. job.revision \in Foreign .. MaxRevision
    BY DEF Foreign
  <2> QED
    BY <1>2, <2>1 DEF Layout
<1>3. CASE Create
  BY <1>3 DEF Create
<1>4. CASE Write
  BY <1>4 DEF Write
<1>5. CASE Sync
  BY <1>5 DEF Sync
<1>6. CASE Lock
  BY <1>6 DEF Lock
<1>7. CASE Inspect
  BY <1>7 DEF Inspect
<1>8. CASE Replace
  <2>1. target' \in [stamp : Nat, exists : BOOLEAN, shows : Foreign .. MaxRevision]
    <3>1. CASE ~job.seen.exists /\ target.exists
      BY <1>8, <3>1 DEF Replace
    <3>2. target.stamp + 1 \in Nat /\ job.frame \in Foreign .. MaxRevision
      OBVIOUS
    <3>3. CASE ~(~job.seen.exists /\ target.exists)
      <4>1. target' = [stamp |-> target.stamp + 1, exists |-> TRUE, shows |-> job.frame]
        BY <1>8, <3>3 DEF Replace, File
      <4> HIDE DEF ExportInv
      <4> QED
        BY <3>2, <4>1
    <3> QED
      BY <3>1, <3>3
  <2>2. CASE job'.step = "failed"
    BY <1>8, <2>1, <2>2 DEF Replace
  <2>3. CASE job'.step = "flush"
    BY <1>8, <2>1, <2>3 DEF Replace
  <2> QED
    BY <1>8, <2>2, <2>3 DEF Replace
<1>9. CASE Flush
  BY <1>9 DEF Flush
<1>10. CASE Fail
  BY <1>10 DEF Fail
<1>11. CASE Failed
  BY <1>11 DEF Failed
<1> QED
  BY <1>1, <1>2, <1>3, <1>4, <1>5, <1>6, <1>7, <1>8, <1>9, <1>10, <1>11 DEF Thread

\* The reader's side, and other programs.
LEMMA OthersKeep ==
    ASSUME ExportInv,
           \/ Edit \/ Cancel \/ PollExport \/ QuitExport \/ Quitted
           \/ \E frame \in Foreign .. MaxRevision : frame <= text /\ Start(frame)
           \/ \E exists \in BOOLEAN : Meddle(exists)
           \/ UNCHANGED exportVars
    PROVE  ExportInv'
<1> USE ExportAssumption DEF ExportInv, ExportTypeOK, PublishedAsReported, ExportSteps, Locked, ThreadSteps
<1>1. CASE Edit
  BY <1>1 DEF Edit
<1>2. CASE Cancel
  BY <1>2 DEF Cancel
<1>3. CASE PollExport
  BY <1>3 DEF PollExport
<1>4. CASE QuitExport
  BY <1>4 DEF QuitExport
<1>5. CASE Quitted
  BY <1>5 DEF Quitted
<1>6. ASSUME NEW frame \in Foreign .. MaxRevision, Start(frame) PROVE ExportInv'
  BY <1>6 DEF Start
<1>7. ASSUME NEW exists \in BOOLEAN, Meddle(exists) PROVE ExportInv'
  BY <1>7 DEF Meddle, File, Foreign
<1>8. CASE UNCHANGED exportVars
  BY <1>8 DEF exportVars
<1> QED
  BY <1>1, <1>2, <1>3, <1>4, <1>5, <1>6, <1>7, <1>8

\* The strengthened invariant is inductive.
THEOREM ExportInvariance == ExportSpec => []ExportInv
<1>1. ExportInv /\ [ExportNext]_exportVars => ExportInv'
  BY ThreadKeeps, OthersKeep DEF ExportNext
<1> QED
  BY ExportInitHolds, <1>1, PTL DEF ExportSpec

\* The types of the export's state.
THEOREM ExportTypeCorrect == ExportSpec => []ExportTypeOK
  BY ExportInvariance, PTL DEF ExportInv

\* The reader is told that an export was cancelled or failed exactly when the
\* target was left alone, and that it was exported exactly when the target was
\* replaced by the text as it was when the export began.
THEOREM ReportsAreTrue == ExportSpec => []PublishedAsReported
  BY ExportInvariance, PTL DEF ExportInv

-----------------------------------------------------------------------------
(***************************************************************************)
(* References.                                                             *)
(***************************************************************************)

\* Requests and answers, as the queues hold them.
RefItems == [path : Files, generation : Nat]

\* The document in the window, as the service knows it.
Sessions == [path : Files, token : Nat, parsed : BOOLEAN, awaited : BOOLEAN]

\* DocumentIndex.
Indexes == [valid : BOOLEAN, token : Nat, path : Files \cup {""}, files : SUBSET Files,
            loading : SUBSET Files, requests : SUBSET Files]

Marks == {"hint", "loading", "answered"}

\* The worker's thread and the request it has taken.
RefThreads == [state : {"waiting", "reading", "parsing", "exited"}, path : Files \cup {""},
            generation : Nat]

\* The thread works on a request of this index.
Fetching == Working /\ worker.generation = generation

\* The types of it all, and that no generation is of the future.
Records ==
    /\ current \in Sessions
    /\ index \in Indexes
    /\ rows \in [index.files -> Marks]
    /\ pending \in Seq(RefItems) /\ completed \in Seq(RefItems)
    /\ generation \in 0 .. MaxGeneration /\ current.token <= generation
    /\ worker \in RefThreads
    /\ worker.generation <= generation /\ (Working => worker.path \in Files)
    /\ stopping \in BOOLEAN /\ timers \subseteq {"request", "poll"}
    /\ IsFiniteSet(index.requests)

\* What MaxQueue bounds: all requests that are not yet taken back.
Load == Len(pending) + Len(completed) + IF Working THEN 1 ELSE 0

\* What is queued is of this index; only the thread may be behind.
OfThisIndex ==
    /\ \A i \in 1 .. Len(pending) : pending[i].generation = generation
    /\ \A i \in 1 .. Len(completed) : completed[i].generation = generation

\* A file that is asked for says that it is being loaded, and is not asked
\* for again.
Awaited(f) == f \in index.loading \ index.requests

\* No file is asked for twice: a second answer would leave the first one's
\* row without a request.
Apart ==
    /\ \A i \in 1 .. Len(pending) : Awaited(pending[i].path)
    /\ \A i \in 1 .. Len(completed) : Awaited(completed[i].path)
    /\ Fetching => Awaited(worker.path)
    /\ index.requests \subseteq index.loading
    /\ \A i, j \in 1 .. Len(pending) : pending[i].path = pending[j].path => i = j
    /\ \A i \in 1 .. Len(pending), j \in 1 .. Len(completed) : pending[i].path # completed[j].path
    /\ Fetching =>
          /\ \A i \in 1 .. Len(pending) : pending[i].path # worker.path
          /\ \A i \in 1 .. Len(completed) : completed[i].path # worker.path

\* A heading is waited for in the document that is being parsed.
HeadingKept == heading # "" => heading = current.path /\ current.awaited /\ ~current.parsed

\* Who answers for a file.
Coming(f) ==
    \/ f \in index.requests /\ "request" \in timers
    \/ /\ "poll" \in timers
       /\ \/ \E i \in 1 .. Len(pending) : pending[i].path = f
          \/ \E i \in 1 .. Len(completed) : completed[i].path = f
          \/ Fetching /\ worker.path = f

\* Every row that is loading will be answered: the strengthening of
\* LoadingIsAnswered.
Promised ==
    index.valid /\ ~stopping /\ ~current.awaited =>
        \A f \in index.files :
            /\ rows[f] = "loading" => f \in index.loading
            /\ f \in index.loading => Coming(f)

\* The inductive invariant.  LoadingIsAnswered alone is not inductive: an answer
\* ends the loading of its row, and Apart is what makes it the only answer.
RefInv == Records /\ Load <= MaxQueue /\ OfThisIndex /\ Apart /\ HeadingKept /\ Promised

\* Records, field by field.
LEMMA RecordsTyped ==
    ASSUME Records
    PROVE  /\ current.path \in Files /\ current.token \in Nat /\ current.token <= generation
           /\ current.parsed \in BOOLEAN /\ current.awaited \in BOOLEAN
           /\ index.valid \in BOOLEAN /\ index.files \subseteq Files
           /\ index.loading \subseteq Files /\ index.requests \subseteq Files
           /\ generation \in Nat /\ generation <= MaxGeneration /\ MaxGeneration \in Nat
           /\ worker.generation \in Nat /\ worker.generation <= generation
           /\ timers \subseteq {"request", "poll"} /\ MaxQueue \in Nat
<1>1. current \in Sessions /\ index \in Indexes /\ worker \in RefThreads
  BY DEF Records
<1>2. /\ current.path \in Files /\ current.token \in Nat
      /\ current.parsed \in BOOLEAN /\ current.awaited \in BOOLEAN
  BY <1>1 DEF Sessions
<1>3. /\ index.valid \in BOOLEAN /\ index.files \subseteq Files
      /\ index.loading \subseteq Files /\ index.requests \subseteq Files
  BY <1>1 DEF Indexes
<1>4. worker.generation \in Nat
  BY <1>1 DEF RefThreads
<1>5. generation \in 0 .. MaxGeneration /\ MaxGeneration \in Nat /\ MaxQueue \in Nat
  BY ReferencesAssumption DEF Records
<1>6. generation \in Nat /\ generation <= MaxGeneration
  BY <1>5
<1> QED
  BY <1>2, <1>3, <1>4, <1>5, <1>6 DEF Records

\* Nothing is listed at first.
LEMMA RefInitFits == RefInit => RefInv
<1> SUFFICES ASSUME RefInit PROVE RefInv
  OBVIOUS
<1>1. /\ current \in [path : Files, token : {0}, parsed : {FALSE}, awaited : {TRUE}]
      /\ index = [valid |-> FALSE, token |-> 0, path |-> "", files |-> {}, loading |-> {}, requests |-> {}]
      /\ rows = <<>> /\ pending = <<>> /\ completed = <<>> /\ generation = 0
      /\ worker = [state |-> "waiting", path |-> "", generation |-> 0]
      /\ stopping = FALSE /\ timers = {} /\ heading = ""
  BY DEF RefInit, Asleep
<1>2. 0 \in 0 .. MaxGeneration /\ MaxQueue \in Nat
  BY ReferencesAssumption
<1>3. rows \in [{} -> Marks]
  <2>1. rows = <<>>
    BY <1>1
  <2> QED
    BY ONLY <2>1
<1>4. pending \in Seq(RefItems) /\ Len(pending) = 0 /\ completed \in Seq(RefItems) /\ Len(completed) = 0
  <2>1. pending = <<>> /\ completed = <<>>
    BY <1>1
  <2> QED
    BY ONLY <2>1
<1>5. /\ current \in Sessions /\ current.token = 0
      /\ index \in Indexes /\ index.files = {} /\ index.requests = {} /\ index.loading = {} /\ ~index.valid
      /\ worker \in RefThreads /\ worker.generation = 0 /\ worker.state = "waiting"
  <2>1. current \in Sessions /\ current.token = 0
    <3>1. PICK p \in Files : current = [path |-> p, token |-> 0, parsed |-> FALSE, awaited |-> TRUE]
      BY <1>1
    <3>2. [path |-> p, token |-> 0, parsed |-> FALSE, awaited |-> TRUE] \in Sessions
      BY DEF Sessions
    <3> QED
      BY <3>1, <3>2
  <2>2. /\ index \in Indexes /\ index.files = {} /\ index.requests = {} /\ index.loading = {}
        /\ ~index.valid
    BY <1>1 DEF Indexes
  <2>3. worker \in RefThreads /\ worker.generation = 0 /\ worker.state = "waiting"
    BY <1>1 DEF RefThreads
  <2> QED
    BY <2>1, <2>2, <2>3
<1>6. ~Working
  BY <1>5 DEF Working
<1>7. Records
  <2>1. current.token <= generation /\ worker.generation <= generation /\ generation \in 0 .. MaxGeneration
    <3>1. current.token = 0 /\ worker.generation = 0 /\ generation = 0 /\ 0 \in 0 .. MaxGeneration
      BY <1>1, <1>2, <1>5
    <3> QED
      BY ONLY <3>1
  <2>2. IsFiniteSet(index.requests) /\ rows \in [index.files -> Marks]
    BY <1>3, <1>5, FS_EmptySet
  <2>3. stopping \in BOOLEAN /\ timers \subseteq {"request", "poll"}
    BY <1>1
  <2> QED
    BY <2>1, <2>2, <2>3, <1>4, <1>5, <1>6 DEF Records
<1>8. Load <= MaxQueue /\ OfThisIndex
  BY <1>2, <1>4, <1>6 DEF Load, OfThisIndex
<1>9. Apart
  <2>1. ~Fetching /\ index.requests \subseteq index.loading
    BY <1>5, <1>6 DEF Fetching
  <2> QED
    BY <2>1, <1>4 DEF Apart
<1>10. HeadingKept /\ Promised
  <2>1. heading = "" /\ ~index.valid
    BY <1>1, <1>5
  <2> QED
    BY <2>1 DEF HeadingKept, Promised
<1> QED
  BY <1>7, <1>8, <1>9, <1>10 DEF RefInv

\* What has nothing in its queues, and a new generation.
LEMMA CancelledFits ==
    ASSUME Records, Cancelled, UNCHANGED <<worker, stopping>>,
           current' \in Sessions,
           current'.token <= generation + 1,
           index' \in Indexes,
           rows' \in [index'.files -> Marks],
           IsFiniteSet(index'.requests), timers' \subseteq {"request", "poll"},
           index'.requests \subseteq index'.loading
    PROVE  Records' /\ (Load <= MaxQueue)' /\ OfThisIndex' /\ Apart'
<1>1. /\ generation < MaxGeneration /\ generation' = generation + 1
      /\ pending' = <<>> /\ completed' = <<>>
  BY DEF Cancelled
<1>2. generation \in 0 .. MaxGeneration /\ MaxGeneration \in Nat
  BY ReferencesAssumption DEF Records
<1>3. generation' \in 0 .. MaxGeneration
  BY <1>1, <1>2
<1>4. /\ worker' = worker /\ worker.generation \in Nat /\ worker.generation <= generation
      /\ Working' = Working
  BY RecordsTyped DEF Working
<1>5. worker'.generation <= generation' /\ worker'.generation # generation'
  BY <1>1, <1>2, <1>4
<1>6. pending' \in Seq(RefItems) /\ completed' \in Seq(RefItems) /\ Len(pending') = 0 /\ Len(completed') = 0
  BY <1>1
<1>7. Records'
  BY <1>1, <1>3, <1>4, <1>5, <1>6 DEF Records
<1>8. (Load <= MaxQueue)'
  BY <1>6, ReferencesAssumption DEF Load
<1>9. ~Fetching'
  BY <1>5 DEF Fetching
<1> QED
  BY <1>6, <1>7, <1>8, <1>9 DEF OfThisIndex, Apart

\* What is invalid has no request of its own left, and says the same rows load.
LEMMA InvalidFits ==
    ASSUME Records, Apart, NEW token \in Nat, NEW path \in Files
    PROVE  LET i == Invalid(token, path) IN
           /\ i \in Indexes
           /\ i.files = index.files /\ i.loading = index.loading
           /\ IsFiniteSet(i.requests) /\ i.requests \subseteq i.loading
           /\ i = index \/ (~i.valid /\ i.requests = {})
<1> DEFINE i == [index EXCEPT !.valid = FALSE, !.requests = {}]
<1>1. /\ i \in Indexes
      /\ i.files = index.files /\ i.loading = index.loading /\ i.requests = {} /\ ~i.valid
  <2>1. index \in Indexes
    BY DEF Records
  <2> QED
    BY <2>1 DEF Indexes
<1> HIDE DEF i
<1> QED
  BY <1>1, FS_EmptySet DEF Records, Apart, Invalid, i

\* Another document, another text, or another name.
LEMMA ChangedFits ==
    ASSUME RefInv, NEW path \in Files, NEW token \in {current.token, current.token + 1},
           Changed(path, token),
           heading' = "" \/ (heading' = path /\ token # current.token)
    PROVE  RefInv'
<1>1. /\ current' = [path |-> path, token |-> token, awaited |-> TRUE,
                     parsed |-> current.parsed /\ token = current.token]
      /\ Cancelled /\ index' = Invalid(token, path)
      /\ timers' = IF index' = index THEN timers ELSE timers \ {"request"}
      /\ UNCHANGED <<rows, worker, stopping>>
  BY DEF Changed
<1>2. Records /\ Apart
  BY DEF RefInv
<1>3. token \in Nat /\ token <= generation + 1
  <2>1. token = current.token \/ token = current.token + 1
    OBVIOUS
  <2>2. current.token \in Nat /\ current.token <= generation /\ generation \in Nat
    BY <1>2, RecordsTyped
  <2> QED
    BY ONLY <2>1, <2>2
<1>4. current' \in Sessions /\ current'.token <= generation + 1
  BY <1>1, <1>2, <1>3, RecordsTyped DEF Sessions
<1>5. /\ index' \in Indexes
      /\ index'.files = index.files
      /\ IsFiniteSet(index'.requests) /\ index'.requests \subseteq index'.loading
  BY <1>1, <1>2, <1>3, InvalidFits
<1>6. rows' \in [index'.files -> Marks] /\ timers' \subseteq {"request", "poll"}
  BY <1>1, <1>2, <1>5 DEF Records
<1>7. Records' /\ (Load <= MaxQueue)' /\ OfThisIndex' /\ Apart'
  BY <1>1, <1>2, <1>4, <1>5, <1>6, CancelledFits
<1>8. HeadingKept' /\ Promised'
  BY <1>1 DEF HeadingKept, Promised
<1> QED
  BY <1>7, <1>8 DEF RefInv

\* A new index.
LEMMA PresentFits ==
    ASSUME RefInv, NEW links \in SUBSET Files, Present(links), Cancelled, UNCHANGED <<worker, stopping>>,
           current' \in Sessions,
           current'.token = current.token, HeadingKept'
    PROVE  RefInv'
<1>1. /\ index' = [valid |-> TRUE, token |-> current.token, path |-> current.path, files |-> links,
                   loading |-> {}, requests |-> {}]
      /\ rows' = [f \in links |-> "hint"] /\ timers' = timers \ {"request"}
  BY DEF Present
<1>2. Records
  BY DEF RefInv
<1>3. index' \in Indexes
      /\ index'.files = links /\ index'.loading = {} /\ index'.requests = {}
  BY <1>1, <1>2, RecordsTyped DEF Indexes
<1>4. rows' \in [links -> Marks] /\ \A f \in links : rows'[f] = "hint"
  <2>1. rows' = [f \in links |-> "hint"]
    BY <1>1
  <2> QED
    BY ONLY <2>1 DEF Marks
<1>5. current'.token <= generation + 1 /\ timers' \subseteq {"request", "poll"}
  <2>1. current'.token = current.token /\ timers' = timers \ {"request"}
    BY <1>1
  <2> QED
    BY <1>2, <2>1, RecordsTyped
<1>6. Records' /\ (Load <= MaxQueue)' /\ OfThisIndex' /\ Apart'
  BY <1>2, <1>3, <1>4, <1>5, FS_EmptySet, CancelledFits
<1>7. Promised'
  BY <1>3, <1>4 DEF Promised
<1> QED
  BY <1>6, <1>7 DEF RefInv

\* A refresh cancels, and lists anew what is parsed; else it waits for the parse.
LEMMA RefreshFits ==
    ASSUME RefInv, NEW links \in SUBSET Files, RefreshIndex(links)
    PROVE  RefInv'
<1>1. Records /\ Apart /\ Cancelled /\ UNCHANGED <<heading, worker, stopping>>
  BY DEF RefInv, RefreshIndex
<1>2. CASE current.parsed
  <2>1. Present(links) /\ UNCHANGED current
    BY <1>2 DEF RefreshIndex
  <2>2. HeadingKept'
    BY <2>1, <1>1 DEF RefInv, HeadingKept
  <2> QED
    BY <2>1, <2>2, <1>1, PresentFits DEF Records
<1>3. CASE ~current.parsed
  <2>1. current' = [current EXCEPT !.awaited = TRUE] /\ UNCHANGED <<index, rows, timers>>
    BY <1>3 DEF RefreshIndex
  <2>2. /\ current' \in Sessions
        /\ current'.token = current.token /\ current'.awaited /\ current'.path = current.path
        /\ current'.parsed = current.parsed
    <3>1. current \in Sessions
      BY <1>1 DEF Records
    <3> QED
      BY <2>1, <3>1 DEF Sessions
  <2>3. current'.token <= generation + 1
    BY <2>2, <1>1, RecordsTyped
  <2>4. Records' /\ (Load <= MaxQueue)' /\ OfThisIndex' /\ Apart'
    BY <2>1, <2>2, <2>3, <1>1, CancelledFits DEF Records, Apart
  <2>5. HeadingKept' /\ Promised'
    BY <2>2, <1>1 DEF RefInv, HeadingKept, Promised
  <2> QED
    BY <2>4, <2>5 DEF RefInv
<1> QED
  BY <1>2, <1>3

\* The parsed document replaces what was listed.
LEMMA ModelReadyFits ==
    ASSUME RefInv, NEW links \in SUBSET Files, ModelReady(links)
    PROVE  RefInv'
<1>1. /\ current' = [current EXCEPT !.parsed = TRUE, !.awaited = FALSE]
      /\ Cancelled /\ Present(links) /\ heading' = "" /\ UNCHANGED <<worker, stopping>>
  BY DEF ModelReady
<1>2. current' \in Sessions
      /\ current'.token = current.token
  <2>1. current \in Sessions
    BY DEF RefInv, Records
  <2> QED
    BY <1>1, <2>1 DEF Sessions
<1>3. HeadingKept'
  BY <1>1 DEF HeadingKept
<1> QED
  BY <1>1, <1>2, <1>3, PresentFits

\* The queues, and what was asked for, stay.
LEMMA RelayoutFits == ASSUME RefInv, Relayout PROVE RefInv'
<1>1. /\ index' = Invalid(current.token, current.path)
      /\ timers' = IF index' = index THEN timers ELSE timers \ {"request"}
      /\ UNCHANGED <<current, rows, heading>>
      /\ UNCHANGED <<pending, completed, generation, worker, stopping>>
  BY DEF Relayout, workerState
<1>2. Records /\ Apart
  BY DEF RefInv
<1>3. /\ index' \in Indexes /\ index'.files = index.files /\ index'.loading = index.loading
      /\ IsFiniteSet(index'.requests) /\ index'.requests \subseteq index'.loading
      /\ index' = index \/ (~index'.valid /\ index'.requests = {})
  BY <1>1, <1>2, RecordsTyped, InvalidFits
<1>4. Load' = Load /\ Fetching' = Fetching /\ Working' = Working
  BY <1>1 DEF Load, Fetching, Working
<1>5. timers' \subseteq {"request", "poll"} /\ (index' = index => timers' = timers)
  BY <1>1, <1>2, RecordsTyped
<1>6. Records'
  BY <1>1, <1>2, <1>3, <1>4, <1>5 DEF Records
<1>7. \A f : Awaited(f) => Awaited(f)'
  BY <1>3 DEF Awaited
<1>8. Apart'
  BY <1>1, <1>2, <1>3, <1>4, <1>7 DEF Apart
<1>9. Promised'
  <2>1. CASE index' = index
    BY <2>1, <1>1, <1>4, <1>5 DEF RefInv, Promised, Coming
  <2>2. CASE ~index'.valid
    BY <2>2 DEF Promised
  <2> QED
    BY <2>1, <2>2, <1>3
<1> QED
  BY <1>1, <1>4, <1>6, <1>8, <1>9 DEF RefInv, OfThisIndex, HeadingKept

\* Expanding a row asks for its file, once.
LEMMA ExpandFits == ASSUME RefInv, NEW f \in Files, ExpandFile(f) PROVE RefInv'
<1>1. /\ f \in index.files /\ index.valid /\ f \notin index.loading
      /\ index' = [index EXCEPT !.loading = @ \cup {f}, !.requests = @ \cup {f}]
      /\ timers' = timers \cup {"request"}
      /\ UNCHANGED <<current, rows, heading>>
      /\ UNCHANGED <<pending, completed, generation, worker, stopping>>
  BY DEF ExpandFile, workerState
<1>2. Records /\ Apart
  BY DEF RefInv
<1>3. /\ index' \in Indexes /\ index'.files = index.files /\ index'.valid = index.valid
      /\ index'.loading = index.loading \cup {f} /\ index'.requests = index.requests \cup {f}
  <2>1. index \in Indexes
    BY <1>2 DEF Records
  <2> QED
    BY <1>1, <2>1 DEF Indexes
<1>4. Load' = Load /\ Fetching' = Fetching /\ Working' = Working
  BY <1>1 DEF Load, Fetching, Working
<1>5. IsFiniteSet(index'.requests)
  <2>1. IsFiniteSet(index.requests)
    BY <1>2 DEF Records
  <2> QED
    BY <2>1, <1>3, FS_AddElement
<1>6. Records'
  <2>1. timers' \subseteq {"request", "poll"}
    BY <1>1, <1>2, RecordsTyped
  <2> QED
    BY <2>1, <1>1, <1>2, <1>3, <1>4, <1>5 DEF Records
<1>7. \A x : Awaited(x) => Awaited(x)'
  BY <1>1, <1>3 DEF Awaited
<1>8. Apart'
  <2>1. index'.requests \subseteq index'.loading
    BY <1>2, <1>3 DEF Apart
  <2> QED
    BY <2>1, <1>1, <1>2, <1>4, <1>7 DEF Apart
<1>9. Promised'
  <2> SUFFICES ASSUME ~stopping, ~current.awaited, NEW x \in index.files
               PROVE  /\ rows[x] = "loading" => x \in index'.loading
                      /\ x \in index'.loading => Coming(x)'
    BY <1>1, <1>3 DEF Promised
  <2>1. /\ rows[x] = "loading" => x \in index.loading
        /\ x \in index.loading => Coming(x)
    BY <1>1 DEF RefInv, Promised
  <2>2. Coming(x) => Coming(x)'
    BY <1>1, <1>3, <1>4 DEF Coming
  <2>3. x = f => Coming(x)'
    BY <1>1, <1>3 DEF Coming
  <2> QED
    BY <2>1, <2>2, <2>3, <1>3
<1> QED
  BY <1>1, <1>4, <1>6, <1>8, <1>9 DEF RefInv, OfThisIndex, HeadingKept

\* SetToSeq lists each member once.
LEMMA ListedOnce ==
    ASSUME NEW S, IsFiniteSet(S)
    PROVE  /\ SetToSeq(S) \in Seq(S)
           /\ \A i, j \in 1 .. Len(SetToSeq(S)) : SetToSeq(S)[i] = SetToSeq(S)[j] => i = j
<1> DEFINE n == Cardinality(S)
           f == SetToSeq(S)
<1>1. n \in Nat /\ ExistsBijection(1..n, S)
  BY FS_CardinalityType
<1>2. f \in [1..n -> S] /\ IsInjective(f)
  <2>1. \E g \in [1..n -> S] : IsInjective(g)
    BY <1>1 DEF ExistsBijection, Bijection, Injection
  <2> QED
    BY <2>1 DEF SetToSeq
<1> HIDE DEF f
<1>3. f \in Seq(S) /\ Len(f) = n /\ DOMAIN f = 1..n
  BY <1>1, <1>2, LenProperties
<1>4. \A i, j \in 1..n : f[i] = f[j] => i = j
  BY <1>2, <1>3 DEF IsInjective
<1> QED
  BY <1>3, <1>4 DEF f

\* What onRequest submits: as much as there is room for, each file once.
Submits(new) ==
    /\ new \in Seq(RefItems) /\ Len(new) \in Nat /\ Load + Len(new) <= MaxQueue
    /\ \A i \in 1 .. Len(new) : new[i].generation = generation /\ new[i].path \in index.requests
    /\ \A i, j \in 1 .. Len(new) : new[i].path = new[j].path => i = j

\* The requests move from the index to the worker's queue.
LEMMA RequestsSent ==
    ASSUME RefInv, OnRequest
    PROVE  \E new :
             LET answered == index.requests \ {new[i].path : i \in 1 .. Len(new)} IN
             /\ Submits(new) /\ pending' = pending \o new
             /\ index' = [index EXCEPT !.requests = {}, !.loading = @ \ answered]
             /\ rows' = [f \in DOMAIN rows |->
                           IF f \in answered THEN "answered"
                           ELSE IF f \in index.requests THEN "loading" ELSE rows[f]]
             /\ timers' = (timers \ {"request"}) \cup IF Len(new) = 0 THEN {} ELSE {"poll"}
<1> DEFINE own == {f \in index.requests : f = current.path /\ current.parsed}
           S == index.requests \ own
           others == SetToSeq(S)
           k == IF Room < Len(others) THEN Room ELSE Len(others)
           sent == SubSeq(others, 1, k)
           new == [i \in DOMAIN sent |-> Item(sent[i])]
           answered == index.requests \ ToSet(sent)
<1>1. /\ pending' = pending \o new
      /\ index' = [index EXCEPT !.requests = {}, !.loading = @ \ answered]
      /\ rows' = [f \in DOMAIN rows |->
                    IF f \in answered THEN "answered"
                    ELSE IF f \in index.requests THEN "loading" ELSE rows[f]]
      /\ timers' = (timers \ {"request"}) \cup IF sent = <<>> THEN {} ELSE {"poll"}
  BY DEF OnRequest
<1>2. IsFiniteSet(S) /\ S \subseteq index.requests /\ index.requests \subseteq Files /\ Records
  BY FS_Subset, RecordsTyped DEF RefInv, Records
<1>3. /\ others \in Seq(S) /\ Len(others) \in Nat
      /\ \A i, j \in 1 .. Len(others) : others[i] = others[j] => i = j
  <2> HIDE DEF S
  <2> QED
    BY <1>2, ListedOnce, LenProperties
<1>4. /\ Load \in Nat /\ Load <= MaxQueue /\ MaxQueue \in Nat /\ generation \in Nat
  <2>1. Len(pending) \in Nat /\ Len(completed) \in Nat
    BY <1>2, LenProperties DEF Records
  <2> QED
    BY <2>1, <1>2, RecordsTyped DEF RefInv, Load
<1>5. Room = MaxQueue - Load
  BY DEF Room, Load
<1> HIDE DEF S, others
<1>6. k \in Nat /\ k <= Len(others) /\ Load + k <= MaxQueue
  BY <1>3, <1>4, <1>5
<1> HIDE DEF k
<1>7. \A i \in 1..k : others[i] \in S
  BY <1>3, <1>6, ElementOfSeq
<1>8. sent \in Seq(S) /\ Len(sent) = k /\ \A i \in 1..k : sent[i] = others[i]
  <2>1. /\ SubSeq(others, 1, k) \in Seq(S)
        /\ Len(SubSeq(others, 1, k)) = IF 1 <= k THEN k - 1 + 1 ELSE 0
        /\ \A i \in 1 .. k - 1 + 1 : SubSeq(others, 1, k)[i] = others[1 + i - 1]
    BY <1>6, <1>7, SubSeqProperties
  <2>2. k - 1 + 1 = k /\ (~(1 <= k) => k = 0) /\ \A i \in 1..k : 1 + i - 1 = i
    BY <1>6
  <2> QED
    BY <2>1, <2>2
<1> HIDE DEF sent
<1>9. DOMAIN sent = 1..k
  BY <1>8, LenProperties
<1>10. new \in Seq(RefItems) /\ Len(new) = k /\ \A i \in 1..k : new[i].path = sent[i] /\ new[i].generation = generation
  <2>1. ASSUME NEW i \in 1..k PROVE /\ new[i] = Item(sent[i]) /\ Item(sent[i]) \in RefItems
                                     /\ Item(sent[i]).path = sent[i] /\ Item(sent[i]).generation = generation
    <3>1. sent[i] \in Files
      BY <1>2, <1>7, <1>8
    <3> QED
      BY <3>1, <1>4, <1>9 DEF Item, RefItems
  <2>2. new \in [1..k -> RefItems]
    BY <2>1, <1>9
  <2> HIDE DEF new
  <2>3. new \in Seq(RefItems) /\ Len(new) = k
    BY <2>2, <1>6, LenProperties
  <2> QED
    BY <2>1, <2>3
<1> HIDE DEF new
<1>11. ToSet(sent) = {new[i].path : i \in 1 .. Len(new)}
  BY <1>9, <1>10 DEF ToSet
<1>12. (sent = <<>>) <=> (Len(new) = 0)
  BY <1>8, <1>10, EmptySeq
<1>13. Submits(new)
  BY <1>2, <1>3, <1>4, <1>6, <1>7, <1>8, <1>10 DEF Submits
<1> QED
  BY <1>1, <1>11, <1>12, <1>13

\* The request timer, with the queue full or not.
LEMMA OnRequestFits == ASSUME RefInv, OnRequest PROVE RefInv'
<1> DEFINE Answers(new) == index.requests \ {new[i].path : i \in 1 .. Len(new)}
<1>1. PICK new :
             /\ Submits(new) /\ pending' = pending \o new
             /\ index' = [index EXCEPT !.requests = {}, !.loading = @ \ Answers(new)]
             /\ rows' = [f \in DOMAIN rows |->
                           IF f \in Answers(new) THEN "answered"
                           ELSE IF f \in index.requests THEN "loading" ELSE rows[f]]
             /\ timers' = (timers \ {"request"}) \cup IF Len(new) = 0 THEN {} ELSE {"poll"}
  BY RequestsSent
<1> DEFINE answered == Answers(new)
           m == Len(pending)
           n == Len(new)
<1>2. /\ Records /\ Apart /\ "request" \in timers
      /\ UNCHANGED <<current, completed, generation, worker, stopping, heading>>
  BY DEF RefInv, OnRequest
<1>3. /\ index' \in Indexes /\ index'.files = index.files /\ index'.valid = index.valid
      /\ index'.loading = index.loading \ answered /\ index'.requests = {}
  <2>1. index \in Indexes
    BY <1>2 DEF Records
  <2> HIDE DEF answered
  <2> QED
    BY <1>1, <2>1 DEF Indexes, answered
<1>4. /\ pending \in Seq(RefItems) /\ new \in Seq(RefItems) /\ m \in Nat /\ n \in Nat
      /\ completed \in Seq(RefItems)
  BY <1>1, <1>2, LenProperties DEF Records, Submits
<1>5. /\ pending' \in Seq(RefItems) /\ Len(pending') = m + n
      /\ \A i \in 1 .. m + n : pending'[i] = IF i <= m THEN pending[i] ELSE new[i - m]
  BY <1>1, <1>4, ConcatProperties
<1> HIDE DEF m, n
<1>6. /\ \A i \in 1..m : i \in 1 .. m + n /\ pending'[i] = pending[i]
      /\ \A i \in 1..n : m + i \in 1 .. m + n /\ pending'[m + i] = new[i]
  <2>1. ASSUME NEW i \in 1..m PROVE i \in 1 .. m + n /\ pending'[i] = pending[i]
    <3>1. i \in 1 .. m + n /\ i <= m
      BY <1>4
    <3> QED
      BY <3>1, <1>5
  <2>2. ASSUME NEW i \in 1..n PROVE m + i \in 1 .. m + n /\ pending'[m + i] = new[i]
    <3> DEFINE k == m + i
    <3>1. k \in 1 .. m + n /\ ~(k <= m) /\ k - m = i
      BY <1>4
    <3> HIDE DEF k
    <3>2. pending'[k] = new[k - m]
      BY <3>1, <1>5
    <3>3. pending'[k] = new[i]
      BY ONLY <3>1, <3>2
    <3> QED
      BY <3>1, <3>3 DEF k
  <2> QED
    BY <2>1, <2>2
<1>7. \A i \in 1 .. m + n : i \in 1..m \/ \E j \in 1..n : i = m + j
  <2> SUFFICES ASSUME NEW i \in 1 .. m + n, i \notin 1..m PROVE \E j \in 1..n : i = m + j
    OBVIOUS
  <2>1. i - m \in 1..n /\ i = m + (i - m)
    BY <1>4
  <2> QED
    BY <2>1
<1>8. Fetching' = Fetching /\ Working' = Working
  BY <1>2 DEF Fetching, Working
<1>9. rows' \in [index'.files -> Marks]
  <2>1. rows \in [index.files -> Marks] /\ DOMAIN rows = index.files
    BY <1>2 DEF Records
  <2>2. \A f \in index.files : (IF f \in answered THEN "answered"
                                ELSE IF f \in index.requests THEN "loading" ELSE rows[f]) \in Marks
    BY <2>1 DEF Marks
  <2> HIDE DEF answered
  <2> QED
    BY <2>1, <2>2, <1>1, <1>3 DEF answered
<1>10. timers' \subseteq {"request", "poll"} /\ ("poll" \in timers => "poll" \in timers')
       /\ (n # 0 => "poll" \in timers')
  BY <1>1, <1>2, RecordsTyped DEF n
<1>11. Records'
  <2>1. IsFiniteSet(index'.requests)
    BY <1>3, FS_EmptySet
  <2> QED
    BY <2>1, <1>2, <1>3, <1>5, <1>8, <1>9, <1>10 DEF Records
<1>12. (Load <= MaxQueue)'
  <2>1. Load + n <= MaxQueue
    BY <1>1 DEF Submits, n
  <2>2. Len(pending') = Len(pending) + n /\ Len(completed') = Len(completed)
    BY <1>2, <1>5 DEF m
  <2>3. Len(pending) \in Nat /\ Len(completed) \in Nat
    BY <1>4, LenProperties
  <2>4. Load' = Load + n
    BY <2>2, <2>3, <1>4, <1>8 DEF Load
  <2> QED
    BY <2>1, <2>4
<1>13. OfThisIndex'
  BY <1>1, <1>2, <1>5, <1>6, <1>7 DEF RefInv, OfThisIndex, Submits, m, n
<1>14. ASSUME NEW f, Awaited(f) PROVE f \in index'.loading \ index'.requests
  BY <1>3, <1>14 DEF Awaited
<1>15. ASSUME NEW i \in 1..n
       PROVE  /\ new[i].path \in index'.loading \ index'.requests
              /\ new[i].path \in index.requests /\ ~Awaited(new[i].path)
  <2>1. new[i].path \in index.requests /\ new[i].path \notin answered
    BY <1>1 DEF Submits, n
  <2>2. new[i].path \in index.loading
    BY <2>1, <1>2 DEF Apart
  <2> HIDE DEF answered
  <2> QED
    BY <2>1, <2>2, <1>3 DEF Awaited
<1>16. Apart'
  <2>1. \A i \in 1..m : Awaited(pending[i].path)
    BY <1>2 DEF Apart, m
  <2>2. ASSUME NEW i \in 1 .. m + n PROVE pending'[i].path \in index'.loading \ index'.requests
    BY <2>1, <1>6, <1>7, <1>14, <1>15
  <2>3. \A i \in 1 .. Len(completed) : Awaited(completed[i].path)
    BY <1>2 DEF Apart
  <2>4. Fetching => Awaited(worker.path)
    BY <1>2 DEF Apart
  <2>5. ASSUME NEW i \in 1 .. m + n, NEW j \in 1 .. m + n, pending'[i].path = pending'[j].path
        PROVE  i = j
    <3>1. CASE i \in 1..m /\ j \in 1..m
      BY <3>1, <2>5, <1>2, <1>6 DEF Apart, m
    <3>2. CASE i \in 1..m /\ j \notin 1..m
      BY <3>2, <2>1, <2>5, <1>6, <1>7, <1>15
    <3>3. CASE i \notin 1..m /\ j \in 1..m
      BY <3>3, <2>1, <2>5, <1>6, <1>7, <1>15
    <3>4. CASE i \notin 1..m /\ j \notin 1..m
      <4>1. PICK p \in 1..n : i = m + p
        BY <3>4, <1>7
      <4>2. PICK q \in 1..n : j = m + q
        BY <3>4, <1>7
      <4>3. new[p].path = new[q].path
        BY <4>1, <4>2, <2>5, <1>6
      <4>4. p = q
        BY <4>3, <1>1 DEF Submits, n
      <4> QED
        BY <4>1, <4>2, <4>4
    <3> QED
      BY <3>1, <3>2, <3>3, <3>4
  <2>6. ASSUME NEW i \in 1 .. m + n, NEW j \in 1 .. Len(completed)
        PROVE  pending'[i].path # completed[j].path
    <3>1. CASE i \in 1..m
      BY <3>1, <1>2, <1>6 DEF Apart, m
    <3>2. CASE i \notin 1..m
      BY <3>2, <2>3, <1>6, <1>7, <1>15
    <3> QED
      BY <3>1, <3>2
  <2>7. ASSUME Fetching, NEW i \in 1 .. m + n PROVE pending'[i].path # worker.path
    <3>1. CASE i \in 1..m
      BY <3>1, <2>7, <1>2, <1>6 DEF Apart, m
    <3>2. CASE i \notin 1..m
      BY <3>2, <2>4, <2>7, <1>6, <1>7, <1>15
    <3> QED
      BY <3>1, <3>2
  <2>8. Fetching => \A i \in 1 .. Len(completed) : completed[i].path # worker.path
    BY <1>2 DEF Apart
  <2>9. \A i \in 1 .. Len(completed) : completed[i].path \in index'.loading \ index'.requests
    BY <2>3, <1>14
  <2>10. Fetching => worker.path \in index'.loading \ index'.requests
    BY <2>4, <1>14
  <2>11. index'.requests \subseteq index'.loading
    BY <1>3
  <2>12. /\ completed' = completed /\ worker' = worker /\ Fetching' = Fetching /\ Len(pending') = m + n
    BY <1>2, <1>5, <1>8
  <2> HIDE DEF answered
  <2>13. /\ \A i \in 1 .. Len(pending') : pending'[i].path \in index'.loading \ index'.requests
         /\ \A i \in 1 .. Len(completed') : completed'[i].path \in index'.loading \ index'.requests
         /\ Fetching' => worker'.path \in index'.loading \ index'.requests
    BY <2>2, <2>9, <2>10, <2>12
  <2>14. /\ \A i, j \in 1 .. Len(pending') : pending'[i].path = pending'[j].path => i = j
         /\ \A i \in 1 .. Len(pending'), j \in 1 .. Len(completed') :
               pending'[i].path # completed'[j].path
         /\ Fetching' =>
              /\ \A i \in 1 .. Len(pending') : pending'[i].path # worker'.path
              /\ \A i \in 1 .. Len(completed') : completed'[i].path # worker'.path
    BY <2>5, <2>6, <2>7, <2>8, <2>12
  <2> QED
    BY <2>11, <2>13, <2>14, <1>2 DEF Apart, Awaited
<1>17. Promised'
  <2> SUFFICES ASSUME index.valid, ~stopping, ~current.awaited, NEW f \in index.files
               PROVE  /\ rows'[f] = "loading" => f \in index'.loading
                      /\ f \in index'.loading => Coming(f)'
    BY <1>2, <1>3 DEF Promised
  <2>1. /\ rows[f] = "loading" => f \in index.loading
        /\ f \in index.loading => Coming(f)
    BY <1>2 DEF RefInv, Promised
  <2>2. rows'[f] = IF f \in answered THEN "answered"
                   ELSE IF f \in index.requests THEN "loading" ELSE rows[f]
    <3>1. DOMAIN rows = index.files
      BY <1>2 DEF Records
    <3> QED
      BY <3>1, <1>1
  <2>3. rows'[f] = "loading" => f \in index'.loading
    <3>1. index.requests \subseteq index.loading
      BY <1>2 DEF Apart
    <3> HIDE DEF answered
    <3> QED
      BY <3>1, <2>1, <2>2, <1>3
  <2>4. ASSUME f \in index'.loading PROVE Coming(f)'
    <3>1. f \in index.loading /\ f \notin answered
      BY <2>4, <1>3
    <3>2. CASE f \in index.requests
      <4>1. PICK i \in 1..n : new[i].path = f
        BY <3>1, <3>2 DEF n
      <4>2. n # 0
        BY <4>1, <1>4
      <4>3. m + i \in 1 .. Len(pending') /\ pending'[m + i].path = f
        BY <4>1, <1>5, <1>6
      <4> QED
        BY <4>2, <4>3, <1>10 DEF Coming
    <3>3. CASE f \notin index.requests
      <4>1. /\ "poll" \in timers
            /\ \/ \E i \in 1..m : pending[i].path = f
               \/ \E i \in 1 .. Len(completed) : completed[i].path = f
               \/ Fetching /\ worker.path = f
        BY <3>1, <3>3, <2>1 DEF Coming, m
      <4>2. (\E i \in 1..m : pending[i].path = f) => \E i \in 1 .. Len(pending') : pending'[i].path = f
        BY <1>5, <1>6
      <4> QED
        BY <4>1, <4>2, <1>2, <1>8, <1>10 DEF Coming
    <3> QED
      BY <3>2, <3>3
  <2> QED
    BY <2>3, <2>4
<1>18. HeadingKept'
  BY <1>2 DEF RefInv, HeadingKept
<1> QED
  BY <1>11, <1>12, <1>13, <1>16, <1>17, <1>18 DEF RefInv

\* The poll takes all answers, and stays armed while the thread has work.
LEMMA PollFits == ASSUME RefInv, PollReferences, ~stopping PROVE RefInv'
<1> DEFINE paths == {r.path : r \in ToSet(completed)}
<1>1. /\ "poll" \in timers /\ completed' = <<>>
      /\ index' = IF index.valid THEN [index EXCEPT !.loading = @ \ (paths \cap index.files)] ELSE index
      /\ rows' = [f \in DOMAIN rows |-> IF index.valid /\ f \in paths THEN "answered" ELSE rows[f]]
      /\ timers' = IF RefBusy(<<>>) THEN timers ELSE timers \ {"poll"}
      /\ UNCHANGED <<current, pending, generation, worker, stopping, heading>>
  BY DEF PollReferences, Answered, Filled
<1>2. Records /\ Apart
  BY DEF RefInv
<1>3. paths = {completed[i].path : i \in 1 .. Len(completed)}
  <2>1. DOMAIN completed = 1 .. Len(completed)
    BY <1>2, LenProperties DEF Records
  <2> QED
    BY <2>1 DEF ToSet
<1> HIDE DEF paths
<1>4. /\ index' \in Indexes /\ index'.files = index.files /\ index'.valid = index.valid
      /\ index'.loading = IF index.valid THEN index.loading \ (paths \cap index.files) ELSE index.loading
      /\ index'.requests = index.requests
  <2>1. index \in Indexes
    BY <1>2 DEF Records
  <2>2. CASE index.valid
    BY <2>1, <2>2, <1>1 DEF Indexes
  <2>3. CASE ~index.valid
    BY <2>1, <2>3, <1>1
  <2> QED
    BY <2>2, <2>3
<1>5. Len(completed') = 0 /\ completed' \in Seq(RefItems)
  <2>1. completed' = <<>>
    BY <1>1
  <2> QED
    BY ONLY <2>1
<1>6. Fetching' = Fetching /\ Working' = Working
  BY <1>1 DEF Fetching, Working
<1>7. rows' \in [index'.files -> Marks]
  <2>1. rows \in [index.files -> Marks] /\ DOMAIN rows = index.files
    BY <1>2 DEF Records
  <2>2. \A f \in index.files : (IF index.valid /\ f \in paths THEN "answered" ELSE rows[f]) \in Marks
    BY <2>1 DEF Marks
  <2> QED
    BY <2>1, <2>2, <1>1, <1>4
<1>8. Records'
  <2>1. timers' \subseteq {"request", "poll"}
    BY <1>1, <1>2, RecordsTyped
  <2> QED
    BY <2>1, <1>1, <1>2, <1>4, <1>5, <1>6, <1>7 DEF Records
<1>9. (Load <= MaxQueue)'
  <2>1. Len(pending) \in Nat /\ Len(completed) \in Nat /\ MaxQueue \in Nat
    BY <1>2, LenProperties, RecordsTyped DEF Records
  <2> QED
    BY <2>1, <1>1, <1>5, <1>6 DEF RefInv, Load
<1>10. OfThisIndex'
  BY <1>1, <1>5 DEF RefInv, OfThisIndex
<1>11. ASSUME NEW f, Awaited(f), f \notin paths PROVE f \in index'.loading \ index'.requests
  BY <1>4, <1>11 DEF Awaited
<1>12. Apart'
  <2>1. ASSUME NEW i \in 1 .. Len(pending)
        PROVE  pending[i].path \in index'.loading \ index'.requests
    BY <1>2, <1>3, <1>11 DEF Apart
  <2>2. Fetching => worker.path \in index'.loading \ index'.requests
    BY <1>2, <1>3, <1>11 DEF Apart
  <2>3. index'.requests \subseteq index'.loading
    <3>1. \A f \in paths : f \notin index.requests
      BY <1>2, <1>3 DEF Apart, Awaited
    <3> QED
      BY <3>1, <1>2, <1>4 DEF Apart
  <2> QED
    BY <2>1, <2>2, <2>3, <1>1, <1>2, <1>5, <1>6 DEF Apart, Awaited
<1>13. Promised'
  <2> SUFFICES ASSUME index.valid, ~current.awaited, NEW f \in index.files
               PROVE  /\ rows'[f] = "loading" => f \in index'.loading
                      /\ f \in index'.loading => Coming(f)'
    BY <1>1, <1>4 DEF Promised
  <2>1. /\ rows[f] = "loading" => f \in index.loading
        /\ f \in index.loading => Coming(f)
    BY DEF RefInv, Promised
  <2>2. rows'[f] = IF f \in paths THEN "answered" ELSE rows[f]
    <3>1. DOMAIN rows = index.files
      BY <1>2 DEF Records
    <3> QED
      BY <3>1, <1>1
  <2>3. index'.loading = index.loading \ (paths \cap index.files)
    BY <1>4
  <2>4. ASSUME f \in index'.loading PROVE Coming(f)'
    <3>1. Coming(f) /\ f \notin paths
      BY <2>1, <2>3, <2>4
    <3>2. CASE f \in index.requests /\ "request" \in timers
      BY <3>2, <1>1, <1>4 DEF Coming
    <3>3. CASE \E i \in 1 .. Len(pending) : pending[i].path = f
      <4>1. pending # <<>>
        BY <3>3, EmptySeq
      <4> QED
        BY <3>3, <4>1, <1>1 DEF Coming, RefBusy
    <3>4. CASE Fetching /\ worker.path = f
      BY <3>4, <1>1, <1>6 DEF Coming, RefBusy, Fetching
    <3> QED
      BY <3>1, <3>2, <3>3, <3>4, <1>3 DEF Coming
  <2> QED
    BY <2>1, <2>2, <2>3, <2>4
<1>14. HeadingKept'
  BY <1>1 DEF RefInv, HeadingKept
<1> QED
  BY <1>8, <1>9, <1>10, <1>12, <1>13, <1>14 DEF RefInv

\* The thread takes the oldest request.
LEMMA BeginFits == ASSUME RefInv, BeginReading PROVE RefInv'
<1>1. /\ worker.state = "waiting" /\ ~stopping /\ pending # <<>>
      /\ worker' = [state |-> "reading", path |-> Head(pending).path, generation |-> generation]
      /\ pending' = Tail(pending)
      /\ UNCHANGED <<current, index, rows, completed, generation, stopping, timers, heading>>
  BY DEF BeginReading
<1>2. Records /\ Apart
  BY DEF RefInv
<1> DEFINE m == Len(pending)
<1>3. pending \in Seq(RefItems) /\ m \in Nat /\ m # 0 /\ completed \in Seq(RefItems)
  BY <1>1, <1>2, LenProperties, EmptySeq DEF Records
<1>4. /\ pending' \in Seq(RefItems) /\ Len(pending') = m - 1
      /\ \A i \in 1 .. m - 1 : pending'[i] = pending[i + 1]
  BY <1>1, <1>3, HeadTailProperties
<1>5. Head(pending) = pending[1] /\ pending[1] \in RefItems /\ 1 \in 1..m
  BY <1>3, ElementOfSeq
<1> HIDE DEF m
<1>6. /\ worker' \in RefThreads /\ worker'.path = pending[1].path /\ worker'.generation = generation
      /\ worker'.state = "reading" /\ worker'.path \in Files
  <2>1. generation \in Nat /\ pending[1].path \in Files
    BY <1>2, <1>5, RecordsTyped DEF RefItems
  <2> QED
    BY <2>1, <1>1, <1>5 DEF RefThreads
<1>7. Working' /\ Fetching' /\ ~Working /\ ~Fetching
  BY <1>1, <1>6 DEF Working, Fetching
<1>8. \A i \in 1 .. m - 1 : i + 1 \in 1..m /\ i + 1 # 1
  BY <1>3
<1>9. \A i \in 1..m : i = 1 \/ \E j \in 1 .. m - 1 : i = j + 1
  <2> SUFFICES ASSUME NEW i \in 1..m, i # 1 PROVE \E j \in 1 .. m - 1 : i = j + 1
    OBVIOUS
  <2>1. i - 1 \in 1 .. m - 1 /\ i = (i - 1) + 1
    BY <1>3
  <2> QED
    BY <2>1
<1>10. Records'
  <2>1. generation <= generation
    BY <1>2, RecordsTyped
  <2> QED
    BY <2>1, <1>1, <1>2, <1>4, <1>6 DEF Records
<1>11. (Load <= MaxQueue)'
  <2>1. Len(completed) \in Nat
    BY <1>3, LenProperties
  <2>2. Load = m + Len(completed) /\ Load <= MaxQueue
    BY <2>1, <1>3, <1>7 DEF Load, m, RefInv
  <2>3. Load' = m - 1 + Len(completed) + 1
    BY <1>1, <1>4, <1>7 DEF Load
  <2> QED
    BY <2>1, <2>2, <2>3, <1>3
<1>12. OfThisIndex'
  BY <1>1, <1>4, <1>8 DEF RefInv, OfThisIndex, m
<1>13. Apart'
  <2>1. /\ \A i \in 1..m : Awaited(pending[i].path)
        /\ \A i, j \in 1..m : pending[i].path = pending[j].path => i = j
        /\ \A i \in 1..m, j \in 1 .. Len(completed) : pending[i].path # completed[j].path
        /\ \A i \in 1 .. Len(completed) : Awaited(completed[i].path)
        /\ index.requests \subseteq index.loading
    BY <1>2 DEF Apart, m
  <2>2. ASSUME NEW i \in 1 .. m - 1
        PROVE  /\ pending'[i] = pending[i + 1] /\ i + 1 \in 1..m
               /\ pending'[i].path \in index.loading \ index.requests
               /\ pending'[i].path # pending[1].path
    BY <2>1, <1>4, <1>5, <1>8 DEF Awaited
  <2>3. ASSUME NEW i \in 1 .. m - 1, NEW j \in 1 .. m - 1, pending'[i].path = pending'[j].path
        PROVE  i = j
    <3>1. i + 1 = j + 1
      BY <2>1, <2>2, <2>3
    <3> QED
      BY <3>1
  <2>4. \A i \in 1 .. m - 1, j \in 1 .. Len(completed) : pending'[i].path # completed[j].path
    BY <2>1, <2>2
  <2>5. /\ \A i \in 1 .. Len(pending') : pending'[i].path \in index'.loading \ index'.requests
        /\ \A i \in 1 .. Len(completed') : completed'[i].path \in index'.loading \ index'.requests
        /\ worker'.path \in index'.loading \ index'.requests
        /\ index'.requests \subseteq index'.loading
    BY <2>1, <2>2, <1>1, <1>4, <1>5, <1>6 DEF Awaited
  <2>6. /\ \A i, j \in 1 .. Len(pending') : pending'[i].path = pending'[j].path => i = j
        /\ \A i \in 1 .. Len(pending'), j \in 1 .. Len(completed') :
              pending'[i].path # completed'[j].path
    BY <2>3, <2>4, <1>1, <1>4
  <2>7. \A i \in 1 .. Len(pending') : pending'[i].path # worker'.path
    BY <2>2, <1>4, <1>6
  <2>8. \A i \in 1 .. Len(completed') : completed'[i].path # worker'.path
    <3>1. \A j \in 1 .. Len(completed) : pending[1].path # completed[j].path
      BY ONLY <2>1, <1>5
    <3> QED
      BY ONLY <3>1, <1>1, <1>6
  <2> QED
    BY <2>5, <2>6, <2>7, <2>8 DEF Apart, Awaited
<1>14. Promised'
  <2>1. ASSUME NEW f, Coming(f) PROVE Coming(f)'
    <3>1. CASE \E i \in 1..m : pending[i].path = f
      <4>1. PICK i \in 1..m : pending[i].path = f
        BY <3>1
      <4>2. CASE i = 1
        BY <2>1, <3>1, <4>1, <4>2, <1>1, <1>6, <1>7 DEF Coming
      <4>3. CASE i # 1
        <5>1. PICK j \in 1 .. m - 1 : i = j + 1
          BY <4>3, <1>9
        <5>2. pending'[j].path = f
          BY <5>1, <4>1, <1>4
        <5> QED
          BY <5>2, <2>1, <1>1, <1>4 DEF Coming
      <4> QED
        BY <4>2, <4>3
    <3>2. CASE ~\E i \in 1..m : pending[i].path = f
      BY <2>1, <3>2, <1>1, <1>7 DEF Coming, m
    <3> QED
      BY <3>1, <3>2
  <2> QED
    BY <2>1, <1>1 DEF RefInv, Promised
<1>15. HeadingKept'
  BY <1>1 DEF RefInv, HeadingKept
<1> QED
  BY <1>10, <1>11, <1>12, <1>13, <1>14, <1>15 DEF RefInv

\* What concerns the worker's queues only.
LEMMA ReadFits == ASSUME RefInv, Read PROVE RefInv'
<1>1. /\ worker.state = "reading" /\ worker' = [worker EXCEPT !.state = "parsing"]
      /\ UNCHANGED <<current, index, rows, pending, completed, generation, stopping, timers, heading>>
  BY DEF Read
<1>2. Records /\ worker \in RefThreads
  BY DEF RefInv, Records
<1>3. /\ worker' \in RefThreads /\ worker'.path = worker.path /\ worker'.generation = worker.generation
      /\ worker'.state = "parsing"
  BY <1>1, <1>2 DEF RefThreads
<1>4. Working /\ Working' /\ Fetching' = Fetching
  BY <1>1, <1>3 DEF Working, Fetching
<1>5. Records'
  BY <1>1, <1>2, <1>3, <1>4 DEF Records
<1>6. Load' = Load
  BY <1>1, <1>4 DEF Load
<1>7. Apart'
  BY <1>1, <1>3, <1>4 DEF RefInv, Apart, Awaited
<1>8. Promised'
  BY <1>1, <1>3, <1>4 DEF RefInv, Promised, Coming
<1> QED
  BY <1>1, <1>5, <1>6, <1>7, <1>8 DEF RefInv, OfThisIndex, HeadingKept

\* An answer to a request that was cancelled is dropped.
LEMMA FinishFits == ASSUME RefInv, Finish PROVE RefInv'
<1> DEFINE answer == [path |-> worker.path, generation |-> worker.generation]
           n == Len(completed)
<1>1. /\ worker.state = "parsing" /\ worker' = Asleep
      /\ completed' = IF stopping \/ worker.generation # generation THEN completed
                      ELSE Append(completed, answer)
      /\ UNCHANGED <<current, index, rows, pending, generation, stopping, timers, heading>>
  BY DEF Finish
<1>2. Records /\ Apart /\ Working
  BY <1>1 DEF RefInv, Working
<1>3. worker' \in RefThreads /\ worker'.generation = 0 /\ ~Working' /\ ~Fetching'
  BY <1>1 DEF Asleep, RefThreads, Working, Fetching
<1>4. answer \in RefItems /\ answer.path = worker.path /\ answer.generation = worker.generation
  BY <1>2, RecordsTyped DEF Records, RefItems
<1> HIDE DEF answer
<1>5. completed \in Seq(RefItems) /\ n \in Nat /\ Len(pending) \in Nat /\ generation \in Nat /\ MaxQueue \in Nat
  BY <1>2, LenProperties, RecordsTyped DEF Records
<1> HIDE DEF n
<1>6. /\ completed' \in Seq(RefItems) /\ Len(completed') \in n .. n + 1
      /\ \A i \in 1..n : completed'[i] = completed[i]
      /\ \A i \in 1 .. Len(completed') : i \in 1..n \/ (Fetching /\ completed'[i] = answer)
      /\ Fetching /\ ~stopping => n + 1 \in 1 .. Len(completed') /\ completed'[n + 1] = answer
  <2>1. CASE stopping \/ worker.generation # generation
    <3>1. completed' = completed /\ ~(Fetching /\ ~stopping)
      BY <2>1, <1>1 DEF Fetching
    <3> QED
      BY <3>1, <1>5 DEF n
  <2>2. CASE ~(stopping \/ worker.generation # generation)
    <3>1. completed' = Append(completed, answer) /\ Fetching
      BY <2>2, <1>1, <1>2 DEF Fetching
    <3>2. /\ completed' \in Seq(RefItems) /\ Len(completed') = n + 1 /\ completed'[n + 1] = answer
          /\ \A i \in 1..n : completed'[i] = completed[i]
      BY <3>1, <1>4, <1>5, AppendProperties DEF n
    <3>3. n + 1 \in n .. n + 1 /\ n + 1 \in 1 .. n + 1 /\ \A i \in 1 .. n + 1 : i \in 1..n \/ i = n + 1
      BY <1>5
    <3> QED
      BY <3>1, <3>2, <3>3
  <2> QED
    BY <2>1, <2>2
<1>7. Records'
  BY <1>1, <1>2, <1>3, <1>5, <1>6 DEF Records
<1>8. (Load <= MaxQueue)'
  <2>1. Load = Len(pending) + n + 1 /\ Load <= MaxQueue
    BY <1>2 DEF Load, RefInv, n
  <2>2. Load' = Len(pending) + Len(completed')
    BY <1>1, <1>3, <1>5, <1>6 DEF Load
  <2> QED
    BY <2>1, <2>2, <1>5, <1>6
<1>9. OfThisIndex'
  BY <1>1, <1>4, <1>6 DEF RefInv, OfThisIndex, Fetching, n
<1>10. Apart'
  <2>1. \A i \in 1 .. Len(completed') : Awaited(completed'[i].path)
    BY <1>2, <1>4, <1>6 DEF Apart, n
  <2>2. \A i \in 1 .. Len(pending), j \in 1 .. Len(completed') : pending[i].path # completed'[j].path
    BY <1>2, <1>4, <1>6 DEF Apart, n
  <2> QED
    BY <2>1, <2>2, <1>1, <1>2, <1>3 DEF Apart, Awaited
<1>11. Promised'
  <2>1. ASSUME NEW f, Coming(f), ~stopping PROVE Coming(f)'
    <3>1. CASE Fetching /\ worker.path = f
      BY <2>1, <3>1, <1>1, <1>4, <1>6 DEF Coming
    <3>2. ASSUME NEW i \in 1..n, completed[i].path = f PROVE Coming(f)'
      <4>1. i \in 1 .. Len(completed') /\ completed'[i].path = f
        BY <3>2, <1>5, <1>6
      <4> QED
        BY <4>1, <2>1, <1>1 DEF Coming
    <3>3. CASE ~(Fetching /\ worker.path = f) /\ ~\E i \in 1..n : completed[i].path = f
      BY <2>1, <3>3, <1>1 DEF Coming, n
    <3> QED
      BY <3>1, <3>2, <3>3
  <2> QED
    BY <2>1, <1>1 DEF RefInv, Promised
<1>12. HeadingKept'
  BY <1>1 DEF RefInv, HeadingKept
<1> QED
  BY <1>7, <1>8, <1>9, <1>10, <1>11, <1>12 DEF RefInv

\* A stopped service promises nothing.
LEMMA StopFits == ASSUME RefInv, Stop PROVE RefInv'
<1>1. /\ stopping' = TRUE /\ pending' = <<>> /\ timers' = {}
      /\ UNCHANGED <<current, index, rows, completed, generation, worker, heading>>
  BY DEF Stop
<1>2. Records /\ Apart
  BY DEF RefInv
<1>3. pending' \in Seq(RefItems) /\ Len(pending') = 0
  BY <1>1, EmptySeq
<1>4. Working' = Working /\ Fetching' = Fetching
  BY <1>1 DEF Working, Fetching
<1>5. Records'
  BY <1>1, <1>2, <1>3, <1>4 DEF Records
<1>6. (Load <= MaxQueue)'
  <2>1. Len(pending) \in Nat /\ Len(completed) \in Nat /\ MaxQueue \in Nat
    BY <1>2, LenProperties, RecordsTyped DEF Records
  <2> QED
    BY <2>1, <1>1, <1>3, <1>4 DEF RefInv, Load
<1>7. Apart'
  BY <1>1, <1>2, <1>3, <1>4 DEF Apart, Awaited
<1>8. OfThisIndex'
  BY <1>1, <1>3, <1>4 DEF RefInv, OfThisIndex
<1>9. HeadingKept'
  BY <1>1 DEF RefInv, HeadingKept
<1>10. Promised'
  BY <1>1 DEF Promised
<1> QED
  BY <1>5, <1>6, <1>7, <1>8, <1>9, <1>10 DEF RefInv

\* The thread ends only when it has nothing in hand.
LEMMA ExitFits == ASSUME RefInv, Exit PROVE RefInv'
<1>1. /\ stopping /\ worker.state = "waiting" /\ worker' = [worker EXCEPT !.state = "exited"]
      /\ UNCHANGED <<current, index, rows, pending, completed, generation, stopping, timers, heading>>
  BY DEF Exit
<1>2. Records /\ Apart /\ worker \in RefThreads
  BY DEF RefInv, Records
<1>3. /\ worker' \in RefThreads /\ worker'.generation = worker.generation /\ worker'.state = "exited"
  BY <1>1, <1>2 DEF RefThreads
<1>4. ~Working /\ ~Working' /\ ~Fetching'
  BY <1>1, <1>3 DEF Working, Fetching
<1>5. Records'
  BY <1>1, <1>2, <1>3, <1>4 DEF Records
<1>6. Load' = Load
  BY <1>1, <1>4 DEF Load
<1>7. Apart'
  BY <1>1, <1>2, <1>4 DEF Apart, Awaited
<1> QED
  BY <1>1, <1>5, <1>6, <1>7 DEF RefInv, OfThisIndex, HeadingKept, Promised

\* One step per action.
LEMMA RefStepKeepsInv == RefInv /\ [RefNext]_refVars => RefInv'
<1> SUFFICES ASSUME RefInv, [RefNext]_refVars PROVE RefInv'
  OBVIOUS
<1>1. CASE UNCHANGED refVars
  <2>1. UNCHANGED <<current, index, rows, pending, completed, generation, worker, stopping, timers, heading>>
    BY <1>1 DEF refVars
  <2> QED
    BY <2>1 DEF RefInv, Records, Load, Working, OfThisIndex, Apart, Fetching, Awaited, HeadingKept,
                Promised, Coming
<1>2. current.token \in Nat
  BY RecordsTyped DEF RefInv
<1>3. ASSUME NEW f \in Files, Change(f) \/ Save(f) \/ ActivateHeading(f) PROVE RefInv'
  <2>1. CASE Change(f) \/ ActivateHeading(f)
    <3>1. current.token + 1 # current.token
      BY <1>2
    <3> QED
      BY <2>1, <3>1, ChangedFits DEF Change, ActivateHeading
  <2>2. CASE Save(f)
    BY <2>2, ChangedFits DEF Save
  <2> QED
    BY <1>3, <2>1, <2>2
<1>4. CASE \E f \in Files : ExpandFile(f)
  BY <1>4, ExpandFits
<1>5. CASE \E links \in SUBSET Files : ModelReady(links) \/ RefreshIndex(links)
  BY <1>5, ModelReadyFits, RefreshFits
<1>6. CASE Relayout \/ OnRequest \/ Stop
  BY <1>6, RelayoutFits, OnRequestFits, StopFits
<1>7. CASE PollReferences /\ ~stopping
  BY <1>7, PollFits
<1>8. CASE BeginReading \/ Read \/ Finish \/ Exit
  BY <1>8, BeginFits, ReadFits, FinishFits, ExitFits
<1> QED
  BY <1>1, <1>3, <1>4, <1>5, <1>6, <1>7, <1>8 DEF RefNext

\* RefInv, that no file is asked for twice and whoever is loading is asked for,
\* is inductive.
THEOREM RefInvariance == RefSpec => []RefInv
<1>1. RefInit => RefInv
  BY RefInitFits
<1>2. RefInv /\ [RefNext]_refVars => RefInv'
  BY RefStepKeepsInv
<1> QED
  BY <1>1, <1>2, PTL DEF RefSpec

\* It holds the session, the index, the queues and the thread to their types.
LEMMA RefInvTypes == RefInv => RefTypeOK
<1> SUFFICES ASSUME RefInv PROVE RefTypeOK
  OBVIOUS
<1>1. Records
  BY DEF RefInv
<1>2. current \in Sessions /\ worker \in RefThreads /\ rows \in [index.files -> Marks]
      /\ generation \in 0 .. MaxGeneration
  BY <1>1 DEF Records
<1>3. current.token \in 0 .. MaxGeneration
  BY <1>1, RecordsTyped
<1>4. current \in [path : Files, token : 0 .. MaxGeneration, parsed : BOOLEAN, awaited : BOOLEAN]
  BY <1>2, <1>3 DEF Sessions
<1>5. DOMAIN rows = index.files /\ \A f \in DOMAIN rows : rows[f] \in {"hint", "loading", "answered"}
  BY <1>2 DEF Marks
<1>6. worker.state \in {"waiting", "reading", "parsing", "exited"}
  BY <1>2 DEF RefThreads
<1> QED
  BY <1>1, <1>2, <1>4, <1>5, <1>6, RecordsTyped DEF RefTypeOK

\* RefTypeOK: the session, the index, the queues and the thread keep their types.
THEOREM RefTypeCorrect == RefSpec => []RefTypeOK
  BY RefInvariance, RefInvTypes, PTL

\* LoadingIsAnswered: a row that says "loading" will be answered, no answer is
\* of an earlier index, and the queues keep within their limit.
THEOREM NoRowLoadsForever == RefSpec => []LoadingIsAnswered
<1>1. RefInv => LoadingIsAnswered
  <2> SUFFICES ASSUME RefInv PROVE LoadingIsAnswered
    OBVIOUS
  <2>1. /\ ToSet(pending) = {pending[i] : i \in 1 .. Len(pending)}
        /\ ToSet(completed) = {completed[i] : i \in 1 .. Len(completed)}
    BY LenProperties DEF RefInv, Records, ToSet
  <2>2. Len(pending) + Len(completed) + (IF Working THEN 1 ELSE 0) <= MaxQueue
    BY DEF RefInv, Load
  <2>3. \A r \in ToSet(pending) \cup ToSet(completed) : r.generation = generation
    BY <2>1 DEF RefInv, OfThisIndex
  <2>4. ASSUME NEW f, Coming(f)
        PROVE  \/ f \in index.requests /\ "request" \in timers
               \/ /\ "poll" \in timers
                  /\ \/ \E r \in ToSet(pending) \cup ToSet(completed) : r.path = f
                     \/ Working /\ worker.path = f /\ worker.generation = generation
    BY <2>1, <2>4 DEF Coming, Fetching
  <2> QED
    BY <2>2, <2>3, <2>4 DEF RefInv, HeadingKept, Promised, LoadingIsAnswered
<1> QED
  BY <1>1, RefInvariance, PTL

=============================================================================
