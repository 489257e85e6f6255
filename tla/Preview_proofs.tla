--------------------------- MODULE Preview_proofs ---------------------------
(***************************************************************************)
(* Proofs about the parser thread and about the live preview that it       *)
(* serves. First the thread, for any set of snapshots and any number of    *)
(* submissions: its type invariant, the place of the latest submission,    *)
(* the honesty of published errors, and that it implements LatestWins.     *)
(* Then the preview, for any texts, profiles, widths and bounds: whatever  *)
(* the parser thread, the timers and deliveries under an error box do in   *)
(* between, an interactive preview shows the session's own text, a cached  *)
(* model is of that text, and no answer of the parser is forgotten.        *)
(***************************************************************************)
EXTENDS Preview, TLAPS

-----------------------------------------------------------------------------
(***************************************************************************)
(* The parser thread (ParserWorker).                                       *)
(***************************************************************************)

\* A job that was cancelled stays cancelled, and one that was not and has been
\* prepared carries the outcome of its source; the owner submits nothing while
\* it destroys the worker.
Honest ==
    /\ completed # None => (completed.error <=> completed.source \in Faulty)
    /\ thread.pc = "finishing" /\ ~Cancelled => (thread.error <=> thread.source \in Faulty)
    /\ thread.pc = "preparing" => ~thread.error
    /\ stopping => caller \notin {"free", "submitted"}

\* The inductive invariant.  OnePlace alone is not inductive: that Finish keeps
\* it needs the types, that it keeps ErrorsAreTheSources needs Honest.
WorkerInv == WorkerTypeOK /\ OnePlace /\ Honest

LEMMA InitHolds == WorkerInit => WorkerInv
<1> SUFFICES ASSUME WorkerInit PROVE WorkerInv
  OBVIOUS
<1>1. WorkerTypeOK
  BY WorkerAssumption DEF WorkerInit, WorkerTypeOK, Parsing, Thread
<1>2. OnePlace
  BY DEF WorkerInit, OnePlace, Current, Parsing
<1>3. Honest
  BY DEF WorkerInit, Honest
<1> QED
  BY <1>1, <1>2, <1>3 DEF WorkerInv

\* The steps of the worker for an owner that submits as often as it likes.
WorkerStep == (\E s \in Sources : Submit(s)) \/ WorkerNext

LEMMA BoundedStep == [WorkerNext]_workerVars => [WorkerStep]_workerVars
  BY DEF WorkerStep

\* The type invariant and the place of the latest submission are preserved by
\* every step of the owner and of the thread.
LEMMA StepKeepsPlace ==
    ASSUME WorkerTypeOK, OnePlace, [WorkerStep]_workerVars
    PROVE  WorkerTypeOK' /\ OnePlace'
<1> USE WorkerAssumption DEF WorkerTypeOK, OnePlace, Current, Parsing, Thread, Completion
<1>1. CASE \E s \in Sources : Submit(s)
  BY <1>1 DEF Submit
<1>2. CASE Take
  BY <1>2 DEF Take
<1>3. CASE Stop
  BY <1>3 DEF Stop
<1>4. CASE Notify
  BY <1>4 DEF Notify
<1>5. CASE Join
  BY <1>5 DEF Join
<1>6. CASE Exit
  BY <1>6 DEF Exit
<1>7. CASE Begin
  BY <1>7 DEF Begin
<1>8. CASE Sleep
  BY <1>8 DEF Sleep
<1>9. CASE Parse
  <2>1. thread.pc = "parsing" /\ thread.source \in Sources
    BY <1>9 DEF Parse
  <2>2. PICK pc \in {"preparing", "finishing"}, error \in BOOLEAN : Goto(pc, error)
    BY <1>9 DEF Parse
  <2>3. /\ thread' = [thread EXCEPT !.pc = pc, !.error = error]
        /\ UNCHANGED <<pending, completed, ticket, working, stopping, caller>>
    BY <2>2 DEF Goto
  <2>4. /\ thread' \in Thread /\ thread'.pc \in Parsing
        /\ thread'.source = thread.source /\ thread'.current = thread.current
    BY <2>1, <2>3
  <2> QED
    BY <2>1, <2>3, <2>4
<1>10. CASE Prepare
  BY <1>10 DEF Prepare, Goto, Cancelled
<1>11. CASE Finish
  BY <1>11 DEF Finish, Cancelled
<1>12. CASE WakeForNothing
  BY <1>12 DEF WakeForNothing
<1>13. CASE UNCHANGED workerVars
  BY <1>13 DEF workerVars
<1> QED
  BY <1>1, <1>2, <1>3, <1>4, <1>5, <1>6, <1>7, <1>8, <1>9, <1>10, <1>11, <1>12, <1>13
  DEF WorkerStep, WorkerNext, SubmitAny, Run

\* A published error is the source's own: cancellation can only be observed by
\* a job that will not publish.
LEMMA StepKeepsHonest ==
    ASSUME WorkerInv, [WorkerStep]_workerVars
    PROVE  Honest'
<1> USE WorkerAssumption
    DEF WorkerInv, WorkerTypeOK, OnePlace, Honest, Current, Cancelled, Parsing, Thread, Completion
<1>1. CASE \E s \in Sources : Submit(s)
  BY <1>1 DEF Submit
<1>2. CASE Take
  BY <1>2 DEF Take
<1>3. CASE Stop
  BY <1>3 DEF Stop
<1>4. CASE Notify
  BY <1>4 DEF Notify
<1>5. CASE Join
  BY <1>5 DEF Join
<1>6. CASE Exit
  BY <1>6 DEF Exit
<1>7. CASE Begin
  BY <1>7 DEF Begin
<1>8. CASE Sleep
  BY <1>8 DEF Sleep
<1>9. CASE Parse
  BY <1>9 DEF Parse, Goto
<1>10. CASE Prepare
  BY <1>10 DEF Prepare, Goto
<1>11. CASE Finish
  BY <1>11 DEF Finish
<1>12. CASE WakeForNothing
  BY <1>12 DEF WakeForNothing
<1>13. CASE UNCHANGED workerVars
  BY <1>13 DEF workerVars
<1> QED
  BY <1>1, <1>2, <1>3, <1>4, <1>5, <1>6, <1>7, <1>8, <1>9, <1>10, <1>11, <1>12, <1>13
  DEF WorkerStep, WorkerNext, SubmitAny, Run

LEMMA StepKeepsWorkerInv == ASSUME WorkerInv, [WorkerStep]_workerVars PROVE WorkerInv'
  BY StepKeepsPlace, StepKeepsHonest DEF WorkerInv

\* WorkerInv, from which the rest follows, is inductive.
THEOREM WorkerInvariance == WorkerSpec => []WorkerInv
<1>1. WorkerInv /\ [WorkerNext]_workerVars => WorkerInv'
  BY BoundedStep, StepKeepsWorkerInv
<1> QED
  BY InitHolds, <1>1, PTL DEF WorkerSpec

\* The types of the worker's state.
THEOREM WorkerTypeCorrect == WorkerSpec => []WorkerTypeOK
  BY WorkerInvariance, PTL DEF WorkerInv

\* At any time the latest submission waits, is being parsed, or is answered:
\* a superseded result is never kept.
THEOREM LatestInOnePlace == WorkerSpec => []OnePlace
  BY WorkerInvariance, PTL DEF WorkerInv

\* No published error is the echo of a cancellation.
THEOREM OnlyHonestErrors == WorkerSpec => []ErrorsAreTheSources
<1>1. WorkerInv => ErrorsAreTheSources
  BY DEF WorkerInv, Honest, ErrorsAreTheSources
<1> QED
  BY WorkerInvariance, <1>1, PTL

(***************************************************************************)
(* The refinement of LatestWins.                                           *)
(***************************************************************************)
LEMMA InitRefines == WorkerInit => Abstract!Init
  BY WorkerAssumption DEF WorkerInit, Abstract!Init, Latest, Current, Parsing

LEMMA StepRefines ==
    ASSUME WorkerInv, [WorkerNext]_workerVars
    PROVE  [Abstract!Next]_Abstract!vars
<1> USE WorkerAssumption
    DEF WorkerInv, WorkerTypeOK, OnePlace, Honest, Latest, Current, Cancelled, Parsing, Thread,
        Completion, Abstract!Next, Abstract!vars
<1>1. CASE SubmitAny
  BY <1>1 DEF SubmitAny, Submit, Abstract!Ask, Stop
<1>2. CASE Take
  BY <1>2 DEF Take, Abstract!Take
<1>3. CASE Stop
  BY <1>3 DEF Stop, Abstract!Close
<1>4. CASE Notify
  BY <1>4 DEF Notify
<1>5. CASE Join
  BY <1>5 DEF Join
<1>6. CASE Exit
  BY <1>6 DEF Exit
<1>7. CASE Begin
  BY <1>7 DEF Begin
<1>8. CASE Sleep
  BY <1>8 DEF Sleep
<1>9. CASE Parse
  <2>1. PICK pc \in {"preparing", "finishing"}, error \in BOOLEAN : Goto(pc, error)
    BY <1>9 DEF Parse
  <2>2. thread'.pc \in {"preparing", "finishing"} /\ thread'.current = thread.current
        /\ thread'.source = thread.source
    BY <2>1 DEF Goto
  <2>3. UNCHANGED <<pending, completed, ticket, stopping>>
    BY <2>1 DEF Goto
  <2> QED
    BY <1>9, <2>2, <2>3 DEF Parse
<1>10. CASE Prepare
  BY <1>10 DEF Prepare, Goto
<1>11. CASE Finish
  BY <1>11 DEF Finish, Abstract!Answer
<1>12. CASE WakeForNothing
  BY <1>12 DEF WakeForNothing
<1>13. CASE UNCHANGED workerVars
  BY <1>13 DEF workerVars
<1> QED
  BY <1>1, <1>2, <1>3, <1>4, <1>5, <1>6, <1>7, <1>8, <1>9, <1>10, <1>11, <1>12, <1>13
  DEF WorkerNext, Run

\* The worker implements the abstract one: every answer the owner can take is
\* the answer to its latest question.
THEOREM WorkerRefinement == WorkerSpec => ImplementsLatestWins
<1>1. WorkerInv /\ [WorkerNext]_workerVars => [Abstract!Next]_Abstract!vars
  BY StepRefines
<1> QED
  BY WorkerInvariance, InitRefines, <1>1, PTL
  DEF WorkerSpec, ImplementsLatestWins, Abstract!Spec

-----------------------------------------------------------------------------
(***************************************************************************)
(* The live preview (Preview).                                             *)
(***************************************************************************)

(***************************************************************************)
(* The inductive invariant.                                                *)
(***************************************************************************)
\* The session is within the bounds, and the worker is not being destroyed.
Bounded ==
    /\ session.document \in 1..MaxDocument /\ session.revision \in 0..MaxRevision
    /\ ~stopping /\ caller \in {"free", "submitted"}

\* A snapshot of an earlier state of session s, or of s itself.
Past(source, s) ==
    \/ source.token[1] < s.document
    \/ source.token[1] = s.document /\ source.token[2] < s.revision
    \/ source = Snapshot(s)

Snapshots == [token : Tokens, text : Texts, kind : Kinds]

Remembered(source, s) == source \in Snapshots /\ Past(source, s)

\* Wherever a snapshot is on its way, no token ahead of the session exists.
AllPast ==
    /\ pending # None => Remembered(pending, session)
    /\ thread.pc \in Parsing => Remembered(thread.source, session)
    /\ completed # None => Remembered(completed.source, session)
    /\ view.model # None => Remembered(view.model, session)

\* The frame on the screen and the expected token are of document d.
Local(h, d) == h.shown # None => h.shown.token[1] = d /\ h.expected[1] = d

\* What an interactive host shows is the coordinator's frame.
Drawn(v, h) ==
    /\ h.shown # None
    /\ v.frame = h.shown
    /\ h.shown.profile = v.profile
    /\ Continuous(h.shown) => h.shown.width = h.flow

PaneInv ==
    /\ Local(host, session.document)
    /\ host.active => Drawn(view, host)
    /\ host.active /\ "warning" \notin boxes => host.shown.token = Token(session)

\* Past makes CachedModelIsOfThisText inductive; Drawn and Local do it for
\* InteractiveIsCurrent: that a kept frame is the one on the screen is known only
\* because the two were equal before.
PreviewInv == TypeOK /\ WorkerInv /\ Bounded /\ AllPast /\ PaneInv /\ AnswerIsAwaited

(***************************************************************************)
(* Sessions and snapshots.                                                 *)
(***************************************************************************)
LEMMA SnapshotFacts ==
    ASSUME NEW s \in Session
    PROVE  /\ Snapshot(s) \in Snapshots
           /\ Token(s) \in Tokens /\ Token(s)[1] = s.document /\ Token(s)[2] = s.revision
           /\ Snapshot(s).token = Token(s)
           /\ s.document \in Nat /\ s.revision \in Nat
  BY DEF Session, Snapshot, Snapshots, Token, Tokens

LEMMA SnapshotIsSource ==
    ASSUME NEW s \in Session, s.document \in 1..MaxDocument, s.revision \in 0..MaxRevision
    PROVE  Snapshot(s) \in Sources
<1>1. Snapshot(s) \in [token : (1..MaxDocument) \X (0..MaxRevision), text : Texts, kind : Kinds]
  BY DEF Session, Snapshot, Token
<1> QED
  BY <1>1, SourcesAssumption

\* The tokens of one document only grow, and every change of what is parsed
\* takes a new one: then what was past stays past.
Grows(s, t) ==
    /\ t \in Session
    /\ \/ t.document > s.document
       \/ t.document = s.document /\ t.revision > s.revision
       \/ Snapshot(t) = Snapshot(s)

LEMMA PastStays ==
    ASSUME NEW s \in Session, NEW t, Grows(s, t), NEW source, Remembered(source, s)
    PROVE  Remembered(source, t)
<1>1. /\ s.document \in Nat /\ s.revision \in Nat /\ t.document \in Nat /\ t.revision \in Nat
      /\ source \in Snapshots /\ source.token[1] \in Nat /\ source.token[2] \in Nat
  BY DEF Grows, Session, Remembered, Snapshots, Tokens
<1>2. /\ Snapshot(s).token[1] = s.document /\ Snapshot(s).token[2] = s.revision
      /\ Snapshot(t).token[1] = t.document /\ Snapshot(t).token[2] = t.revision
  BY DEF Snapshot, Token
<1>3. Past(source, t)
  <2>1. CASE t.document > s.document
    BY <1>1, <1>2, <2>1 DEF Remembered, Past
  <2>2. CASE t.document = s.document /\ t.revision > s.revision
    BY <1>1, <1>2, <2>2 DEF Remembered, Past
  <2>3. CASE Snapshot(t) = Snapshot(s)
    BY <1>1, <1>2, <2>3 DEF Remembered, Past
  <2> QED
    BY <2>1, <2>2, <2>3 DEF Grows
<1> QED
  BY <1>1, <1>3 DEF Remembered

LEMMA EditGrows ==
    ASSUME session \in Session, NEW t \in Texts, t # session.text
    PROVE  LET s == Edited(session, t)
           IN  /\ Grows(session, s) /\ s.document = session.document
               /\ s.revision = session.revision + 1
<1>1. session.revision \in Nat /\ session.revision + 1 \in Nat
      /\ session.revision + 1 > session.revision
  BY DEF Session
<1> DEFINE n == session.revision + 1
           s == [session EXCEPT !.text = t, !.revision = n]
<1>2. Edited(session, t) = s
  BY DEF Edited
<1> HIDE DEF n
<1>3. n \in Nat
  BY <1>1 DEF n
<1>4. s \in Session /\ s.document = session.document /\ s.revision = n
  BY <1>3 DEF Session
<1> HIDE DEF s
<1> QED
  BY <1>1, <1>2, <1>4 DEF Grows, n

LEMMA SaveGrows ==
    ASSUME session \in Session, NEW p \in Paths
    PROVE  LET s == MarkedSaved(session, session, p, [version |-> 0, text |-> session.text])
           IN  /\ Grows(session, s) /\ s.document = session.document
               /\ s.revision \in {session.revision, session.revision + 1}
<1> DEFINE n == IF session.kind = Kind[p] THEN session.revision ELSE session.revision + 1
           id == [version |-> 0, text |-> session.text]
           s == [session EXCEPT !.baseline = session.text, !.revision = n,
                                !.path = p, !.kind = Kind[p], !.file = id]
<1>1. /\ session.revision \in Nat /\ session.revision + 1 \in Nat
      /\ session.revision + 1 > session.revision /\ n \in Nat
      /\ n \in {session.revision, session.revision + 1}
      /\ (n = session.revision => session.kind = Kind[p])
  <2>1. session.revision \in Nat
    BY DEF Session
  <2>2. session.revision + 1 \in Nat /\ session.revision + 1 > session.revision
    BY <2>1
  <2> QED
    BY <2>1, <2>2
<1>2. MarkedSaved(session, session, p, id) = s
  BY DEF MarkedSaved
<1>3. id \in Identity /\ Kind[p] \in Kinds /\ session.text \in Texts
  BY SessionAssumption DEF Identity, Session
<1> HIDE DEF n, id
<1>4. /\ s \in Session /\ s.document = session.document /\ s.revision = n
      /\ s.text = session.text /\ s.kind = Kind[p]
  BY <1>1, <1>3 DEF Session
<1> HIDE DEF s
<1>5. Grows(session, s)
  BY <1>1, <1>4 DEF Grows, Snapshot, Token
<1> QED
  BY <1>1, <1>2, <1>4, <1>5 DEF id

LEMMA OpenGrows ==
    ASSUME session \in Session, NEW p \in Paths, NEW t \in Texts
    PROVE  LET s == Replaced(session, p, [version |-> 0, text |-> t])
           IN  /\ Grows(session, s) /\ s.document = session.document + 1 /\ s.revision = 0
<1> DEFINE id == [version |-> 0, text |-> t]
           n == session.document + 1
           s == [document |-> n, revision |-> 0, text |-> t,
                 baseline |-> t, path |-> p, kind |-> Kind[p], file |-> id]
<1>1. n \in Nat /\ n > session.document /\ id \in Identity /\ Kind[p] \in Kinds
  BY SessionAssumption DEF Session, Identity
<1>2. Replaced(session, p, id) = s
  BY DEF Replaced
<1> HIDE DEF id, n
<1>3. s \in Session /\ s.document = n /\ s.revision = 0
  BY <1>1 DEF Session
<1> HIDE DEF s
<1> QED
  BY <1>1, <1>2, <1>3 DEF Grows, id, n

(***************************************************************************)
(* The pane.                                                               *)
(***************************************************************************)
\* A new expectation clears the frame of another document.
LEMMA ExpectFacts ==
    ASSUME NEW s \in Session, NEW h \in Host, NEW d, Local(h, d)
    PROVE  LET e == Expect(h, Token(s))
           IN  /\ e \in Host /\ Local(e, s.document) /\ ~e.active
               /\ e.expected = Token(s) /\ e.requested = None
               /\ e.flow = h.flow /\ e.laid = h.laid
<1>1. Token(s) \in Tokens /\ Token(s)[1] = s.document
  BY SnapshotFacts
<1> DEFINE k == Token(s)
           sh == IF k[1] # h.expected[1] THEN None ELSE h.shown
           e == [h EXCEPT !.expected = k, !.requested = None, !.active = FALSE, !.shown = sh]
<1>2. Expect(h, Token(s)) = e
  BY DEF Expect
<1> HIDE DEF k
<1>3. k \in Tokens /\ k[1] = s.document
  BY <1>1 DEF k
<1>4. /\ sh \in Key \cup {None}
      /\ (sh # None => h.shown # None /\ sh = h.shown /\ h.expected[1] = k[1])
  BY DEF Host
<1> HIDE DEF sh
<1>5. /\ e \in Host /\ e.shown = sh /\ e.expected = k /\ e.requested = None /\ ~e.active
      /\ e.flow = h.flow /\ e.laid = h.laid
  BY <1>3, <1>4 DEF Host
<1> HIDE DEF e
<1> QED
  BY <1>2, <1>3, <1>4, <1>5 DEF Local, k

\* Presenting a frame that was asked for in this state: either it is shown and
\* drawn, or the host stays inactive.
LEMMA PresentFacts ==
    ASSUME session \in Session, NEW h \in Host, Local(h, session.document), NEW key \in Key,
           key.token = Token(session)
    PROVE  LET w == ExpectLayout(Expect(h, Token(session)), key)
               q == Present(w, key)
           IN  /\ w \in Host /\ Local(w, session.document) /\ ~w.active /\ w.flow = h.flow
               /\ q \in Host /\ Local(q, session.document) /\ q.flow = h.flow
               /\ q.active =>
                     /\ q.shown = key
                     /\ Continuous(key) => key.width = q.flow
<1> DEFINE e == Expect(h, Token(session))
           w == [e EXCEPT !.expected = key.token, !.requested = key, !.active = FALSE]
           r == [w EXCEPT !.shown = key, !.active = TRUE]
<1>1. e \in Host /\ Local(e, session.document) /\ e.expected = Token(session) /\ e.flow = h.flow
  BY ExpectFacts
<1>2. ExpectLayout(Expect(h, Token(session)), key) = w
  BY DEF ExpectLayout
<1> HIDE DEF e
<1>3. /\ w \in Host /\ w.shown = e.shown /\ w.expected = key.token /\ ~w.active
      /\ w.flow = h.flow
  BY <1>1 DEF Host, Key
<1>4. Local(w, session.document)
  BY <1>1, <1>3 DEF Local
<1> HIDE DEF w
<1>5. /\ r \in Host /\ r.shown = key /\ r.expected = key.token /\ r.flow = h.flow
  BY <1>3 DEF Host
<1>6. Local(r, session.document)
  BY <1>5, SnapshotFacts DEF Local
<1> HIDE DEF r
<1>7. \/ Present(w, key) = w
      \/ Present(w, key) = r /\ ~(key.profile \notin Paged /\ key.width # w.flow)
  BY DEF Present, r
<1>8. Continuous(key) /\ ~(key.profile \notin Paged /\ key.width # w.flow) => key.width = h.flow
  BY <1>3 DEF Continuous
<1>9. \/ Present(w, key) = w
      \/ Present(w, key) = r /\ (Continuous(key) => key.width = h.flow)
  BY <1>7, <1>8
<1>10. CASE Present(w, key) = w
  BY <1>2, <1>3, <1>4, <1>10
<1>11. CASE Present(w, key) = r /\ (Continuous(key) => key.width = h.flow)
  BY <1>2, <1>3, <1>4, <1>5, <1>6, <1>11
<1> QED
  BY <1>9, <1>10, <1>11

\* After any relayout, an interactive host shows the coordinator's frame of the
\* session's token.
LEMMA RelayoutKeeps ==
    ASSUME session \in Session, NEW v \in View, NEW h \in Host, NEW width \in Widths,
           Local(h, session.document), h.active /\ Kept(v) => Drawn(v, h),
           Relayout(v, h, width)
    PROVE  /\ view' \in View /\ host' \in Host
           /\ view'.model = v.model /\ view'.profile = v.profile
           /\ Local(host', session.document)
           /\ host'.active => Drawn(view', host') /\ host'.shown.token = Token(session)
<1> DEFINE sized == [v EXCEPT !.width = width]
           g == v.generation + 1
           kw == IF v.profile \in Paged THEN 0 ELSE width
           key == [token |-> Token(session), profile |-> v.profile, generation |-> g,
                   width |-> kw]
           asked == [sized EXCEPT !.requested = key, !.generation = g]
           laid == [asked EXCEPT !.frame = key]
           waiting == ExpectLayout(Expect(h, Token(session)), key)
<1>1. /\ sized \in View /\ sized.model = v.model /\ sized.profile = v.profile
      /\ sized.frame = v.frame /\ sized.generation = v.generation
  BY DEF View
<1>2. g \in Nat /\ kw \in Widths \cup {0} /\ Token(session) \in Tokens /\ v.profile \in Profiles
      /\ Token(session)[1] = session.document
  BY SnapshotFacts DEF View
<1>3. \/ Kept(v) /\ view' = sized /\ host' = h
      \/ view' = sized /\ host' = Expect(h, Token(session))
      \/ view' = laid /\ host' = Present(waiting, key)
      \/ view' = asked /\ host' = waiting
  <2>1. asked = [sized EXCEPT !.requested = key, !.generation = sized.generation + 1]
    BY <1>1
  <2> QED
    BY <2>1 DEF Relayout
<1> HIDE DEF g, kw, sized
<1>4. key \in Key /\ key.token = Token(session) /\ key.profile = v.profile /\ key # None
  <2>1. key \in Key
    BY <1>2 DEF Key
  <2> QED
    BY <2>1, SourcesAssumption
<1> HIDE DEF key
<1>5. /\ asked \in View /\ asked.model = v.model /\ asked.profile = v.profile
      /\ laid \in View /\ laid.model = v.model /\ laid.profile = v.profile /\ laid.frame = key
  BY <1>1, <1>2, <1>4 DEF View
<1> HIDE DEF asked, laid
<1>6. CASE Kept(v) /\ view' = sized /\ host' = h
  <2>1. h.active => Drawn(v, h) /\ h.shown.token = Token(session)
    BY <1>6 DEF Kept, Drawn
  <2>2. h.active => Drawn(sized, h)
    BY <1>1, <2>1 DEF Drawn
  <2> QED
    BY <1>1, <1>6, <2>1, <2>2 DEF Local
<1>7. CASE view' = sized /\ host' = Expect(h, Token(session))
  <2>1. LET e == Expect(h, Token(session)) IN e \in Host /\ Local(e, session.document) /\ ~e.active
    BY ExpectFacts
  <2>2. host' \in Host /\ ~host'.active /\ Local(Expect(h, Token(session)), session.document)
    BY <1>7, <2>1
  <2> QED
    BY <1>1, <1>7, <2>2 DEF Local
<1>8. LET q == Present(waiting, key)
      IN  /\ waiting \in Host /\ Local(waiting, session.document) /\ ~waiting.active
          /\ q \in Host /\ Local(q, session.document) /\ q.flow = h.flow
          /\ q.active => q.shown = key /\ (Continuous(key) => key.width = q.flow)
  BY <1>4, PresentFacts
<1> HIDE DEF waiting
<1>9. CASE view' = laid /\ host' = Present(waiting, key)
  <2> DEFINE q == Present(waiting, key)
  <2>1. /\ q \in Host /\ Local(q, session.document)
        /\ q.active => q.shown = key /\ (Continuous(key) => key.width = q.flow)
    BY <1>8
  <2> HIDE DEF q
  <2>2. q.active => Drawn(laid, q) /\ q.shown.token = Token(session)
    BY <1>4, <1>5, <2>1 DEF Drawn
  <2>3. host' = q
    BY <1>9 DEF q
  <2> QED
    BY <1>5, <1>9, <2>1, <2>2, <2>3 DEF Local
<1>10. CASE view' = asked /\ host' = waiting
  BY <1>5, <1>8, <1>10 DEF Local
<1> QED
  BY <1>3, <1>6, <1>7, <1>9, <1>10

(***************************************************************************)
(* The session and the parser thread in these steps.                       *)
(***************************************************************************)
LEMMA Facts ==
    ASSUME PreviewInv
    PROVE  /\ session \in Session /\ view \in View /\ host \in Host /\ WorkerInv
           /\ view.profile \in Profiles /\ view.width \in Widths
           /\ host.flow \in Widths
           /\ pending \in Sources \cup {None} /\ completed \in Completion \cup {None}
  BY DEF PreviewInv, TypeOK, View, Host, WorkerInv, WorkerTypeOK

LEMMA SessionSteps ==
    ASSUME PreviewInv, [Next]_vars
    PROVE  /\ Grows(session, session')
           /\ session'.document \in 1..MaxDocument /\ session'.revision \in 0..MaxRevision
<1>1. /\ session \in Session
      /\ session.document \in 1..MaxDocument /\ session.revision \in 0..MaxRevision
      /\ MaxDocument \in Nat /\ MaxRevision \in Nat
  BY Facts, SourcesAssumption DEF PreviewInv, Bounded
<1>2. CASE UNCHANGED session
  BY <1>1, <1>2 DEF Grows
<1>3. ASSUME NEW t \in Texts, Edit(t)
      PROVE  /\ Grows(session, session')
             /\ session'.document \in 1..MaxDocument /\ session'.revision \in 0..MaxRevision
  <2>1. session' = Edited(session, t) /\ t # session.text /\ session.revision < MaxRevision
    BY <1>3 DEF Edit, CanRevise
  <2>2. /\ Grows(session, session') /\ session'.document = session.document
        /\ session'.revision = session.revision + 1
    BY <1>1, <2>1, EditGrows
  <2> QED
    BY <1>1, <2>1, <2>2
<1>4. ASSUME NEW p \in Paths, NEW durable \in BOOLEAN, Save(p, durable)
      PROVE  /\ Grows(session, session')
             /\ session'.document \in 1..MaxDocument /\ session'.revision \in 0..MaxRevision
  <2>1. /\ session' = MarkedSaved(session, session, p, [version |-> 0, text |-> session.text])
        /\ session.revision < MaxRevision
    BY <1>4 DEF Save, CanRevise
  <2>2. /\ Grows(session, session') /\ session'.document = session.document
        /\ session'.revision \in {session.revision, session.revision + 1}
    BY <1>1, <2>1, SaveGrows
  <2> QED
    BY <1>1, <2>1, <2>2
<1>5. ASSUME NEW p \in Paths, NEW t \in Texts, Open(p, t)
      PROVE  /\ Grows(session, session')
             /\ session'.document \in 1..MaxDocument /\ session'.revision \in 0..MaxRevision
  <2>1. /\ session' = Replaced(session, p, [version |-> 0, text |-> t])
        /\ session.document < MaxDocument
    BY <1>5 DEF Open
  <2>2. /\ Grows(session, session') /\ session'.document = session.document + 1
        /\ session'.revision = 0
    BY <1>1, <2>1, OpenGrows
  <2> QED
    BY <1>1, <2>1, <2>2
<1>6. \/ UNCHANGED session
      \/ \E t \in Texts : Edit(t)
      \/ \E p \in Paths, durable \in BOOLEAN : Save(p, durable)
      \/ \E p \in Paths, t \in Texts : Open(p, t)
  BY DEF Next, User, AcknowledgeWarning, AcknowledgeHeading, RefreshTimer, Poll, Rearm, Worker,
         IndexRefresh, SetLayoutProfile, Zoom, Layout, vars
<1> QED
  BY <1>2, <1>3, <1>4, <1>5, <1>6

\* To the worker, a step of the preview submits the present snapshot and has
\* the poll timer armed, or takes the result, or lets the thread go on.
LEMMA WorkerSteps ==
    ASSUME [Next]_vars
    PROVE  \/ Submit(Snapshot(session')) /\ "poll" \in timers' /\ UNCHANGED view
           \/ Poll
           \/ (Run \/ WakeForNothing \/ Notify) /\ UNCHANGED <<session, view, timers, rearming>>
           \/ Rearm
           \/ UNCHANGED <<workerVars, rearming>> /\ timers \subseteq timers'
           \/ AcknowledgeHeading
<1>1. CASE \E p \in Paths, t \in Texts : Open(p, t)
  BY <1>1 DEF Open, Refresh
<1>2. CASE IndexRefresh \/ RefreshTimer
  BY <1>2 DEF IndexRefresh, RefreshTimer, Refresh
<1>3. CASE \/ AcknowledgeWarning
           \/ \E t \in Texts : Edit(t)
           \/ \E p \in Paths, durable \in BOOLEAN : Save(p, durable)
  BY <1>3 DEF AcknowledgeWarning, Edit, Save, Schedule
<1>4. CASE \/ \E p \in Profiles : SetLayoutProfile(p)
           \/ \E w \in Widths : Zoom(w) \/ Layout(w)
  BY <1>4 DEF SetLayoutProfile, Zoom, Layout
<1>5. CASE Worker
  BY <1>5 DEF Worker
<1>6. CASE UNCHANGED vars
  BY <1>6 DEF vars, workerVars
<1> QED
  BY <1>1, <1>2, <1>3, <1>4, <1>5, <1>6 DEF Next, User

LEMMA WorkerKept ==
    ASSUME PreviewInv, [Next]_vars
    PROVE  /\ WorkerInv' /\ ~stopping' /\ caller' \in {"free", "submitted"}
<1>1. WorkerInv /\ ~stopping /\ caller \in {"free", "submitted"}
  BY Facts DEF PreviewInv, Bounded
<1>2. Snapshot(session') \in Sources
  BY SessionSteps, SnapshotIsSource DEF Grows
<1>3. CASE Submit(Snapshot(session'))
  BY <1>1, <1>2, <1>3, StepKeepsWorkerInv DEF WorkerStep, Submit
<1>4. CASE Poll
  <2>1. Take
    BY <1>4 DEF Poll
  <2> QED
    BY <1>1, <2>1, StepKeepsWorkerInv DEF WorkerStep, WorkerNext, Take
<1>5. CASE Run \/ WakeForNothing \/ Notify
  <2>1. WorkerInv'
    BY <1>1, <1>5, StepKeepsWorkerInv DEF WorkerStep, WorkerNext
  <2>2. stopping' = stopping /\ caller' \in {caller, "free"}
    BY <1>1, <1>5
    DEF Run, WakeForNothing, Notify, Exit, Begin, Sleep, Parse, Prepare, Finish, Goto
  <2> QED
    BY <1>1, <2>1, <2>2
<1>6. CASE UNCHANGED workerVars
  BY <1>1, <1>6, StepKeepsWorkerInv DEF workerVars
<1>7. CASE Rearm \/ AcknowledgeHeading
  BY <1>6, <1>7 DEF Rearm, AcknowledgeHeading
<1> QED
  BY <1>3, <1>4, <1>5, <1>6, <1>7, WorkerSteps

\* Where the snapshots that the thread holds come from.
LEMMA ThreadSources ==
    ASSUME WorkerInv, Run \/ WakeForNothing \/ Notify
    PROVE  /\ pending' # None => pending' = pending
           /\ thread'.pc \in Parsing =>
                 \/ thread.pc \in Parsing /\ thread'.source = thread.source
                 \/ pending # None /\ thread'.source = pending
           /\ completed' # None =>
                 \/ completed' = completed
                 \/ thread.pc \in Parsing /\ completed'.source = thread.source
<1>1. thread \in Thread /\ None \notin Sources
  BY WorkerAssumption DEF WorkerInv, WorkerTypeOK
<1> USE <1>1 DEF Thread, Parsing
<1>2. CASE Exit \/ Sleep \/ WakeForNothing \/ Notify
  BY <1>2 DEF Exit, Sleep, WakeForNothing, Notify
<1>3. CASE Begin
  BY <1>3 DEF Begin
<1>4. CASE Parse
  BY <1>4 DEF Parse, Goto
<1>5. CASE Prepare
  BY <1>5 DEF Prepare, Goto
<1>6. CASE Finish
  BY <1>6 DEF Finish
<1> QED
  BY <1>2, <1>3, <1>4, <1>5, <1>6 DEF Run

\* The thread raises no question of its own.
LEMMA ThreadAsksNothing ==
    ASSUME WorkerInv, Run \/ WakeForNothing \/ Notify, Latest' # None
    PROVE  Latest # None
<1> USE WorkerAssumption
    DEF WorkerInv, WorkerTypeOK, OnePlace, Latest, Current, Cancelled, Parsing, Thread, Completion
<1>1. CASE Exit \/ Sleep \/ WakeForNothing \/ Notify
  BY <1>1 DEF Exit, Sleep, WakeForNothing, Notify
<1>2. CASE Begin
  BY <1>2 DEF Begin
<1>3. CASE Parse
  <2>1. PICK pc \in {"preparing", "finishing"}, error \in BOOLEAN : Goto(pc, error)
    BY <1>3 DEF Parse
  <2>2. /\ thread.pc = "parsing" /\ thread'.pc \in {"preparing", "finishing"}
        /\ thread'.current = thread.current /\ thread'.source = thread.source
    BY <1>3, <2>1 DEF Parse, Goto
  <2>3. UNCHANGED <<pending, completed, ticket, stopping>>
    BY <2>1 DEF Goto
  <2> QED
    BY <2>2, <2>3
<1>4. CASE Prepare
  BY <1>4 DEF Prepare, Goto
<1>5. CASE Finish
  BY <1>5 DEF Finish
<1> QED
  BY <1>1, <1>2, <1>3, <1>4, <1>5 DEF Run

(***************************************************************************)
(* Every step keeps the invariant.                                         *)
(***************************************************************************)
\* What a relayout from the present state needs and keeps.
LEMMA PaneFacts ==
    ASSUME PreviewInv
    PROVE  /\ session \in Session /\ view \in View /\ host \in Host
           /\ Local(host, session.document)
           /\ host.active => Drawn(view, host)
           /\ host.active /\ "warning" \notin boxes => host.shown.token = Token(session)
           /\ view.width \in Widths /\ session.document \in Nat
  BY SnapshotFacts, Facts DEF PreviewInv, PaneInv

\* The pane after a step, and where the coordinator's model comes from.
LEMMA PaneKept ==
    ASSUME PreviewInv, [Next]_vars
    PROVE  /\ view' \in View /\ host' \in Host /\ PaneInv'
           /\ \/ view'.model = view.model
              \/ completed # None /\ view'.model = completed.source
<1> DEFINE Goal == /\ view' \in View /\ host' \in Host /\ PaneInv'
                   /\ \/ view'.model = view.model
                      \/ completed # None /\ view'.model = completed.source
<1> SUFFICES Goal
  OBVIOUS
<1>1. ASSUME NEW v \in View, NEW h \in Host, NEW width \in Widths,
             UNCHANGED session, Local(h, session.document),
             h.active /\ Kept(v) => Drawn(v, h), Relayout(v, h, width),
             v.model = view.model \/ (completed # None /\ v.model = completed.source)
      PROVE  Goal
  <2>1. /\ view' \in View /\ host' \in Host /\ view'.model = v.model
        /\ Local(host', session.document)
        /\ host'.active => Drawn(view', host') /\ host'.shown.token = Token(session)
    BY <1>1, PaneFacts, RelayoutKeeps
  <2>2. PaneInv'
    BY <1>1, <2>1 DEF PaneInv, Local, Drawn, Continuous
  <2> QED
    BY <1>1, <2>1, <2>2
<1>2. ASSUME session' \in Session, host' = Expect(host, Token(session')), UNCHANGED view
      PROVE  Goal
  <2>1. LET e == Expect(host, Token(session'))
        IN  e \in Host /\ Local(e, session'.document) /\ ~e.active
    BY <1>2, PaneFacts, ExpectFacts
  <2>2. host' \in Host /\ Local(host', session'.document) /\ ~host'.active
    BY <1>2, <2>1
  <2> QED
    BY <1>2, <2>2, PaneFacts DEF PaneInv, Local
<1>3. session' \in Session /\ session \in Session
  BY SessionSteps, PaneFacts DEF Grows
<1>4. CASE (\E t \in Texts : Edit(t)) \/ AcknowledgeWarning
  BY <1>2, <1>3, <1>4 DEF Edit, AcknowledgeWarning, Schedule
<1>5. CASE (\E p \in Paths, t \in Texts : Open(p, t)) \/ IndexRefresh \/ RefreshTimer
  BY <1>2, <1>3, <1>5 DEF Open, IndexRefresh, RefreshTimer, Refresh
<1>6. ASSUME NEW p \in Paths, NEW durable \in BOOLEAN, Save(p, durable) PROVE Goal
  <2>1. CASE durable
    BY <1>2, <1>3, <1>6, <2>1 DEF Save, Schedule
  <2>2. CASE ~durable
    <3>1. /\ boxes' = {"warning"} /\ UNCHANGED <<view, host>>
          /\ session' = MarkedSaved(session, session, p, [version |-> 0, text |-> session.text])
      BY <1>6, <2>2 DEF Save
    <3>2. session'.document = session.document
      BY <1>3, <1>6, <3>1, SaveGrows
    <3> QED
      BY <3>1, <3>2, PaneFacts DEF PaneInv, Local, Drawn, Continuous
  <2> QED
    BY <2>1, <2>2
<1>7. ASSUME NEW p \in Profiles, SetLayoutProfile(p) PROVE Goal
  <2> DEFINE v == [view EXCEPT !.profile = p]
  <2>1. p # view.profile /\ Relayout(v, host, view.width) /\ UNCHANGED session
    BY <1>7 DEF SetLayoutProfile
  <2>2. v \in View /\ v.model = view.model /\ v.frame = view.frame /\ v.profile = p
    BY PaneFacts DEF View
  <2> HIDE DEF v
  <2>3. ~(host.active /\ Kept(v))
    BY <2>1, <2>2, PaneFacts DEF Kept, Drawn
  <2> QED
    BY <1>1, <2>1, <2>2, <2>3, PaneFacts
<1>8. ASSUME NEW w \in Widths, Zoom(w) PROVE Goal
  <2>1. CASE Continuous(host.shown)
    <3> DEFINE h == [host EXCEPT !.flow = w, !.laid = w, !.active = FALSE]
    <3>1. Relayout(view, h, w) /\ UNCHANGED session
      BY <1>8, <2>1 DEF Zoom
    <3>2. /\ h \in Host /\ ~h.active /\ h.shown = host.shown /\ h.expected = host.expected
      BY PaneFacts DEF Host
    <3> HIDE DEF h
    <3>3. Local(h, session.document)
      BY <3>2, PaneFacts DEF Local
    <3> QED
      BY <1>1, <3>1, <3>2, <3>3, PaneFacts
  <2>2. CASE ~Continuous(host.shown)
    <3>1. host' = [host EXCEPT !.flow = w] /\ UNCHANGED <<session, view, boxes>>
      BY <1>8, <2>2 DEF Zoom
    <3>2. /\ host' \in Host /\ host'.active = host.active /\ host'.shown = host.shown
          /\ host'.expected = host.expected
      BY <3>1, PaneFacts DEF Host
    <3> QED
      BY <2>2, <3>1, <3>2, PaneFacts DEF PaneInv, Local, Drawn, Continuous
  <2> QED
    BY <2>1, <2>2
<1>9. ASSUME NEW w \in Widths, Layout(w) PROVE Goal
  <2> DEFINE a == host.active /\ host.shown # None /\ ~Continuous(host.shown)
             h == [host EXCEPT !.flow = w, !.laid = w, !.active = a]
  <2>1. Relayout(view, h, w) /\ UNCHANGED session
    BY <1>9 DEF Layout
  <2>2. a \in BOOLEAN /\ (a => host.active /\ ~Continuous(host.shown))
    BY PaneFacts DEF Host
  <2> HIDE DEF a
  <2>3. /\ h \in Host /\ h.active = a /\ h.shown = host.shown /\ h.expected = host.expected
    BY <2>2, PaneFacts DEF Host
  <2> HIDE DEF h
  <2>4. Local(h, session.document) /\ (h.active => Drawn(view, h))
    BY <2>2, <2>3, PaneFacts DEF Local, Drawn
  <2> QED
    BY <1>1, <2>1, <2>3, <2>4, PaneFacts
<1>10. CASE Poll
  <2>1. CASE /\ completed # None
             /\ Relayout([view EXCEPT !.model = completed.source, !.frame = None],
                         host, view.width)
    <3> DEFINE v == [view EXCEPT !.model = completed.source, !.frame = None]
    <3>1. Relayout(v, host, view.width) /\ UNCHANGED session
      BY <1>10, <2>1 DEF Poll
    <3>2. completed.source \in Sources
      BY <2>1, Facts DEF Completion
    <3>3. v \in View /\ v.model = completed.source /\ v.frame = None
      BY <3>2, PaneFacts DEF View
    <3> HIDE DEF v
    <3>4. ~Kept(v)
      BY <3>3 DEF Kept
    <3> QED
      BY <1>1, <2>1, <3>1, <3>3, <3>4, PaneFacts
  <2>2. CASE /\ completed # None
             /\ boxes' = boxes \cup {"heading"}
             /\ view' = [view EXCEPT !.model = completed.source]
             /\ UNCHANGED <<host, rearming>>
    <3>1. completed.source \in Sources /\ UNCHANGED session
      BY <1>10, <2>2, Facts DEF Completion, Poll
    <3>2. /\ view' \in View /\ view'.model = completed.source
          /\ view'.frame = view.frame /\ view'.profile = view.profile
      BY <2>2, <3>1, PaneFacts DEF View
    <3> QED
      BY <2>2, <3>1, <3>2, PaneFacts DEF PaneInv, Local, Drawn, Continuous
  <2>3. CASE UNCHANGED <<view, host, boxes>>
    <3>1. UNCHANGED session
      BY <1>10 DEF Poll
    <3> QED
      BY <2>3, <3>1, PaneFacts DEF PaneInv, Local, Drawn, Continuous
  <2> QED
    BY <1>10, <2>1, <2>2, <2>3 DEF Poll
<1>11. CASE AcknowledgeHeading
  <2> DEFINE v == [view EXCEPT !.frame = None]
  <2>1. Relayout(v, host, view.width) /\ UNCHANGED session
    BY <1>11 DEF AcknowledgeHeading
  <2>2. v \in View /\ v.model = view.model /\ v.frame = None
    BY PaneFacts DEF View
  <2> HIDE DEF v
  <2>3. ~Kept(v)
    BY <2>2 DEF Kept
  <2> QED
    BY <1>1, <2>1, <2>2, <2>3, PaneFacts
<1>12. CASE Rearm \/ Worker \/ UNCHANGED vars
  <2>1. UNCHANGED <<session, view, host, boxes>>
    BY <1>12 DEF Rearm, Worker, vars
  <2> QED
    BY <2>1, PaneFacts DEF PaneInv, Local, Drawn, Continuous
<1> QED
  BY <1>4, <1>5, <1>6, <1>7, <1>8, <1>9, <1>10, <1>11, <1>12 DEF Next, User

\* No snapshot is ever ahead of the session, and none of its own token differs.
LEMMA SourcesKept ==
    ASSUME PreviewInv, [Next]_vars
    PROVE  AllPast'
<1>1. session \in Session /\ Grows(session, session') /\ WorkerInv /\ AllPast
  BY Facts, SessionSteps DEF PreviewInv
<1>2. ASSUME NEW source, Remembered(source, session) PROVE Remembered(source, session')
  BY <1>1, <1>2, PastStays
<1>3. /\ pending # None => Remembered(pending, session')
      /\ thread.pc \in Parsing => Remembered(thread.source, session')
      /\ completed # None => Remembered(completed.source, session')
      /\ view.model # None => Remembered(view.model, session')
  BY <1>1, <1>2 DEF AllPast
<1>4. view'.model # None => Remembered(view'.model, session')
  BY <1>3, PaneKept
<1>5. Remembered(Snapshot(session'), session')
  BY <1>1, SnapshotFacts DEF Grows, Remembered, Past
<1>6. CASE Submit(Snapshot(session'))
  BY <1>3, <1>4, <1>5, <1>6 DEF Submit, AllPast
<1>7. CASE Poll
  <2>1. Take
    BY <1>7 DEF Poll
  <2> QED
    BY <1>3, <1>4, <2>1 DEF Take, AllPast
<1>8. CASE Run \/ WakeForNothing \/ Notify
  BY <1>1, <1>3, <1>4, <1>8, ThreadSources DEF AllPast
<1>9. CASE UNCHANGED workerVars
  BY <1>3, <1>4, <1>9 DEF workerVars, AllPast
<1>10. CASE Rearm \/ AcknowledgeHeading
  BY <1>9, <1>10 DEF Rearm, AcknowledgeHeading
<1> QED
  BY <1>6, <1>7, <1>8, <1>9, <1>10, WorkerSteps

\* As long as an answer is owed, the poll timer is armed or about to be.
LEMMA AnswerStaysAwaited ==
    ASSUME PreviewInv, [Next]_vars
    PROVE  AnswerIsAwaited'
<1>1. WorkerInv /\ AnswerIsAwaited
  BY Facts DEF PreviewInv
<1>2. CASE "poll" \in timers'
  BY <1>2 DEF AnswerIsAwaited
<1>3. CASE Poll
  <2>1. Take /\ (rearming' = TRUE \/ completed # None)
    BY <1>3 DEF Poll
  <2>2. completed # None => Latest' = None
    BY <1>1, <2>1, WorkerAssumption
    DEF Take, WorkerInv, OnePlace, Latest, Current
  <2> QED
    BY <2>1, <2>2 DEF AnswerIsAwaited
<1>4. CASE (Run \/ WakeForNothing \/ Notify) /\ UNCHANGED <<session, view, timers, rearming>>
  BY <1>1, <1>4, ThreadAsksNothing DEF AnswerIsAwaited
<1>5. CASE Rearm
  <2>1. UNCHANGED workerVars
    BY <1>5 DEF Rearm
  <2>2. Latest' = Latest
    BY <2>1 DEF workerVars, Latest, Current
  <2>3. Latest # None => Busy
    BY <1>1 DEF WorkerInv, OnePlace, Latest, Current, Busy
  <2> QED
    BY <1>5, <2>2, <2>3 DEF Rearm, AnswerIsAwaited
<1>6. CASE UNCHANGED <<workerVars, rearming>> /\ timers \subseteq timers'
  <2>1. Latest' = Latest
    BY <1>6 DEF workerVars, Latest, Current
  <2> QED
    BY <1>1, <1>6, <2>1 DEF AnswerIsAwaited
<1>7. CASE AcknowledgeHeading
  BY <1>7 DEF AcknowledgeHeading, AnswerIsAwaited
<1> QED
  BY <1>2, <1>3, <1>4, <1>5, <1>6, <1>7, WorkerSteps

LEMMA PreviewStepKeeps == ASSUME PreviewInv, [Next]_vars PROVE PreviewInv'
<1>1. WorkerInv' /\ Bounded'
  BY WorkerKept, SessionSteps DEF Bounded
<1>2. /\ timers' \subseteq {"debounce", "poll"} /\ boxes' \subseteq {"heading", "warning"}
      /\ rearming' \in BOOLEAN
  <2> USE DEF PreviewInv, TypeOK
  <2>1. CASE User
    BY <2>1 DEF User, Edit, Save, Open, IndexRefresh, SetLayoutProfile, Zoom, Layout,
                Schedule, Refresh
  <2>2. CASE Poll
    BY <2>2 DEF Poll
  <2>3. CASE AcknowledgeWarning \/ AcknowledgeHeading \/ RefreshTimer \/ Rearm \/ Worker
             \/ UNCHANGED vars
    BY <2>3 DEF AcknowledgeWarning, AcknowledgeHeading, RefreshTimer, Rearm, Worker, vars,
                Schedule, Refresh
  <2> QED
    BY <2>1, <2>2, <2>3 DEF Next
<1>3. TypeOK'
  BY <1>1, <1>2, SessionSteps, PaneKept DEF TypeOK, Grows, WorkerInv
<1> QED
  BY <1>1, <1>3, PaneKept, SourcesKept, AnswerStaysAwaited DEF PreviewInv

LEMMA PreviewInitHolds == Init => PreviewInv
<1> SUFFICES ASSUME Init PROVE PreviewInv
  OBVIOUS
<1>1. WorkerInv
  BY InitHolds DEF Init
<1>2. session \in Session /\ session.document = 1 /\ session.revision = 0
  BY SessionAssumption DEF Init, NewSession, Session, Kinds
<1>3. PICK p \in Profiles, w \in Widths :
          /\ view = [model |-> None, profile |-> p, width |-> w, frame |-> None,
                     requested |-> None, generation |-> 0]
          /\ host = [expected |-> <<0, 0>>, requested |-> None, shown |-> None,
                     active |-> FALSE, flow |-> w, laid |-> w]
  BY DEF Init
<1>4. /\ view \in View /\ host \in Host /\ view.model = None
      /\ host.shown = None /\ ~host.active
  BY <1>3 DEF View, Host, Tokens
<1>5. TypeOK
  BY <1>1, <1>2, <1>4 DEF TypeOK, WorkerInv, Init
<1>6. Bounded
  BY <1>2, SourcesAssumption DEF Bounded, Init, WorkerInit
<1>7. AllPast /\ AnswerIsAwaited
  BY <1>4 DEF AllPast, AnswerIsAwaited, Latest, Current, Init, WorkerInit, Parsing
<1>8. PaneInv
  BY <1>4 DEF PaneInv, Local
<1> QED
  BY <1>1, <1>5, <1>6, <1>7, <1>8 DEF PreviewInv

(***************************************************************************)
(* The theorems.                                                           *)
(***************************************************************************)
\* The inductive invariant holds in every reachable state.
THEOREM PreviewInvariance == Spec => []PreviewInv
  BY PreviewInitHolds, PreviewStepKeeps, PTL DEF Spec

\* The coordinator, the host, the timers and the worker keep their types.
THEOREM TypeCorrect == Spec => []TypeOK
<1>1. PreviewInv => TypeOK
  BY DEF PreviewInv
<1> QED
  BY <1>1, PreviewInvariance, PTL

\* The poll timer is armed as long as the parser owes an answer.
THEOREM AnswersAreAwaited == Spec => []AnswerIsAwaited
<1>1. PreviewInv => AnswerIsAwaited
  BY DEF PreviewInv
<1> QED
  BY <1>1, PreviewInvariance, PTL

\* A cached model under the session's token is of the session's own text.
THEOREM CachedModelIsTrue == Spec => []CachedModelIsOfThisText
<1>1. ASSUME PreviewInv PROVE CachedModelIsOfThisText
  <2> SUFFICES ASSUME ModelCurrent(view) PROVE view.model = Snapshot(session)
    BY DEF CachedModelIsOfThisText
  <2>1. /\ Remembered(view.model, session) /\ view.model.token = Token(session)
        /\ session \in Session
    BY <1>1, Facts DEF PreviewInv, AllPast, ModelCurrent
  <2>2. /\ view.model.token[1] = session.document /\ view.model.token[2] = session.revision
        /\ session.document \in Nat /\ session.revision \in Nat
    BY <2>1, SnapshotFacts
  <2> QED
    BY <2>1, <2>2 DEF Remembered, Past
<1> QED
  BY <1>1, PreviewInvariance, PTL

\* An interactive preview shows the session's text in the chosen profile and
\* width, and no frame of another document stays on the screen.
THEOREM InteractiveIsTrue == Spec => []InteractiveIsCurrent
<1>1. PreviewInv => InteractiveIsCurrent
  BY DEF PreviewInv, PaneInv, Local, Drawn, InteractiveIsCurrent
<1> QED
  BY <1>1, PreviewInvariance, PTL
=============================================================================
