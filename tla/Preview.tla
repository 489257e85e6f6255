------------------------------ MODULE Preview ------------------------------
(***************************************************************************)
(* The live preview: PreviewCoordinator and the FoxRenderHost it draws in, *)
(* the two FOX timers between them and the parser thread, and the document *)
(* session they follow.  GUI handlers are atomic among themselves; the     *)
(* parser thread moves between any two critical sections.                  *)
(*                                                                         *)
(* Two error boxes run a nested event loop in the middle of a handler: the *)
(* one for an unknown heading, inside poll(), and the warning that a save  *)
(* may not be durable, between markSaved() and the saved callback.  Timers *)
(* and deliveries run meanwhile, commands do not.                          *)
(***************************************************************************)
EXTENDS DocumentSession, ParserWorker

CONSTANTS Profiles,   \* layout profiles: mode, paper, diagram size
          Paged,      \* those whose mode is paged
          Renders,    \* [Texts -> SUBSET Profiles]: where layout does not throw
          Widths,     \* flow widths of the preview pane
          Eager       \* does FOX run a due layout pass before the next command?

ASSUME PreviewAssumption ==
    /\ Paged \subseteq Profiles
    /\ Renders \in [Texts -> SUBSET Profiles]
    /\ Eager \in BOOLEAN

VARIABLES session,
          view,      \* PreviewCoordinator
          host,      \* FoxRenderHost
          timers,    \* armed timers: 1 "debounce", 2 "poll"
          boxes,     \* error boxes that are open: "heading" is above "warning"
          rearming   \* poll() is between take() and busy()

vars == <<session, view, host, timers, boxes, rearming, pending, completed, ticket,
          working, stopping, thread, caller>>

Tokens == Nat \X Nat

Key == [token : Tokens, profile : Profiles, generation : Nat, width : Widths \cup {0}]

View == [model : Sources \cup {None}, profile : Profiles, width : Widths,
         frame : Key \cup {None}, requested : Key \cup {None}, generation : Nat]

Host == [expected : Tokens, requested : Key \cup {None}, shown : Key \cup {None},
         active : BOOLEAN, flow : Widths, laid : Widths]

Snapshot(s) == [token |-> Token(s), text |-> s.text, kind |-> s.kind]

Init ==
    /\ session = NewSession
    /\ \E p \in Profiles, w \in Widths :
           /\ view = [model |-> None, profile |-> p, width |-> w, frame |-> None,
                      requested |-> None, generation |-> 0]
           /\ host = [expected |-> <<0, 0>>, requested |-> None, shown |-> None,
                      active |-> FALSE, flow |-> w, laid |-> w]
    /\ timers = {"debounce"}        \* the first refresh, when the window is shown
    /\ boxes = {}
    /\ rearming = FALSE
    /\ WorkerInit

EventLoop == caller = "free" /\ ~rearming

\* FOX lays out when the event queue is empty: queued input may come first.
Commands == EventLoop /\ boxes = {} /\ (Eager => host.laid = host.flow)

(***************************************************************************)
(* The host.                                                               *)
(***************************************************************************)
\* Mutant of Expect: the frame on the screen stays interactive.
ExpectStayingActive(h, token) ==
    [h EXCEPT !.expected = token, !.requested = None,
              !.shown = IF token[1] # h.expected[1] THEN None ELSE @]

Expect(h, token) ==
    [h EXCEPT !.expected = token, !.requested = None, !.active = FALSE,
              !.shown = IF token[1] # h.expected[1] THEN None ELSE @]

ExpectLayout(h, key) ==
    [h EXCEPT !.expected = key.token, !.requested = key, !.active = FALSE]

Present(h, frame) ==
    IF \/ frame.token # h.expected
       \/ h.requested # None /\ frame # h.requested
       \/ frame.profile \notin Paged /\ frame.width # h.flow
    THEN h
    ELSE [h EXCEPT !.shown = frame, !.active = TRUE]

Continuous(frame) == frame # None /\ frame.profile \notin Paged

(***************************************************************************)
(* The coordinator, as handlers on given values of view and host.          *)
(***************************************************************************)
\* A paged frame of this text and profile does not depend on the width.
Kept(v) ==
    /\ v.profile \in Paged
    /\ v.frame # None
    /\ v.frame.token = Token(session)
    /\ v.frame.profile = v.profile

ModelCurrent(v) == v.model # None /\ v.model.token = Token(session)

Relayout(v, h, width) ==
    LET sized == [v EXCEPT !.width = width]
        key == [token |-> Token(session), profile |-> v.profile, generation |-> v.generation + 1,
                width |-> IF v.profile \in Paged THEN 0 ELSE width]
        asked == [sized EXCEPT !.requested = key, !.generation = @ + 1]
        waiting == ExpectLayout(Expect(h, Token(session)), key)
    IN CASE Kept(v) ->
              view' = sized /\ host' = h
         [] ~Kept(v) /\ ~ModelCurrent(v) ->
              view' = sized /\ host' = Expect(h, Token(session))
         [] OTHER ->
              IF v.profile \in Renders[v.model.text]
              THEN view' = [asked EXCEPT !.frame = key] /\ host' = Present(waiting, key)
              ELSE view' = asked /\ host' = waiting

\* schedule() and refresh(), for the session s that they find.
Schedule(s) ==
    /\ host' = Expect(host, Token(s))
    /\ timers' = timers \cup {"debounce"}

Refresh(s) ==
    /\ host' = Expect(host, Token(s))
    /\ Submit(Snapshot(s))
    /\ timers' = (timers \ {"debounce"}) \cup {"poll"}

(***************************************************************************)
(* What the user and other documents do; the constants bound it.           *)
(***************************************************************************)
CONSTANTS MaxRevision, MaxDocument, MaxGeneration

\* Every snapshot of a session within these bounds can be submitted.
ASSUME SourcesAssumption ==
    /\ MaxDocument \in Nat \ {0}
    /\ MaxRevision \in Nat
    /\ [token : (1..MaxDocument) \X (0..MaxRevision), text : Texts, kind : Kinds] \subseteq Sources
    /\ None \notin Key

CanRevise == session.revision < MaxRevision /\ ticket < MaxTicket

CanRelayout == view.generation < MaxGeneration

Edit(t) ==
    /\ Commands
    /\ CanRevise
    /\ t # session.text
    /\ session' = Edited(session, t)
    /\ Schedule(session')
    /\ UNCHANGED <<view, boxes, rearming, workerVars>>

\* A save that succeeded: with a warning first when it may not be durable.
Save(p, durable) ==
    /\ Commands
    /\ CanRevise
    /\ session' = MarkedSaved(session, session, p, [version |-> 0, text |-> session.text])
    /\ IF durable THEN Schedule(session') /\ UNCHANGED boxes
       ELSE boxes' = {"warning"} /\ UNCHANGED <<host, timers>>
    /\ UNCHANGED <<view, rearming, workerVars>>

AcknowledgeWarning ==
    /\ EventLoop
    /\ boxes = {"warning"}
    /\ boxes' = {}
    /\ Schedule(session)
    /\ UNCHANGED <<session, view, rearming, workerVars>>

\* Another document: opened by the user, or delivered to a clean session while
\* a box is open.
Open(p, t) ==
    /\ EventLoop
    /\ boxes # {} => ~Dirty(session)
    /\ session.document < MaxDocument
    /\ ticket < MaxTicket
    /\ session' = Replaced(session, p, [version |-> 0, text |-> t])
    /\ Refresh(session')
    /\ UNCHANGED <<view, boxes, rearming>>

\* The index panel's Refresh, while it has no model of the current text.
IndexRefresh ==
    /\ Commands
    /\ ticket < MaxTicket
    /\ ~ModelCurrent(view)
    /\ Refresh(session)
    /\ UNCHANGED <<session, view, boxes, rearming>>

SetLayoutProfile(p) ==
    /\ Commands
    /\ CanRelayout
    /\ p # view.profile
    /\ Relayout([view EXCEPT !.profile = p], host, view.width)
    /\ UNCHANGED <<session, timers, boxes, rearming, workerVars>>

\* setViewScale(): a continuous frame is laid out again at once, otherwise the
\* next layout pass notices the new width.
Zoom(w) ==
    /\ Commands
    /\ CanRelayout
    /\ w # host.flow
    /\ IF Continuous(host.shown)
       THEN Relayout(view, [host EXCEPT !.flow = w, !.laid = w, !.active = FALSE], w)
       ELSE host' = [host EXCEPT !.flow = w] /\ UNCHANGED view
    /\ UNCHANGED <<session, timers, boxes, rearming, workerVars>>

\* FOX's layout pass over the pane, whose width may have become w; it also
\* runs under an error box.
Layout(w) ==
    /\ EventLoop
    /\ w # host.laid
    /\ w # host.flow => CanRelayout
    /\ Relayout(view, [host EXCEPT !.flow = w, !.laid = w,
                                   !.active = @ /\ host.shown # None /\ ~Continuous(host.shown)], w)
    /\ UNCHANGED <<session, timers, boxes, rearming, workerVars>>

(***************************************************************************)
(* The timers.                                                             *)
(***************************************************************************)
RefreshTimer ==
    /\ EventLoop
    /\ "debounce" \in timers
    /\ Refresh(session)
    /\ UNCHANGED <<session, view, boxes, rearming>>

\* poll() up to the end of relayout().  A completion of another token is
\* dropped, an error only shows in the status line.  modelReady may report an
\* unknown heading: then the rest waits until the box is closed.
Poll ==
    /\ EventLoop
    /\ "poll" \in timers
    /\ timers' = timers \ {"poll"}
    /\ Take
    /\ IF /\ completed # None
          /\ completed.source.token = Token(session)
          /\ ~completed.error
       THEN \/ /\ Relayout([view EXCEPT !.model = completed.source, !.frame = None],
                           host, view.width)
               /\ rearming' = TRUE
               /\ UNCHANGED boxes
            \/ /\ "heading" \notin boxes
               /\ boxes' = boxes \cup {"heading"}
               /\ view' = [view EXCEPT !.model = completed.source]
               /\ UNCHANGED <<host, rearming>>
       ELSE rearming' = TRUE /\ UNCHANGED <<view, host, boxes>>
    /\ UNCHANGED session

AcknowledgeHeading ==
    /\ EventLoop
    /\ "heading" \in boxes
    /\ boxes' = boxes \ {"heading"}
    /\ Relayout([view EXCEPT !.frame = None], host, view.width)
    /\ rearming' = TRUE
    /\ UNCHANGED <<session, timers, workerVars>>

Rearm ==
    /\ rearming
    /\ rearming' = FALSE
    /\ timers' = IF Busy THEN timers \cup {"poll"} ELSE timers
    /\ UNCHANGED <<session, view, host, boxes, workerVars>>

Worker ==
    /\ Run \/ WakeForNothing \/ Notify
    /\ UNCHANGED <<session, view, host, timers, boxes, rearming>>

User ==
    \/ \E t \in Texts : Edit(t)
    \/ \E p \in Paths, durable \in BOOLEAN : Save(p, durable)
    \/ \E p \in Paths, t \in Texts : Open(p, t)
    \/ IndexRefresh
    \/ \E p \in Profiles : SetLayoutProfile(p)
    \/ \E w \in Widths : Zoom(w) \/ Layout(w)

Next == User \/ AcknowledgeWarning \/ AcknowledgeHeading \/ RefreshTimer \/ Poll \/ Rearm \/ Worker

\* Timers fire, FOX lays a changed pane out, boxes are closed in the end, and
\* the parser thread runs; nothing is assumed of edits and commands.
Fairness ==
    /\ WF_vars(RefreshTimer)
    /\ WF_vars(Poll)
    /\ WF_vars(Rearm)
    /\ WF_vars(Layout(host.flow))
    /\ WF_vars(AcknowledgeWarning)
    /\ WF_vars(AcknowledgeHeading)
    /\ WF_vars(Run /\ UNCHANGED <<session, view, host, timers, boxes, rearming>>)
    /\ WF_vars(Notify /\ UNCHANGED <<session, view, host, timers, boxes, rearming>>)

Spec == Init /\ [][Next]_vars /\ Fairness

(***************************************************************************)
(* Properties.                                                             *)
(***************************************************************************)
TypeOK ==
    /\ WorkerTypeOK
    /\ session \in Session
    /\ view \in View
    /\ host \in Host
    /\ timers \subseteq {"debounce", "poll"}
    /\ boxes \subseteq {"heading", "warning"}
    /\ rearming \in BOOLEAN

\* The preview answers clicks and drives scrolling only while it shows the
\* session's very text, in the chosen profile, at the pane's width, and never
\* a frame of the document before.  (Under the durability warning the token
\* may already be new; the box blocks clicks then.)
InteractiveIsCurrent ==
    /\ host.shown # None => host.shown.token[1] = session.document
    /\ host.active /\ "warning" \notin boxes =>
           /\ host.shown # None
           /\ host.shown.token = Token(session)
           /\ host.shown.profile = view.profile
           /\ Continuous(host.shown) => host.shown.width = host.flow

\* As long as the parser thread owes an answer somebody will ask for it: the
\* poll timer is armed, or poll() is about to look at busy().
AnswerIsAwaited == Latest # None => "poll" \in timers \/ rearming

\* A cached model that carries the session's token is the model of the
\* session's text in its present format: no edit, save under another suffix or
\* delivery, at whatever point of a parse, leaves a token with two meanings.
CachedModelIsOfThisText ==
    ModelCurrent(view) => view.model = Snapshot(session)

Shown ==
    /\ host.active
    /\ host.shown.token = Token(session)
    /\ host.shown.profile = view.profile

\* When the edits, saves, changes of profile (which the bounds stop) and the
\* resizes stop, the preview ends up interactive on the final text, if it can
\* be parsed and laid out at all.
EventuallyShown ==
    <>[][host'.flow = host.flow]_vars =>
        <>[](\/ Snapshot(session) \in Faulty
             \/ view.profile \notin Renders[session.text]
             \/ Shown)

\* What the design's call table says of a change of profile: it requests a
\* layout, under a new generation.
ProfileChangeRequestsLayout ==
    [][ /\ view'.profile # view.profile
        /\ ModelCurrent(view)
      => view'.generation > view.generation ]_vars
=============================================================================
