----------------------------- MODULE Navigation -----------------------------
(***************************************************************************)
(* The visits of the main window and the place in each: HistoryStore,      *)
(* NavigationCoordinator and ScrollCoordinator, as Application wires them  *)
(* to the session, the preview pipeline, the editor and the preview pane.  *)
(*                                                                         *)
(* Opening is not atomic: openTarget notes where the reader is, then       *)
(* requestOpen may ask about unsaved text in a nested event loop, in which *)
(* timers fire, and only the opened callback commits the visit.            *)
(***************************************************************************)
EXTENDS Anchors

CONSTANTS
    Paths,         \* files that can be opened
    Untitled,      \* the empty path, and of an anchor that belongs anywhere
    Sizes,         \* lengths a file may have when it is read
    Layouts,       \* what the renderer may make of a text: sequences of regions
    Heights,       \* where the reader may scroll the preview to
    TopAt,         \* by length: for each byte asked for, the one the editor then has on top
    LastHeight,    \* by layout: how far down the preview can stand
    MaxVisits,     \* HistoryStore keeps 100
    MaxDocument,   \* bound: documents loaded
    MaxRevision    \* bound: edits of one document

VARIABLES
    doc,       \* the session: path, token, length, and whether its model is there
    visits,    \* HistoryStore::entries
    cursor,    \* HistoryStore::cursor, from 0
    request,   \* NavigationCoordinator::pending with the path being opened; optional
    scroll,    \* ScrollCoordinator
    view       \* top byte of the editor, top height of the preview

navVars == <<doc, visits, cursor, request, scroll, view>>

ASSUME NavigationAssumption ==
    /\ MaxVisits \in Nat \ {0} /\ MaxDocument \in Nat /\ MaxRevision \in Nat
    /\ Sizes \subseteq Nat /\ Heights \subseteq Nat /\ Layouts \subseteq Seq(Region)
    /\ Untitled \notin Paths
    /\ DOMAIN TopAt = Sizes \cup {0}
    /\ \A size \in Sizes \cup {0} : TopAt[size] \in [0 .. size -> 0 .. size]
    /\ LastHeight \in [Layouts -> Nat]

\* std::optional is a sequence of at most one element.
Nothing == <<>>
Just(x) == <<x>>
Optional(S) == {s \in Seq(S) : Len(s) <= 1}

Token == <<doc.document, doc.revision>>

\* An anchor, and (for the properties only) the file it was read in: the very
\* top is the same place in every file.
In(anchor, path) == [byte |-> anchor.byte, fraction |-> anchor.fraction,
                     quality |-> anchor.quality,
                     of |-> IF anchor.byte = 0 /\ anchor.fraction = 0 THEN Untitled ELSE path]
Top == In(TopAnchor, Untitled)
ToByte(b, path) == In([TopAnchor EXCEPT !.byte = b], path)
Within(anchor, size) == In([anchor EXCEPT !.byte = Least(@, size)], anchor.of)

NavInit ==
    /\ doc = [path |-> Untitled, document |-> 0, revision |-> 0, size |-> 0, parsed |-> FALSE]
    /\ visits = <<>> /\ cursor = 0 /\ request = Nothing
    /\ scroll = [expected |-> <<0, 0>>, awaited |-> Nothing, frame |-> Nothing,
                 last |-> Top, pending |-> Nothing, split |-> FALSE]
    /\ view = [editor |-> 0, preview |-> 0]

(***************************************************************************)
(* The widgets.  A view stands where it can: the editor at the beginning   *)
(* of a line and no further than its last page, the preview no further     *)
(* than its frame.  A view that moves calls back, whoever moved it; a      *)
(* setter raises its widget's flag while it moves the view, and the        *)
(* coordinator its own while it calls a setter.  All are down again when   *)
(* an action is over, so they are arguments here: the set `up`.            *)
(***************************************************************************)
EditorAt(v, b, size) == [v EXCEPT !.editor = TopAt[size][Least(b, size)]]
PreviewAt(v, y, regions) == [v EXCEPT !.preview = Least(y, LastHeight[regions])]

\* onViewportChanged: is the movement the reader's?  The widgets' origins
\* and sequence numbers never refuse one: moveContents has set the origin to
\* the reader's by then, and Application passes no number.
Heeded(s, up) == "synchronizing" \notin up /\ s.frame # Nothing /\ Token = s.expected

Heard(s, place, up) == IF Heeded(s, up) THEN [s EXCEPT !.last = place] ELSE s

\* Mutant of SetSourceAnchor: the editor's flag is not raised.
SetSourceAnchorLoud(s, v, b, up) ==
    LET moved == EditorAt(v, b, doc.size)
    IN [s |-> Heard(s, ToByte(moved.editor, doc.path), up), v |-> moved]

\* EditorWidget::setSourceAnchor and moveContents.
SetSourceAnchor(s, v, b, up) ==
    LET moved == EditorAt(v, b, doc.size)
        flags == up \cup {"scrolling"}
    IN [s |-> IF "scrolling" \in flags THEN s
              ELSE Heard(s, ToByte(moved.editor, doc.path), flags),
        v |-> moved]

\* FoxRenderHost::setViewport and moveContents.
SetViewport(s, v, y, up) ==
    LET regions == s.frame[1].regions
        moved == PreviewAt(v, y, regions)
        flags == up \cup {"programmatic"}
    IN [s |-> IF "programmatic" \in flags THEN s
              ELSE Heard(s, In(AnchorAt(moved.preview, regions), doc.path), flags),
        v |-> moved]

(***************************************************************************)
(* ScrollCoordinator, on its own state s and the views v it moves.  The    *)
(* code keeps a frame and a flag `valid`; the frame is never read while    *)
(* the flag is off, so here an invalid frame is no frame.                  *)
(***************************************************************************)
Invalidated(s, token) ==
    LET other == token[1] # s.expected[1]
    IN [s EXCEPT !.awaited = Nothing, !.expected = token, !.frame = Nothing,
                 !.last = IF other THEN Top ELSE @,
                 !.pending = IF other THEN Just(Top) ELSE IF @ = Nothing THEN Just(s.last) ELSE @]

\* restoreAnchor: the preview is moved, then in split mode the editor.
Restored(s, v, anchor) ==
    LET moved == [s EXCEPT !.last = anchor]
        target == MapAnchor(anchor, s.frame[1].regions)
        there == SetViewport(moved, v, target.y, {"synchronizing"})
    IN IF s.frame = Nothing
       THEN [s |-> [moved EXCEPT !.pending = Just(anchor)], v |-> v]
       ELSE IF target.quality = "unavailable" THEN [s |-> moved, v |-> v]
       ELSE IF s.split THEN SetSourceAnchor(there.s, there.v, anchor.byte, {"synchronizing"})
       ELSE there

\* To a heading: the coordinator is told, and then the editor, so that a
\* window without the preview follows too; no flag but the editor's own
\* keeps the coordinator from hearing of the line it stops at.
Jumped(s, v, b) ==
    LET restored == Restored(s, v, ToByte(b, doc.path))
    IN SetSourceAnchor(restored.s, restored.v, b, {})

\* FoxRenderHost::present and setFrame.
Framed(s, v, frame) ==
    IF frame.token # s.expected \/ (s.awaited # Nothing /\ s.awaited # Just(frame))
    THEN [s |-> s, v |-> v]
    ELSE LET shown == [s EXCEPT !.frame = Just(frame), !.pending = Nothing]
             within == PreviewAt(v, v.preview, frame.regions)
         IN IF s.pending = Nothing THEN [s |-> shown, v |-> within]
            ELSE Restored(shown, within, s.pending[1])

\* PreviewCoordinator::relayout with the callbacks of Application: the old
\* frame is invalidated; if the model is there a new one is asked for, made,
\* and handed on unless making it failed or the pane has another width by now.
Laid(s, v, regions, made) ==
    LET frame == [token |-> Token, regions |-> regions]
        stale == Invalidated(s, Token)
        asked == [stale EXCEPT !.awaited = Just(frame)]
    IN IF ~doc.parsed THEN [s |-> stale, v |-> v]
       ELSE IF made THEN Framed(asked, v, frame) ELSE [s |-> asked, v |-> v]

Show(sv) == scroll' = sv.s /\ view' = sv.v

\* The reader scrolls the editor: EditorWidget::moveContents, and
\* onViewportChanged, which has the preview follow.
ScrollEditor(b) ==
    LET here == ToByte(b, doc.path)
        target == MapAnchor(here, scroll.frame[1].regions)
        moved == [view EXCEPT !.editor = b]
        heard == Heard(scroll, here, {})
    IN /\ b <= doc.size /\ TopAt[doc.size][b] = b
       /\ Show(IF Heeded(scroll, {}) /\ scroll.split /\ target.quality # "unavailable"
               THEN SetViewport(heard, moved, target.y, {"synchronizing"})
               ELSE [s |-> heard, v |-> moved])
       /\ UNCHANGED <<doc, visits, cursor, request>>

\* Mutant of ScrollPreview: the editor is moved by where the reader was.
ScrollPreviewLate(y) ==
    LET here == In(AnchorAt(y, scroll.frame[1].regions), doc.path)
        moved == [view EXCEPT !.preview = y]
        heard == Heard(scroll, here, {})
    IN /\ scroll.frame # Nothing /\ Token = scroll.expected
       /\ y <= LastHeight[scroll.frame[1].regions]
       /\ Show(IF scroll.split /\ here.quality # "unavailable"
               THEN SetSourceAnchor(heard, moved, scroll.last.byte, {"synchronizing"})
               ELSE [s |-> heard, v |-> moved])
       /\ UNCHANGED <<doc, visits, cursor, request>>

\* The reader scrolls the preview: FoxRenderHost::moveContents, which calls
\* back of an interactive frame only, and the editor follows.
ScrollPreview(y) ==
    LET here == In(AnchorAt(y, scroll.frame[1].regions), doc.path)
        moved == [view EXCEPT !.preview = y]
        heard == Heard(scroll, here, {})
    IN /\ scroll.frame # Nothing /\ Token = scroll.expected
       /\ y <= LastHeight[scroll.frame[1].regions]
       /\ Show(IF scroll.split /\ here.quality # "unavailable"
               THEN SetSourceAnchor(heard, moved, here.byte, {"synchronizing"})
               ELSE [s |-> heard, v |-> moved])
       /\ UNCHANGED <<doc, visits, cursor, request>>

\* ViewModeController's changed callback; the views are not moved.
SetSplit(split) ==
    /\ scroll' = [scroll EXCEPT !.split = split]
    /\ UNCHANGED <<doc, visits, cursor, request, view>>

\* DocumentZoom::refresh with another scale, in A4.
Rescale ==
    /\ Show(Restored(scroll, view, scroll.last))
    /\ UNCHANGED <<doc, visits, cursor, request>>

\* The pane's width or the layout profile changed.
Relayout(regions, made) ==
    /\ Show(Laid(scroll, view, regions, made))
    /\ UNCHANGED <<doc, visits, cursor, request>>

\* Full-size diagrams, or another scale in Wrap: relayout, and back to the anchor.
Reformat(regions, made) ==
    /\ LET laid == Laid(scroll, view, regions, made)
       IN Show(Restored(laid.s, laid.v, scroll.last))
    /\ UNCHANGED <<doc, visits, cursor, request>>

\* applyLinkAnchor and activateIndex: to a heading of the current model.
JumpTo(b) ==
    /\ doc.parsed /\ b <= doc.size
    /\ Show(Jumped(scroll, view, b))
    /\ UNCHANGED <<doc, visits, cursor, request>>

\* The worker's model of the current text arrives: the heading the reader
\* asked for while there was none (pendingHeading, pendingLinkAnchor;
\* optional) is gone to, before the model is laid out.
ParseDone(regions, made, heading) ==
    /\ ~doc.parsed
    /\ heading # Nothing => heading[1] <= doc.size
    /\ doc' = [doc EXCEPT !.parsed = TRUE]
    /\ LET there == IF heading = Nothing THEN [s |-> scroll, v |-> view]
                    ELSE Jumped(scroll, view, heading[1])
           frame == [token |-> Token, regions |-> regions]
           asked == [Invalidated(there.s, Token) EXCEPT !.awaited = Just(frame)]
       IN Show(IF made THEN Framed(asked, there.v, frame) ELSE [s |-> asked, v |-> there.v])
    /\ UNCHANGED <<visits, cursor, request>>

\* edits.changed and contentChanged; the length matters only when a place is
\* put back into another text.
Edit ==
    /\ request = Nothing
    /\ doc.revision < MaxRevision
    /\ doc' = [doc EXCEPT !.revision = @ + 1, !.parsed = FALSE]
    /\ scroll' = Invalidated(scroll, <<doc.document, doc.revision + 1>>)
    /\ UNCHANGED <<visits, cursor, request, view>>

(***************************************************************************)
(* HistoryStore.                                                           *)
(***************************************************************************)
Propose(back) ==
    IF visits = <<>> THEN Nothing
    ELSE IF back THEN (IF cursor > 0 THEN Just(cursor - 1) ELSE Nothing)
    ELSE IF cursor + 1 < Len(visits) THEN Just(cursor + 1) ELSE Nothing

\* Mutant of Commit: a new visit does not cut off the ones ahead.
CommitKeepingAhead(path, previous, target) ==
    LET ahead == Append(visits, [path |-> path, anchor |-> Top])
    IN IF target # Nothing THEN visits' = visits /\ cursor' = target[1]
       ELSE /\ visits' = (IF Len(ahead) > MaxVisits THEN Tail(ahead) ELSE ahead)
            /\ cursor' = IF visits = <<>> \/ Len(ahead) > MaxVisits THEN cursor ELSE cursor + 1

\* Mutant of Commit: the oldest visit is dropped one visit too late.
CommitBeyond(path, previous, target) ==
    LET noted == IF visits = <<>> THEN visits ELSE [visits EXCEPT ![cursor + 1].anchor = previous]
        ahead == Append(SubSeq(noted, 1, IF visits = <<>> THEN 0 ELSE cursor + 1),
                        [path |-> path, anchor |-> Top])
    IN IF target # Nothing THEN visits' = noted /\ cursor' = target[1]
       ELSE /\ visits' = (IF Len(ahead) > MaxVisits + 1 THEN Tail(ahead) ELSE ahead)
            /\ cursor' = Len(visits') - 1

\* Mutant of Commit: going back or forward, the cursor moves first, and the
\* place left is noted in the visit it arrives at.
CommitMovingFirst(path, previous, target) ==
    LET ahead == Append(SubSeq(visits, 1, IF visits = <<>> THEN 0 ELSE cursor + 1),
                        [path |-> path, anchor |-> Top])
    IN IF target # Nothing
       THEN visits' = [visits EXCEPT ![target[1] + 1].anchor = previous] /\ cursor' = target[1]
       ELSE /\ visits' = (IF Len(ahead) > MaxVisits THEN Tail(ahead) ELSE ahead)
            /\ cursor' = Len(visits') - 1

\* commit: the place left is noted in the visit left; a new visit cuts off
\* the ones ahead, and the oldest when there are too many.
Commit(path, previous, target) ==
    LET noted == IF visits = <<>> THEN visits ELSE [visits EXCEPT ![cursor + 1].anchor = previous]
        ahead == Append(SubSeq(noted, 1, IF visits = <<>> THEN 0 ELSE cursor + 1),
                        [path |-> path, anchor |-> Top])
        kept == IF Len(ahead) > MaxVisits THEN Tail(ahead) ELSE ahead
    IN IF target # Nothing THEN visits' = noted /\ cursor' = target[1]
       ELSE IF visits # <<>> /\ visits[cursor + 1].path = path
       THEN visits' = noted /\ cursor' = cursor
       ELSE visits' = kept /\ cursor' = Len(kept) - 1

\* documentSaved: renameCurrent, and contentChanged.  The places read in the
\* file now belong to its new name; among them the one a pending request
\* noted, when the reader saves before leaving.
Saved(path) ==
    LET renamed(a) == IF a.of = doc.path THEN [a EXCEPT !.of = path] ELSE a
        stale == Invalidated(scroll, Token)
    IN /\ doc' = [doc EXCEPT !.path = path]
       /\ visits' = IF visits = <<>> THEN visits
                    ELSE [visits EXCEPT ![cursor + 1].path = path,
                                        ![cursor + 1].anchor = renamed(@)]
       /\ request' = IF request = Nothing THEN request
                     ELSE Just([request[1] EXCEPT !.previous = renamed(@)])
       /\ scroll' = [stale EXCEPT !.last = renamed(@), !.pending = Just(renamed(@[1]))]
       /\ UNCHANGED <<cursor, view>>

(***************************************************************************)
(* NavigationCoordinator.                                                  *)
(***************************************************************************)
Ask(path, target, destination) ==
    /\ request = Nothing
    /\ doc.document < MaxDocument
    /\ request' = Just([path |-> path, previous |-> scroll.last,
                        target |-> target, destination |-> destination])
    /\ UNCHANGED <<doc, visits, cursor, scroll, view>>

\* openTarget from the sidebar, a dialog, a link.
OpenTarget(path) == Ask(path, Nothing, Top)

\* goBack and goForward.
Go(back) ==
    /\ Propose(back) # Nothing
    /\ Ask(visits[Propose(back)[1] + 1].path, Propose(back), Top)

\* activateIndex: openAt, to byte b of a file.  In the document on display
\* the place is gone to at once, and then the heading that was meant
\* (optional), if the model is there to find it in.
OpenAt(path, b, heading) ==
    \/ path \in Paths /\ path # doc.path /\ Ask(path, Nothing, ToByte(b, path))
    \/ /\ path = doc.path /\ request = Nothing
       /\ heading # Nothing => doc.parsed /\ heading[1] <= doc.size
       /\ LET there == Restored(scroll, view, Within(ToByte(b, path), doc.size))
          IN Show(IF heading = Nothing
                  THEN SetSourceAnchor(there.s, there.v, Least(b, doc.size), {})
                  ELSE Jumped(there.s, there.v, heading[1]))
       /\ UNCHANGED <<doc, visits, cursor, request>>

\* The opened callback: the editor goes to the top, commitVisit, a refresh;
\* and activateIndex, which asked for a place, has the editor go there.  The
\* editor's flag is up, and there is no frame the coordinator would heed.
Opened(size) ==
    LET r == request[1]
        restore == IF r.target # Nothing THEN visits[r.target[1] + 1].anchor ELSE r.destination
        token == <<doc.document + 1, 0>>
        placed == Restored(Invalidated(scroll, token), EditorAt(view, 0, size),
                           Within(restore, size))
    IN /\ request # Nothing
       /\ doc' = [path |-> r.path, document |-> doc.document + 1, revision |-> 0,
                  size |-> size, parsed |-> FALSE]
       /\ Commit(r.path, r.previous, r.target)
       /\ scroll' = Invalidated(placed.s, token)
       /\ view' = EditorAt(placed.v, Least(r.destination.byte, size), size)
       /\ request' = Nothing

\* The reader cancelled, or the file could not be read.
NotOpened ==
    /\ request # Nothing
    /\ request' = Nothing
    /\ UNCHANGED <<doc, visits, cursor, scroll, view>>

\* Of the current model: none, or a heading.
Headings == {Nothing} \cup {Just(b) : b \in 0 .. doc.size}

NavNext ==
    \/ \E p \in Paths : OpenTarget(p) \/ Saved(p)
    \/ \E p \in Paths \cup {doc.path}, b \in Sizes, heading \in Headings : OpenAt(p, b, heading)
    \/ \E back \in BOOLEAN : Go(back)
    \/ \E size \in Sizes : Opened(size)
    \/ Edit
    \/ NotOpened
    \/ \E b \in 0 .. doc.size : ScrollEditor(b) \/ JumpTo(b)
    \/ \E y \in Heights : ScrollPreview(y)
    \/ \E split \in BOOLEAN : SetSplit(split)
    \/ Rescale
    \/ \E regions \in Layouts, made \in BOOLEAN :
          Relayout(regions, made) \/ Reformat(regions, made)
    \/ \E regions \in Layouts, made \in BOOLEAN, heading \in Headings :
          ParseDone(regions, made, heading)

NavSpec == NavInit /\ [][NavNext]_navVars

(***************************************************************************)
(* Properties.                                                             *)
(***************************************************************************)
Places == [byte : Nat, fraction : 0 .. 99, quality : {"exact", "approximate", "unavailable"},
           of : Paths \cup {Untitled}]

Frames == [token : Nat \X Nat, regions : Layouts]

NavTypeOK ==
    /\ doc \in [path : Paths \cup {Untitled}, document : 0 .. MaxDocument,
                revision : 0 .. MaxRevision, size : Sizes \cup {0}, parsed : BOOLEAN]
    /\ visits \in Seq([path : Paths, anchor : Places]) /\ Len(visits) <= MaxVisits
    /\ cursor \in Nat
    /\ request \in Optional([path : Paths, previous : Places, destination : Places,
                             target : Optional(0 .. MaxVisits - 1)])
    /\ scroll \in [expected : Nat \X Nat, awaited : Optional(Frames), frame : Optional(Frames),
                   last : Places, pending : Optional(Places),
                   split : BOOLEAN]
    /\ view \in [editor : Nat, preview : Nat]

\* The visit under the cursor is the document on display, through failed and
\* cancelled opens, back and forward, the cut at both ends of the history and
\* saving under another name; and the visit a pending request is going back
\* to is still there when the request is committed.
VisitIsShown ==
    /\ visits # <<>> => cursor < Len(visits) /\ visits[cursor + 1].path = doc.path
    /\ request # Nothing /\ request[1].target # Nothing
         => /\ request[1].target[1] < Len(visits) /\ request[1].target[1] # cursor
            /\ visits[request[1].target[1] + 1].path = request[1].path

\* Every place that is kept was read in the document it is kept for: the one
\* in a visit, the one a request carries, the one the views will be put back
\* to. A frame or a scroll of the document before never leaks into the next.
AnchorsStayHome ==
    LET home(a, path) == a.of \in {path, Untitled}
    IN /\ \A i \in DOMAIN visits : home(visits[i].anchor, visits[i].path)
       /\ home(scroll.last, doc.path)
       /\ scroll.pending # Nothing => home(scroll.pending[1], doc.path)
       /\ scroll.frame # Nothing => scroll.frame[1].token = Token /\ scroll.pending = Nothing
       /\ scroll.pending # Nothing => scroll.pending[1] = scroll.last

\* Whenever the reader's place changes or another frame takes it over, in
\* split mode both views stand at it, as nearly as they can: the one that was
\* not scrolled follows.
Follows ==
    scroll'.frame # Nothing /\ scroll'.split
        /\ (scroll'.last # scroll.last \/ scroll'.frame # scroll.frame)
      => LET regions == scroll'.frame[1].regions
             target == MapAnchor(scroll'.last, regions)
         IN \/ target.quality = "unavailable" \/ scroll'.last.quality = "unavailable"
            \/ /\ view'.editor = TopAt[doc'.size][Least(scroll'.last.byte, doc'.size)]
               /\ \/ view'.preview = Least(target.y, LastHeight[regions])
                  \/ In(AnchorAt(view'.preview, regions), doc'.path) = scroll'.last

\* The reader scrolls or goes to this place.
ReaderGoes(place) ==
    \/ \E b \in 0 .. doc.size :
          place = ToByte(b, doc.path) /\ (ScrollEditor(b) \/ JumpTo(b))
    \/ \E y \in Heights :
          /\ scroll.frame # Nothing /\ place = In(AnchorAt(y, scroll.frame[1].regions), doc.path)
          /\ ScrollPreview(y)
    \/ \E b \in Sizes, heading \in Headings :
          /\ place = ToByte(IF heading = Nothing THEN Least(b, doc.size) ELSE heading[1], doc.path)
          /\ OpenAt(doc.path, b, heading)
    \/ \E regions \in Layouts, made \in BOOLEAN, heading \in Headings \ {Nothing} :
          place = ToByte(heading[1], doc.path) /\ ParseDone(regions, made, heading)

\* A view that was moved calls back, and the call is not taken for the
\* reader's: while a file is on display his place changes only when he
\* scrolls or goes somewhere, and to just there, never to the line or the
\* height at which a view could stop, nor with a new frame or scale.
NoEcho ==
    /\ scroll'.last # scroll.last
    /\ doc'.path = doc.path /\ doc'.document = doc.document
    => ReaderGoes(scroll'.last)

\* Both views stand at the reader's place whenever it or the frame changes,
\* and the view that follows does not answer back.
ViewsAgree == [][Follows /\ NoEcho]_navVars
=============================================================================
