-------------------------------- MODULE Zoom --------------------------------
(***************************************************************************)
(* View modes and scale: ViewModeController, DocumentZoom and the commands *)
(* and callbacks that drive them.  The splitter is FOX's: it stretches the *)
(* only visible pane, and gives the right pane what the left one leaves.   *)
(***************************************************************************)
EXTENDS Integers

CONSTANTS
    Widths,       \* widths the splitter may have, without its bar
    Height,       \* the height of both panes
    Paper,        \* width and height of a page at 100 %
    Percents,     \* scales the reader asks for
    Steps         \* turns of the wheel, ten per cent each

ASSUME ZoomAssumption ==
    /\ Widths \subseteq Nat /\ Height \in Nat
    /\ Paper \in [width : Nat \ {0}, height : Nat \ {0}] /\ Percents \cup Steps \subseteq Int

VARIABLES
    width,      \* of the splitter
    panes,      \* widths of editor and preview
    view,       \* ViewModeController::current
    fraction,   \* splitFraction: the editor's width and of how much
    paged,      \* LayoutMode::Paged
    zoom,       \* DocumentZoom: selected, applied
    scale       \* what editor and host draw at: viewScale

zoomVars == <<width, panes, view, fraction, paged, zoom, scale>>

Limit(x, lo, hi) == IF x < lo THEN lo ELSE IF x > hi THEN hi ELSE x
AtMost(a, b) == IF a < b THEN a ELSE b
Distance(a, b) == IF a < b THEN b - a ELSE a - b

\* FOX's layout after a change of width or visibility.
Laid(w, mode, p) ==
    CASE mode = "preview" -> [p EXCEPT !.preview = w]
      [] mode = "editor"  -> [p EXCEPT !.editor = w]
      [] OTHER            -> [editor |-> AtMost(p.editor, w), preview |-> w - AtMost(p.editor, w)]

(***************************************************************************)
(* DocumentZoom::refresh.                                                  *)
(***************************************************************************)
\* The dimensions of the visible panes that are large enough.
Visible(mode, p, selected) ==
    {d - 32 : d \in {x \in IF selected = "height" THEN {Height}
                           ELSE (IF mode = "preview" THEN {} ELSE {p.editor})
                                \cup (IF mode = "editor" THEN {} ELSE {p.preview}) : x > 32}}

Fitted(mode, p, selected, applied) ==
    LET room == Visible(mode, p, selected)
        least == CHOOSE x \in room : \A y \in room : x <= y
        paper == IF selected = "width" THEN Paper.width ELSE Paper.height
    IN IF room = {} THEN applied ELSE Limit((100 * least) \div paper, 5, 800)

Refreshed(mode, p, isPaged, z) ==
    IF z.selected = "manual" THEN z
    ELSE IF ~isPaged THEN [selected |-> "manual", applied |-> Limit(z.applied, 25, 300)]
    ELSE [z EXCEPT !.applied = Fitted(mode, p, z.selected, z.applied)]

\* Every change ends in a refresh, which draws at the new scale.
Refresh(z) == zoom' = Refreshed(view', panes', paged', z) /\ scale' = zoom'.applied

ZoomInit ==
    /\ width \in Widths
    /\ view = "preview" /\ panes = [editor |-> width \div 2, preview |-> width]
    /\ fraction = [left |-> 1, of |-> 2]
    /\ paged = FALSE /\ zoom = [selected |-> "manual", applied |-> 100] /\ scale = 100

\* ViewModeController::setMode: the fraction is remembered if the panes are
\* as the reader left them; coming to Split they are given their widths back.
Remembered ==
    IF view = "split" /\ panes.editor >= 32 /\ panes.preview >= 32
         /\ Distance(panes.editor + panes.preview, width) <= 2
    THEN [left |-> panes.editor, of |-> panes.editor + panes.preview] ELSE fraction

Divided(f) ==
    LET size == Limit((2 * width * f.left + f.of) \div (2 * f.of), 1, width - 1)
    IN [editor |-> size, preview |-> width - size]

\* Mutant of Geometry: the panes are left as FOX stretched them.
GeometryStretched(mode) == panes

Geometry(mode) ==
    LET usable == view = "split" /\ panes.editor >= 32 /\ panes.preview >= 32
                    /\ Distance(panes.editor + panes.preview, width) <= 2
    IN IF mode = "split" /\ ~usable /\ width > 1 THEN Divided(Remembered) ELSE panes

SetMode(mode) ==
    /\ fraction' = Remembered
    /\ panes' = Laid(width, mode, Geometry(mode))
    /\ view' = mode
    /\ UNCHANGED <<width, paged>> /\ Refresh(zoom)

\* The reader drags the splitter or resizes the window: geometryChanged.
DragSplit(left) ==
    /\ view = "split" /\ left < width
    /\ panes' = [editor |-> left, preview |-> width - left]
    /\ UNCHANGED <<width, view, fraction, paged>> /\ Refresh(zoom)

Resize(w) ==
    /\ width' = w
    /\ panes' = Laid(w, view, panes)
    /\ UNCHANGED <<view, fraction, paged>> /\ Refresh(zoom)

\* CommandRouter::WindowWrap and A4
SetPaged(on) ==
    /\ paged' = on
    /\ UNCHANGED <<width, panes, view, fraction>> /\ Refresh(zoom)

\* setPercent and step
SetPercent(percent) ==
    /\ UNCHANGED <<width, panes, view, fraction, paged>>
    /\ Refresh([selected |-> "manual", applied |-> Limit(percent, 25, 300)])

Step(steps) == SetPercent(zoom.applied + 10 * steps)

\* DocumentZoom::setMode
SetFit(selected) ==
    /\ paged
    /\ UNCHANGED <<width, panes, view, fraction, paged>>
    /\ Refresh([zoom EXCEPT !.selected = selected])

ZoomNext ==
    \/ \E mode \in {"preview", "editor", "split"} : SetMode(mode)
    \/ \E w \in Widths : Resize(w) \/ DragSplit(w \div 4)
    \/ \E on \in BOOLEAN : SetPaged(on)
    \/ \E percent \in Percents : SetPercent(percent)
    \/ \E steps \in Steps : Step(steps)
    \/ \E selected \in {"width", "height"} : SetFit(selected)

ZoomSpec == ZoomInit /\ [][ZoomNext]_zoomVars

(***************************************************************************)
(* Properties.                                                             *)
(***************************************************************************)
ZoomTypeOK ==
    /\ width \in Widths /\ view \in {"preview", "editor", "split"}
    /\ panes \in [editor : Nat, preview : Nat]
    /\ fraction \in [left : Nat, of : Nat \ {0}]
    /\ zoom \in [selected : {"manual", "width", "height"}, applied : Nat]

\* A page that is fitted fits into every pane on display that is wide enough
\* to show one, whatever sequence of mode changes, drags and resizes led
\* there; without pages nothing is fitted and the scale stays within the
\* reader's range.
PagesFit ==
    /\ scale = zoom.applied
    /\ zoom.selected = "manual" => zoom.applied \in 25 .. 300
    /\ zoom.selected # "manual" =>
          /\ paged
          /\ \A room \in Visible(view, panes, zoom.selected) :
                LET paper == IF zoom.selected = "width" THEN Paper.width ELSE Paper.height
                IN zoom.applied <= 5 \/ zoom.applied * paper <= 100 * room
    /\ view = "split" => panes.editor + panes.preview = width

\* Pages fit, and coming back to Split the reader finds the panes divided as
\* they were when Split was last left, rounded to a pixel, however the window
\* was resized in between, if it has room for two.
ViewsAreKept ==
    /\ []PagesFit
    /\ [][ view # "split" /\ view' = "split" /\ width > 1 =>
             /\ panes'.editor > 0 /\ panes'.preview > 0
             /\ Distance(panes'.editor * fraction.of, width * fraction.left) <= fraction.of ]_zoomVars
=============================================================================
