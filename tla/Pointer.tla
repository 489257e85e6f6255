------------------------------ MODULE Pointer -------------------------------
(***************************************************************************)
(* The reader's hand in the preview: FoxPreviewInput and PreviewSelection  *)
(* with what FoxRenderHost does to them.  Between pressing a button and    *)
(* releasing it the document, the layout and the frame on display may      *)
(* change, and another program may take the selection.                     *)
(***************************************************************************)
EXTENDS Integers

CONSTANTS
    Tokens,      \* versions of documents: <<document, revision>>
    Layouts,     \* layouts of one version
    Length,      \* bytes of reading text
    Links        \* Links[layout][position]: the link at a point of it, "" for none

ASSUME PointerAssumption ==
    /\ Length \in Nat /\ <<>> \notin Tokens
    /\ \A layout \in Layouts : DOMAIN Links[layout] = 0 .. Length

VARIABLES
    pane,        \* FoxRenderHost: expected, current (optional), active
    hand,        \* buttons, where and over what they were pressed, clickCancelled
    selection,   \* PreviewSelection; and the token its ends are of (for the properties)
    owned,       \* this window has the primary selection
    clipboard,   \* clipboardText: of which text, from where to where
    followed     \* the link this press led to, with the frame of the press (for the properties)

pointerVars == <<pane, hand, selection, owned, clipboard, followed>>

Frames == [token : Tokens, layout : Layouts]
NoFrame == [token |-> <<>>, layout |-> ""]
NoLink == [link |-> "", pressed |-> NoFrame, released |-> NoFrame]
NoSelection == [anchor |-> 0, caret |-> 0, of |-> <<>>]
NoText == [of |-> <<>>, begin |-> 0, end |-> 0]

PointerInit ==
    \E token \in Tokens :
       /\ pane = [expected |-> token, current |-> NoFrame, active |-> FALSE]
       /\ hand = [buttons |-> {}, point |-> 0, over |-> NoFrame, link |-> "", cancelled |-> FALSE,
                  meant |-> NoFrame]
       /\ selection = NoSelection /\ owned = FALSE /\ clipboard = NoText /\ followed = NoLink

FrameVisible == pane.active /\ pane.current # NoFrame
SelectsNothing(s) == s.anchor = s.caret

(***************************************************************************)
(* FoxRenderHost.                                                          *)
(***************************************************************************)
\* expect and expectLayout; only a new document takes the frame away.
Expect(token, resets) ==
    /\ hand' = [hand EXCEPT !.cancelled = TRUE]
    /\ pane' = [expected |-> token, active |-> FALSE,
                current |-> IF resets /\ token[1] # pane.expected[1] THEN NoFrame ELSE pane.current]
    /\ selection' = IF token # pane.expected THEN NoSelection ELSE selection
    /\ UNCHANGED <<owned, clipboard, followed>>

\* present
PresentFrame(frame) ==
    /\ frame.token = pane.expected
    /\ pane' = [pane EXCEPT !.current = frame, !.active = TRUE]
    /\ selection' = IF pane.current.token # frame.token THEN NoSelection ELSE selection
    /\ UNCHANGED <<hand, owned, clipboard, followed>>

\* layout and setViewScale, when a new layout is asked for.
Deactivate ==
    /\ pane.active
    /\ pane' = [pane EXCEPT !.active = FALSE]
    /\ UNCHANGED <<hand, selection, owned, clipboard, followed>>

(***************************************************************************)
(* FoxPreviewInput. A point is the position in the text it hits.           *)
(***************************************************************************)
LinkAt(point) == Links[pane.current.layout][point]

Selected(at, extend) ==
    IF extend THEN [selection EXCEPT !.caret = at, !.of = pane.current.token]
    ELSE [anchor |-> at, caret |-> at, of |-> pane.current.token]

\* onButtonPress: the first button counts if it is the left one, alone.
PressFirst(bit, point, shift, alone) ==
    LET clean == bit = "left" /\ alone  over == clean /\ FrameVisible IN
    /\ hand.buttons = {}
    /\ hand' = [buttons |-> {bit}, point |-> point, cancelled |-> ~clean \/ shift,
                over |-> IF over THEN pane.current ELSE NoFrame,
                link |-> IF over THEN LinkAt(point) ELSE "",
                meant |-> pane.current]
    /\ selection' = IF over THEN Selected(point, shift) ELSE selection
    /\ followed' = NoLink
    /\ UNCHANGED <<pane, owned, clipboard>>

PressMore(bit) ==
    /\ hand.buttons # {}
    /\ hand' = [hand EXCEPT !.buttons = @ \cup {bit}, !.cancelled = TRUE]
    /\ UNCHANGED <<pane, selection, owned, clipboard, followed>>

\* onMotion: beyond the drag distance the press is no click but a selection.
Move(point) ==
    /\ hand.buttons # {}
    /\ LET cancelled == hand.cancelled \/ point # hand.point IN
       /\ hand' = [hand EXCEPT !.cancelled = cancelled]
       /\ selection' = IF /\ hand.buttons = {"left"} /\ cancelled /\ FrameVisible
                          /\ hand.over = pane.current
                       THEN Selected(point, TRUE) ELSE selection
    /\ UNCHANGED <<pane, owned, clipboard, followed>>

\* Mutant of Clicks: the frame of the press is not compared.
ClicksAnywhere(bit, point, alone) ==
    /\ hand.buttons = {"left"} /\ bit = "left" /\ alone /\ ~hand.cancelled
    /\ FrameVisible /\ point = hand.point
    /\ LinkAt(point) # "" /\ LinkAt(point) = hand.link

\* onPointer: a click is a press and a release on one link of one frame.
Clicks(bit, point, alone) ==
    /\ hand.buttons = {"left"} /\ bit = "left" /\ alone /\ ~hand.cancelled
    /\ FrameVisible /\ hand.over = pane.current /\ point = hand.point
    /\ LinkAt(point) # "" /\ LinkAt(point) = hand.link

Release(bit, point, alone) ==
    LET rest == hand.buttons \ {bit} IN
    /\ bit \in hand.buttons
    /\ followed' = IF Clicks(bit, point, alone)
                   THEN [link |-> hand.link, pressed |-> hand.meant, released |-> pane.current]
                   ELSE followed
    /\ owned' = (owned \/ (rest = {} /\ bit = "left" /\ FrameVisible /\ ~SelectsNothing(selection)))
    /\ hand' = IF rest = {} \/ Clicks(bit, point, alone)
               THEN [hand EXCEPT !.buttons = rest, !.over = NoFrame, !.link = "", !.meant = NoFrame]
               ELSE [hand EXCEPT !.buttons = rest]
    /\ UNCHANGED <<pane, selection, clipboard>>

\* onUngrabbed
Ungrab ==
    /\ hand.buttons # {}
    /\ hand' = [hand EXCEPT !.buttons = {}, !.over = NoFrame, !.link = "", !.cancelled = TRUE]
    /\ UNCHANGED <<pane, selection, owned, clipboard, followed>>

\* onSelectionLost
Lose ==
    /\ owned
    /\ owned' = FALSE /\ selection' = NoSelection
    /\ UNCHANGED <<pane, hand, clipboard, followed>>

\* onKeyPress: Control+A, Control+C and Escape.
SelectAll ==
    /\ FrameVisible
    /\ selection' = [anchor |-> 0, caret |-> Length, of |-> pane.current.token]
    /\ owned' = TRUE
    /\ UNCHANGED <<pane, hand, clipboard, followed>>

Copy ==
    /\ FrameVisible /\ ~SelectsNothing(selection)
    /\ LET ends == {selection.anchor, selection.caret}
           begin == CHOOSE x \in ends : \A y \in ends : x <= y
           end == CHOOSE x \in ends : \A y \in ends : y <= x
       IN clipboard' = [of |-> pane.current.token, begin |-> begin, end |-> end]
    /\ UNCHANGED <<pane, hand, selection, owned, followed>>

Unselect ==
    /\ selection' = NoSelection
    /\ UNCHANGED <<pane, hand, owned, clipboard, followed>>

Points == 0 .. Length

PointerNext ==
    \/ \E token \in Tokens, resets \in BOOLEAN : Expect(token, resets)
    \/ \E frame \in Frames : PresentFrame(frame)
    \/ \E point \in Points, yes \in BOOLEAN, alone \in BOOLEAN, bit \in {"left", "right"} :
          PressFirst(bit, point, yes, alone) \/ Release(bit, point, alone)
    \/ \E bit \in {"left", "right"} : PressMore(bit)
    \/ \E point \in Points : Move(point)
    \/ Deactivate \/ Ungrab \/ Lose \/ SelectAll \/ Copy \/ Unselect

PointerSpec == PointerInit /\ [][PointerNext]_pointerVars

(***************************************************************************)
(* Properties.                                                             *)
(***************************************************************************)
PointerTypeOK ==
    /\ pane.expected \in Tokens /\ pane.current \in Frames \cup {NoFrame} /\ pane.active \in BOOLEAN
    /\ hand.buttons \subseteq {"left", "right"} /\ hand.over \in Frames \cup {NoFrame}
    /\ {selection.anchor, selection.caret, clipboard.begin, clipboard.end} \subseteq Points

\* What is selected was selected in the text on display, and a link that is
\* followed is the one under the pointer in the very frame it was pressed in:
\* no document, layout or frame that comes between press and release turns a
\* click into another one, or a selection into other words.
HandIsFollowed ==
    /\ FrameVisible /\ ~SelectsNothing(selection) => selection.of = pane.current.token
    /\ followed.link # "" => followed.pressed = followed.released
    /\ clipboard.begin < clipboard.end \/ clipboard = NoText
    /\ hand.over # NoFrame => hand.buttons # {}
=============================================================================
