------------------------------ MODULE Reading -------------------------------
(***************************************************************************)
(* What the preview does with a rendered frame: ViewTransform maps it to   *)
(* the window and back, HitTester finds the link and PreviewSelection the  *)
(* character under the pointer. View lengths are hundredths of a pixel, so *)
(* that a scale in percent divides exactly; right-to-left runs are left    *)
(* out.                                                                    *)
(***************************************************************************)
EXTENDS Layout

CONSTANTS
    Scales,    \* percent
    Viewports  \* widths of the window

LayoutInit ==
    /\ request \in LayoutRequests
    /\ drawn \in DrawnDocuments
    /\ rendered = Unrendered

Render ==
    /\ rendered = Unrendered
    /\ rendered' = MarkdownLayout(request, drawn)
    /\ UNCHANGED <<request, drawn>>

(***************************************************************************)
(* ViewTransform.                                                          *)
(***************************************************************************)
Configured(req, frame, viewport, percent) ==
    LET scale == Clamped(1, percent, 3200) IN
    [paged |-> req.paged, pageHeight |-> req.height, pages |-> Greater(1, Len(frame.pages)),
     padding |-> IF req.paged THEN 1600 ELSE 0, scale |-> scale,
     offset |-> IF req.paged THEN Greater(1600, (100 * viewport - req.width * scale) \div 2) ELSE 0]

ToView(t, p) ==
    LET page == IF t.paged THEN Lesser(t.pages - 1, Greater(0, p.y \div t.pageHeight)) ELSE 0 IN
    [x |-> t.offset + p.x * t.scale, y |-> t.padding + p.y * t.scale + page * 2000]

\* In the gap between two pages, the lower half belongs to the next page.
ToDocument(t, v) ==
    IF ~t.paged THEN [x |-> v.x \div t.scale, y |-> v.y \div t.scale]
    ELSE LET tall == t.pageHeight * t.scale
             local == Greater(0, v.y - t.padding)
             on == Lesser(t.pages - 1, local \div (tall + 2000))
             below == local - on * (tall + 2000)
             next == below >= tall + 1000 /\ on + 1 < t.pages
             page == IF next THEN on + 1 ELSE on
             within == IF next THEN 0 ELSE below \div t.scale
         IN [x |-> (v.x - t.offset) \div t.scale,
             y |-> page * t.pageHeight + Clamped(0, within, t.pageHeight - 1)]

(***************************************************************************)
(* HitTester and PreviewSelection.                                         *)
(***************************************************************************)
Holds(run, p) == p.x >= run.x /\ p.y >= run.y /\ p.x < run.x + run.w /\ p.y < run.y + run.h

\* The search begins at the first run no higher than the tallest run above p.
HitLink(frame, p) ==
    LET near == {i \in DOMAIN frame.runs : /\ frame.runs[i].y >= p.y - frame.tallest
                                           /\ frame.runs[i].y <= p.y
                                           /\ frame.runs[i].link # "" /\ Holds(frame.runs[i], p)}
    IN IF near = {} THEN "" ELSE frame.runs[Min(near)].link

\* The characters of a run and where they are drawn.
Clusters(run) ==
    IF run.kind = "visual" THEN <<[from |-> run.from, to |-> run.to, x |-> run.x, w |-> run.w]>>
    ELSE [i \in DOMAIN run.text |->
            [from |-> Lesser(run.from + i - 1, run.to), to |-> Lesser(run.from + i, run.to),
             x |-> run.x + Extent(SubSeq(run.text, 1, i - 1), run.font).w, w |-> CharWidth[run.text[i]]]]

Apart(low, x, size) == Greater(0, Greater(low - x, x - low - size))
\* 400 is far enough: a bound that keeps the score within TLC's integers.
Score(run, p) ==
    LET dy == Lesser(400, Apart(run.y, p.y, run.h))  dx == Apart(run.x, p.x, run.w)
    IN dy * dy * 10000 + dx * dx

Hit(frame, p) ==
    LET runs == {i \in DOMAIN frame.runs : frame.runs[i].from # -1}
        nearest == CHOOSE i \in runs : \A j \in runs :
                      \/ Score(frame.runs[i], p) < Score(frame.runs[j], p)
                      \/ Score(frame.runs[i], p) = Score(frame.runs[j], p) /\ i <= j
        edges == FlattenSeq([k \in DOMAIN Clusters(frame.runs[nearest]) |->
                   LET c == Clusters(frame.runs[nearest])[k] IN
                   <<[at |-> c.x, position |-> c.from], [at |-> c.x + c.w, position |-> c.to]>>])
        away(k) == Apart(edges[k].at, p.x, 0)
        closest == CHOOSE k \in DOMAIN edges : \A j \in DOMAIN edges :
                      away(k) < away(j) \/ (away(k) = away(j) /\ k <= j)
    IN IF runs = {} THEN 0 ELSE Lesser(edges[closest].position, Len(frame.text))

\* The rectangles painted for the selection of characters b + 1 .. e.
SelectedBoxes(frame, b, e) ==
    LET boxes == FlattenSeq([i \in DOMAIN frame.runs |->
                   LET run == frame.runs[i]
                       chosen == SelectSeq(Clusters(run), LAMBDA c : c.to > b /\ c.from < e)
                   IN IF run.from = -1 \/ run.to <= b \/ run.from >= e THEN <<>>
                      ELSE [k \in DOMAIN chosen |->
                              [x |-> chosen[k].x, y |-> run.y, w |-> chosen[k].w, h |-> run.h]]])
        joins(out, box) == /\ out # <<>> /\ Last(out).y = box.y /\ Last(out).h = box.h
                           /\ Last(out).x + Last(out).w = box.x
    IN IF b = e THEN <<>>
       ELSE FoldLeft(LAMBDA out, box : IF joins(out, box)
                                       THEN [out EXCEPT ![Len(out)].w = @ + box.w]
                                       ELSE Append(out, box), <<>>, boxes)

-----------------------------------------------------------------------------
Letters == DOMAIN CharWidth \ {" ", "\t", "\r", "\n"}
Texts == {i \in DOMAIN rendered.runs : rendered.runs[i].kind = "text" /\ rendered.runs[i].exact}
Printable == request.height - 2 * request.margin
PageOf(i) == PageAt(rendered.pages, rendered.lines[i].top)
Bottom(i) == rendered.lines[i].top + rendered.lines[i].height
FitOnPaper(i, j) == Bottom(j) - rendered.lines[i].top <= Printable

\* No letter is lost or drawn twice, and a run is drawn with its own text.
LettersAreDrawnOnce ==
    \A i \in 1 .. Len(rendered.text) : rendered.text[i] \in Letters =>
       Cardinality({k \in DOMAIN rendered.runs :
                      /\ rendered.runs[k].kind = "visual" \/ k \in Texts
                      /\ rendered.runs[k].from < i /\ i <= rendered.runs[k].to
                      /\ k \in Texts => rendered.runs[k].text[i - rendered.runs[k].from]
                                          = rendered.text[i]}) = 1

\* Lines are stacked; nothing drawn overlaps; what is read first is drawn first.
NothingOverlaps ==
    /\ \A i, j \in DOMAIN rendered.lines : i < j =>
          rendered.lines[i].top + rendered.lines[i].height <= rendered.lines[j].top
    /\ \A i, j \in DOMAIN rendered.runs : i < j =>
          LET a == rendered.runs[i]  b == rendered.runs[j] IN
          a.w > 0 /\ b.w > 0 =>
             \/ a.x + a.w <= b.x \/ b.x + b.w <= a.x
             \/ a.y + a.h <= b.y \/ b.y + b.h <= a.y

\* Every line is on one page, in order, and a page holds what fits on paper.
\* A line is parted from the next of its group, where the group fits on paper,
\* for one reason only: the next line has a group that reaches further, and
\* there is no room for that one on the page. So a heading stays with a line
\* of text that follows it, but not with a heading that follows it.
PagesHoldTheirLines ==
    LET group(i) == Lesser(Len(rendered.lines), i + rendered.lines[i].keep)
    IN request.paged =>
       /\ \A i \in DOMAIN rendered.lines :
             /\ rendered.lines[i].top >= rendered.pages[PageOf(i)].top
             /\ Bottom(i) <= rendered.pages[PageOf(i)].bottom
       /\ \A k \in DOMAIN rendered.pages :
             rendered.pages[k].bottom - rendered.pages[k].top <= Printable
       /\ \A i \in 1 .. Len(rendered.lines) - 1 :
             rendered.lines[i].keep > 0 /\ FitOnPaper(i, group(i)) /\ PageOf(i + 1) # PageOf(i)
                => /\ group(i + 1) > group(i)
                   /\ Bottom(group(i + 1)) - rendered.pages[PageOf(i)].top > Printable
       /\ \A k \in DOMAIN rendered.runs :
             LET r == rendered.runs[k]
                 at == r.y % request.height
             IN /\ r.x + r.w <= request.width - request.margin
                /\ at >= request.margin /\ at + r.h <= request.height - request.margin

\* Functionality-017, 4: headings are kept with the next line of content when
\* there is room for both on a page. Only the lines of a heading keep two.
HeadingsStay ==
    LET heading(i) == rendered.lines[i].keep = 2
        content(i) == {j \in i + 1 .. Len(rendered.lines) : ~heading(j)}
    IN request.paged /\ ~RenderFailed(rendered) =>
       \A i \in DOMAIN rendered.lines :
          heading(i) /\ content(i) # {} /\ FitOnPaper(i, Min(content(i)))
             => PageOf(Min(content(i))) = PageOf(i)

\* Layout gives up only for want of room: for a table or for a column that is
\* narrower than a character.
FailuresAreForWantOfRoom ==
    RenderFailed(rendered) /\ rendered # Unrendered =>
       \E k \in DOMAIN drawn :
          \/ rendered.error \in {"columns", "row", "tall"} /\ drawn[k].kind = "Table"
          \/ /\ rendered.error = "wide"
             /\ request.width - 2 * request.margin - 24 * drawn[k].indent - 16 * drawn[k].quote
                  < 4 * CharWidth[" "]

\* A point of the paper is found again where the view shows it.
ViewIsExact ==
    \A percent \in Scales, viewport \in Viewports :
       LET t == Configured(request, rendered, viewport, percent) IN
       \A y \in {k \in 0 .. rendered.height - 1 : k % 7 \in {0, 6}} \cup {request.height - 1} :
          LET p == [x |-> 3, y |-> Lesser(y, rendered.height - 1)] IN ToDocument(t, ToView(t, p)) = p

\* The pointer finds the letter it is on, and its link; a selection paints the
\* letters it copies and no other.
PointerFindsTheText ==
    \A k \in Texts :
       LET r == rendered.runs[k]
           clusters == Clusters(r)
       IN \A i \in {1, 2, Len(clusters)} \cap DOMAIN clusters :
             LET c == clusters[i]
                 p == [x |-> c.x + 1, y |-> r.y + r.h \div 2]
             IN /\ Hit(rendered, p) = c.from
                /\ HitLink(rendered, p) = r.link
                /\ \A b \in Greater(0, c.from - 2) .. c.from + 1 :
                      LET boxes == SelectedBoxes(rendered, b, b + 2) IN
                      c.from \in {b, b + 1} <=> \E j \in DOMAIN boxes : Holds(boxes[j], p)

\* A document is laid out whole: no letter is lost, nothing overlaps, pages
\* hold their lines, and the pointer finds again what is drawn
\* (MarkdownRenderer::layout, ViewTransform, HitTester, PreviewSelection).
DocumentIsLaidOut ==
    /\ FailuresAreForWantOfRoom
    /\ ~RenderFailed(rendered) =>
          /\ LettersAreDrawnOnce
          /\ NothingOverlaps
          /\ PagesHoldTheirLines
          /\ ViewIsExact
          /\ PointerFindsTheText

=============================================================================
