------------------------------- MODULE Layout -------------------------------
(***************************************************************************)
(* MarkdownRenderer::layout: blocks become lines and drawn runs            *)
(* (BlockLayout, InlineLayout, TableLayout), lines become pages            *)
(* (PageBreaker) and everything drawn moves to its page (PageComposer,     *)
(* PageAnchorIndex). The polls for cancellation, the complexity limits,    *)
(* diagrams, colours and the rules of a table are left out. Lengths are    *)
(* integers; a character is a cluster of the shaper.                       *)
(***************************************************************************)
EXTENDS Integers, Sequences, SequencesExt, FiniteSets, FiniteSetsExt, TLC

CONSTANTS
    CharWidth,    \* the width of each character, those that are not drawn too
    DrawnDocuments,  \* documents: sequences of blocks
    LayoutRequests   \* requests: paged, width, and the paper's width, height, margin

VARIABLES
    request,   \* LayoutRequest
    drawn,     \* the SemanticDocument
    rendered   \* the RenderFrame, Unrendered, or [error |-> why]

layoutVars == <<request, drawn, rendered>>

Unrendered == [error |-> "none"]
RenderFailed(f) == DOMAIN f = {"error"}

Greater(a, b) == IF a > b THEN a ELSE b
Lesser(a, b) == IF a < b THEN a ELSE b
Clamped(low, x, high) == Lesser(high, Greater(low, x))
Scaled(x, num, den) == (x * num) \div den
Sum(s) == FoldLeft(LAMBDA a, b : a + b, 0, s)

(***************************************************************************)
(* ITextMetrics.                                                           *)
(***************************************************************************)
Font(points, bold, mono) == [points |-> points, bold |-> bold, mono |-> mono]
Extent(text, font) ==
    [w |-> Sum([i \in DOMAIN text |-> CharWidth[text[i]]]), h |-> font.points + 4,
     ascent |-> font.points]

(***************************************************************************)
(* InlineLayout. st: the pen x, y, the line's height and ascent, its first *)
(* run, and the frame. p: the column and how to fill it.                   *)
(***************************************************************************)
FreshLine(p, st) ==
    [st EXCEPT !.x = p.left, !.first = Len(st.frame.runs) + 1,
               !.height = Extent(<<>>, p.font).h + 4, !.ascent = Extent(<<>>, p.font).ascent]

ReadingOrder(a, b) == a.y < b.y \/ (a.y = b.y /\ a.x < b.x)
SortedFrom(runs, first) ==
    SubSeq(runs, 1, first - 1) \o SortSeq(SubSeq(runs, first, Len(runs)), ReadingOrder)

FinishLine(p, st) ==
    LET slack == Greater(0, p.width - (st.x - p.left))
        shift == CASE p.align = "right" -> slack
                   [] p.align = "center" -> slack \div 2
                   [] OTHER -> 0
        moved == [i \in DOMAIN st.frame.runs |->
                    IF i < st.first THEN st.frame.runs[i]
                    ELSE [st.frame.runs[i] EXCEPT !.x = @ + shift,
                                                  !.y = @ + st.ascent - st.frame.runs[i].ascent]]
        line == SubSeq(moved, st.first, Len(moved))
        regions == [i \in DOMAIN line |->
                      [src |-> line[i].src, x |-> line[i].x, y |-> st.y, w |-> line[i].w,
                       h |-> st.height]]
        f == [st.frame EXCEPT !.lines = Append(@, [top |-> st.y, height |-> st.height, keep |-> 0]),
                              !.anchors = @ \o regions,
                              !.runs = SortedFrom(moved, st.first)]
    IN FreshLine(p, [st EXCEPT !.frame = f, !.y = @ + st.height])

\* The pen moves past something of width w drawn at it.
Pushed(p, st, run) ==
    [st EXCEPT !.x = @ + run.w, !.height = Greater(@, run.h + 4), !.ascent = Greater(@, run.ascent),
               !.frame.runs = Append(@, run), !.frame.content = Greater(@, st.x + run.w + p.right)]

\* emit: what continues the last run of the line is merged into it.
Emit(p, st, run) ==
    LET at == Len(st.frame.runs)
        last == st.frame.runs[at]
        merges == /\ at >= st.first
                  /\ last.kind = "text"
                  /\ last.font = run.font /\ last.link = run.link /\ last.back = run.back
                  /\ last.src[1] # last.src[2] /\ last.src[2] = run.src[1]
                  /\ last.exact = run.exact /\ last.y = run.y
                  /\ last.ascent = run.ascent /\ last.h = run.h
        pushed == Pushed(p, st, run)
    IN IF ~merges THEN pushed
       ELSE [pushed EXCEPT !.frame.runs =
               [st.frame.runs EXCEPT
                  ![at] = [last EXCEPT !.to = run.to, !.text = @ \o run.text, !.w = @ + run.w,
                                       !.src = <<last.src[1], run.src[2]>>]]]

\* A run of text drawn at the pen: characters b + 1 .. e of the inline run.
TextRun(p, st, run, font, base, b, e) ==
    LET text == SubSeq(run.text, b + 1, e)
        size == Extent(text, font)
    IN [kind |-> "text", text |-> text, font |-> font, x |-> st.x, y |-> st.y, w |-> size.w,
        h |-> size.h, ascent |-> size.ascent, src |-> <<run.src + b, run.src + e>>, exact |-> TRUE,
        link |-> run.link, back |-> run.code /\ ~p.code, from |-> base + b, to |-> base + e]

\* A tab is four spaces; its textBegin is that of its inline run.
TabRun(p, st, run, font, base, at) ==
    LET size == Extent(<<" ", " ", " ", " ">>, font) IN
    [TextRun(p, st, run, font, base, at, at + 1) EXCEPT
        !.text = <<" ", " ", " ", " ">>, !.w = size.w, !.exact = FALSE, !.from = base]

Full(p, st, w) == st.x > p.left /\ st.x + w > p.left + p.width

\* Where the word that begins at character at + 1 ends.
WordEnd(text, at) ==
    LET stops == {e \in at + 1 .. Len(text) - 1 : text[e + 1] \in {" ", "\n", "\r", "\t"}} IN
    IF text[at + 1] = " " THEN at + 1 ELSE IF stops = {} THEN Len(text) ELSE Min(stops)

\* A word wider than the column is cut at clusters, as much as fits each time.
RECURSIVE Cut(_, _, _, _, _, _, _)
Cut(p, st, run, font, base, b, e) ==
    LET fits == {s \in b + 1 .. e : Extent(SubSeq(run.text, b + 1, s), font).w <= p.width}
        stop == IF fits = {} THEN b + 1 ELSE Max(fits)
        next == Emit(p, st, TextRun(p, st, run, font, base, b, stop))
    IN IF stop = e THEN next ELSE Cut(p, FinishLine(p, next), run, font, base, stop, e)

RECURSIVE Words(_, _, _, _, _, _)
Words(p, st, run, font, base, at) ==
    IF at = Len(run.text) THEN st
    ELSE LET c == run.text[at + 1]
             e == WordEnd(run.text, at)
             w == Extent(SubSeq(run.text, at + 1, e), font).w
             wraps == ~(p.code /\ ~p.wrap)
             s == IF wraps /\ Full(p, st, w) THEN FinishLine(p, st) ELSE st
             tab == IF p.wrap /\ Full(p, st, 4 * CharWidth[" "]) THEN FinishLine(p, st) ELSE st
         IN CASE c = "\r" -> Words(p, st, run, font, base, at + 1)
              [] c = "\n" ->
                   LET region == [src |-> <<run.src + at, run.src + at + 1>>, x |-> st.x,
                                  y |-> st.y, w |-> 1, h |-> st.height]
                   IN Words(p, FinishLine(p, [st EXCEPT !.frame.anchors = Append(@, region)]),
                            run, font, base, at + 1)
              [] c = "\t" ->
                   Words(p, Emit(p, tab, TabRun(p, tab, run, font, base, at)), run, font, base,
                         at + 1)
              [] c \notin {"\r", "\n", "\t"} /\ wraps /\ ~p.code /\ c = " " /\ s.x = p.left ->
                   Words(p, s, run, font, base, e)
              [] OTHER ->
                   Words(p, IF wraps /\ w > p.width THEN Cut(p, s, run, font, base, at, e)
                            ELSE Emit(p, s, TextRun(p, s, run, font, base, at, e)),
                         run, font, base, e)

\* LinkMarker::make: web links and links to Markdown carry a mark.
Marker(p, st, run) ==
    LET size == Extent(IF run.link = "web" THEN <<"^", " ">> ELSE <<"#", " ">>,
                       Font(p.font.points, FALSE, FALSE)) IN
    [kind |-> "marker", text |-> <<>>, font |-> Font(p.font.points, FALSE, FALSE), x |-> st.x,
     y |-> st.y, w |-> size.w, h |-> size.h, ascent |-> size.ascent,
     src |-> <<run.src, run.src>>, exact |-> FALSE, link |-> run.link, back |-> FALSE,
     from |-> -1, to |-> -1]

Marked(p, st, run, previous) ==
    IF run.link = "" \/ run.link = previous THEN st
    ELSE LET w == Marker(p, st, run).w + Extent(<<"m">>, p.font).w
             s == IF Full(p, st, w) THEN FinishLine(p, st) ELSE st
         IN Pushed(p, s, Marker(p, s, run))

\* An embedded formula or image, shrunk to the column.
Shrunk(v, p) ==
    LET by(num, den) == [v EXCEPT !.w = Scaled(@, num, den), !.h = Scaled(@, num, den),
                                  !.ascent = Scaled(@, num, den)]
    IN CASE v.w <= p.width /\ v.h <= p.tallest -> v
         [] p.width * v.h <= p.tallest * v.w /\ v.w > p.width -> by(p.width, v.w)
         [] OTHER -> by(p.tallest, v.h)

Embedded(p, st, run, font, base) ==
    LET v == Shrunk(run.visual, p)
        s0 == IF st.x > p.left /\ (v.display \/ st.x + v.w > p.left + p.width)
              THEN FinishLine(p, st) ELSE st
        s == [s0 EXCEPT !.frame.tallest = Greater(@, v.h)]
        pushed == Pushed(p, s, [TextRun(p, s, run, font, base, 0, Len(run.text)) EXCEPT
                                  !.kind = "visual", !.w = v.w, !.h = v.h, !.ascent = v.ascent])
    IN IF v.display
       THEN FinishLine(p, [pushed EXCEPT
                             !.frame.runs[Len(pushed.frame.runs)].x = @ + (p.width - v.w) \div 2])
       ELSE pushed

RECURSIVE Runs(_, _, _, _, _)
Runs(p, st, runs, i, previous) ==
    IF i > Len(runs) THEN st
    ELSE LET run == runs[i]
             font == Font(IF run.code /\ p.code THEN 11 ELSE p.font.points, p.font.bold,
                          p.font.mono \/ run.code)
             base == Len(st.frame.text)
             read == [st EXCEPT !.frame.text = @ \o run.text]
             s == Marked(p, read, run, previous)
         IN Runs(p, IF run.visual.w > 0 THEN Embedded(p, s, run, font, base)
                    ELSE Words(p, s, run, font, base, 0),
                 runs, i + 1, run.link)

LastLine(p, st) ==
    IF st.first <= Len(st.frame.runs) \/ st.y = p.top THEN FinishLine(p, st) ELSE st

\* InlineLayout::layout: the frame, and where the text ends.
Inline(p, runs, frame) ==
    LET f == IF frame.text = <<>> THEN frame ELSE [frame EXCEPT !.text = Append(@, "\n")]
    IN LastLine(p, Runs(p, FreshLine(p, [x |-> p.left, y |-> p.top, first |-> 1, height |-> 0,
                                         ascent |-> 0, frame |-> f]), runs, 1, ""))

\* The height an embedded formula or image may take.
Tallest(req) == IF req.paged THEN req.height - 2 * req.margin - 60 ELSE 1000

(***************************************************************************)
(* TableLayout.                                                            *)
(***************************************************************************)
CellPadding == 5
MinimumColumn == 34

PreferredWidth(cell) ==
    LET w == 2 * CellPadding
             + Sum([i \in DOMAIN cell |->
                      Extent(cell[i].text, Font(12, FALSE, FALSE)).w
                      + IF cell[i].link = "" THEN 0
                        ELSE Extent(<<"^", " ">>, Font(12, FALSE, FALSE)).w])
    IN IF w >= 240 THEN 240 ELSE Greater(MinimumColumn, w)

\* What each column gets of the table's width: no less than its header wants,
\* where there is room for that, and the rest in proportion to what it wants.
ColumnWidths(table, total) ==
    LET columns == DOMAIN table.alignments
        n == Len(table.alignments)
        wanted(i) == {PreferredWidth(table.rows[r].cells[i]) :
                        r \in {k \in DOMAIN table.rows : i <= Len(table.rows[k].cells)}}
        headers(i) == {r \in DOMAIN table.rows :
                         table.rows[r].header /\ i <= Len(table.rows[r].cells)}
        widths == [i \in columns |-> Max(wanted(i) \cup {MinimumColumn})]
        asked == [i \in columns |->
                    IF headers(i) = {} THEN MinimumColumn
                    ELSE Lesser(96, PreferredWidth(table.rows[Max(headers(i))].cells[i]))]
        base == MinimumColumn * n
        extra == Sum(asked) - base
        minima == IF extra > 0 /\ extra > total - base
                  THEN [i \in columns |->
                          MinimumColumn + Scaled(asked[i] - MinimumColumn, total - base, extra)]
                  ELSE asked
        desired == Sum(widths) - Sum(minima)
    IN [i \in columns |->
          minima[i] + (IF desired > 0 THEN Scaled(widths[i] - minima[i], total - Sum(minima), desired)
                       ELSE (total - Sum(minima)) \div n)]

\* st: the frame with the cell's text. made: the frame and the row's height.
CellPlaced(row, x, y, width, made, st) ==
    LET h == st.y - (y + CellPadding) + 2 * CellPadding
        cell == [src |-> row.src, x |-> x, y |-> y, w |-> width, h |-> h]
    IN <<[st.frame EXCEPT !.lines = made[1].lines, !.anchors = Append(@, cell)], Greater(made[2], h)>>

\* The cells of a row side by side; the whole row is one line of the flow.
RECURSIVE RowCells(_, _, _, _, _, _, _, _)
RowCells(req, row, table, widths, i, x, y, made) ==
    IF i > Len(widths) THEN made
    ELSE LET column == [left |-> x + CellPadding, top |-> y + CellPadding,
                        width |-> widths[i] - 2 * CellPadding, font |-> Font(12, row.header, FALSE),
                        wrap |-> TRUE, align |-> table.alignments[i], right |-> 0, code |-> FALSE,
                        tallest |-> Tallest(req)]
             runs == IF i <= Len(row.cells) THEN row.cells[i] ELSE <<>>
         IN RowCells(req, row, table, widths, i + 1, x + widths[i], y,
                     CellPlaced(row, x, y, widths[i], made, Inline(column, runs, made[1])))

\* made: the frame with the cells added to `before`, and the row's height.
RowPlaced(req, row, left, total, y, before, made) ==
    LET f == made[1]  height == made[2]
        stretched == [i \in DOMAIN f.anchors |->
                        IF i > Len(before.anchors) /\ f.anchors[i].y = y
                        THEN [f.anchors[i] EXCEPT !.h = height] ELSE f.anchors[i]]
        whole == [src |-> row.src, x |-> left, y |-> y, w |-> total, h |-> height]
    IN <<IF req.paged /\ height > req.height - 2 * req.margin THEN [error |-> "row"]
         ELSE [f EXCEPT !.lines = Append(@, [top |-> y, height |-> height,
                                             keep |-> IF row.header THEN 1 ELSE 0]),
                        !.runs = SortedFrom(@, Len(before.runs) + 1),
                        !.anchors = Append(stretched, whole),
                        !.surfaces = Append(@, [x |-> left, y |-> y, w |-> total, h |-> height])],
         y + height>>

\* placed: the frame, and where the rows so far end.
RECURSIVE TableRows(_, _, _, _, _, _, _)
TableRows(req, table, widths, left, total, r, placed) ==
    IF RenderFailed(placed[1]) THEN placed
    ELSE IF r > Len(table.rows)
    THEN <<[placed[1] EXCEPT !.content = Greater(@, left + total + 24)], placed[2]>>
    ELSE TableRows(req, table, widths, left, total, r + 1,
                   RowPlaced(req, table.rows[r], left, total, placed[2], placed[1],
                             RowCells(req, table.rows[r], table, widths, 1, left, placed[2],
                                      <<placed[1], 0>>)))

TablePlaced(req, table, left, y, width, frame) ==
    LET total == Greater(width, MinimumColumn * Len(table.alignments)) IN
    IF req.paged /\ total > width THEN <<[error |-> "columns"], y>>
    ELSE TableRows(req, table, ColumnWidths(table, total), left, total, 1, <<frame, y>>)

(***************************************************************************)
(* BlockLayout.                                                            *)
(***************************************************************************)
HeadingPoints == <<26, 22, 19, 16, 14, 12>>

Keep(kind, i, first, last) ==
    CASE kind = "Heading" -> 2
      [] kind # "Heading" /\ last > first /\ i \in {first, last - 1} -> 1
      [] OTHER -> 0

ListMarker(block, font, left, y) ==
    LET size == Extent(block.marker, font) IN
    [kind |-> "marker", text |-> block.marker, font |-> font, x |-> left - size.w - 8, y |-> y,
     w |-> size.w, h |-> size.h, ascent |-> size.ascent, src |-> <<block.src, block.src>>,
     exact |-> FALSE, link |-> "", back |-> FALSE, from |-> -1, to |-> -1]

Grounded(block, left, y, width, st) ==
    LET ground == [x |-> left - 6, y |-> y - 4, w |-> Greater(width + 12, st.frame.content - left),
                   h |-> st.y - y + 8]
    IN <<IF block.kind = "Code" THEN [st.frame EXCEPT !.surfaces = Append(@, ground)] ELSE st.frame,
         st.y>>

\* A block of text: its list marker, its lines, and the ground of code.
TextPlaced(req, block, font, left, y, width, gutter, frame) ==
    LET marked == IF block.marker = <<>> THEN frame
                  ELSE [frame EXCEPT !.runs = Append(@, ListMarker(block, font, left, y))]
        column == [left |-> left, top |-> y, width |-> width, font |-> font,
                   wrap |-> req.paged, align |-> "left", right |-> Lesser(20, gutter),
                   code |-> block.kind = "Code", tallest |-> Tallest(req)]
    IN Grounded(block, left, y, width, Inline(column, block.runs, marked))

\* placed: the frame with the block, and where it ends. first: its first line.
BlockEnded(block, at, left, y, width, first, placed) ==
    LET f == placed[1]
        kept(i) == IF i < first \/ block.kind = "Table" THEN f.lines[i]
                   ELSE [f.lines[i] EXCEPT !.keep = Keep(block.kind, i, first, Len(f.lines))]
        region == [src |-> <<block.src, block.src + 1>>, x |-> left, y |-> y, w |-> width,
                   h |-> Greater(1, placed[2] - y)]
    IN IF RenderFailed(f) THEN <<f, at>>
       ELSE <<[f EXCEPT !.anchors = Append(@, region), !.lines = [i \in DOMAIN @ |-> kept(i)]],
              placed[2] + IF block.indent > 0 THEN 5 ELSE 10>>

BlockPlaced(req, block, at, frame) ==
    LET y == IF block.kind = "Heading" THEN at + 6 ELSE at
        font == CASE block.kind = "Heading" ->
                       Font(HeadingPoints[Clamped(1, block.level, 6)], TRUE, FALSE)
                  [] block.kind = "Code" -> Font(11, FALSE, TRUE)
                  [] OTHER -> Font(12, FALSE, FALSE)
        gutter == IF req.paged THEN 24 ELSE Lesser(24, Scaled(req.width, 15, 100))
        left == gutter + block.indent * 24 + block.quote * 16
        width == Greater(1, req.width - left - gutter)
    IN BlockEnded(block, at, left, y, width, Len(frame.lines) + 1,
         CASE block.kind = "Table" -> TablePlaced(req, block.table, left, y, width, frame)
           [] block.kind = "Rule" ->
                <<[frame EXCEPT !.lines = Append(@, [top |-> y, height |-> 20, keep |-> 0]),
                                !.surfaces = Append(@, [x |-> left, y |-> y + 8, w |-> width,
                                                        h |-> 1])], y + 20>>
           [] OTHER -> TextPlaced(req, block, font, left, y, width, gutter, frame))

\* laid: the frame, and where the next block begins.
RECURSIVE Blocks(_, _, _, _)
Blocks(req, blocks, i, laid) ==
    IF RenderFailed(laid[1]) THEN laid[1]
    ELSE IF i > Len(blocks) THEN [laid[1] EXCEPT !.height = Greater(60, laid[2] + 20)]
    ELSE Blocks(req, blocks, i + 1, BlockPlaced(req, blocks[i], laid[2], laid[1]))

(***************************************************************************)
(* PageBreaker.                                                            *)
(***************************************************************************)
RECURSIVE BreakFrom(_, _, _, _)
BreakFrom(lines, available, i, pages) ==
    IF i > Len(lines) THEN IF pages = <<>> THEN <<[top |-> 0, bottom |-> 0]>> ELSE pages
    ELSE LET line == lines[i]
             bottom == line.top + line.height
             final == lines[Lesser(Len(lines), i + line.keep)]
             group == final.top + final.height
             opens == \/ pages = <<>>
                      \/ bottom - Last(pages).top > available
                      \/ /\ line.keep > 0 /\ group - line.top <= available
                         /\ group - Last(pages).top > available
         IN BreakFrom(lines, available, i + 1,
                      IF opens THEN Append(pages, [top |-> line.top, bottom |-> bottom])
                      ELSE [pages EXCEPT ![Len(pages)].bottom = bottom])

\* Mutant of BreakLines: a group is kept together by looking at its first line only.
BreakUnkept(lines, available) ==
    BreakFrom([i \in DOMAIN lines |-> [lines[i] EXCEPT !.keep = 0]], available, 1, <<>>)

BreakLines(lines, available) == BreakFrom(lines, available, 1, <<>>)

(***************************************************************************)
(* PageComposer and PageAnchorIndex.                                       *)
(***************************************************************************)
PageAt(pages, y) == LET above == {k \in DOMAIN pages : pages[k].top <= y} IN
                    IF above = {} THEN 1 ELSE Max(above)

ToPage(req, pages, k, y) == (k - 1) * req.height + req.margin + y - pages[k].top

\* A rectangle of the flow is cut into its parts on each page.
Sliced(req, pages, r) ==
    LET at(k) == Greater(r.y, pages[k].top)
        end(k) == Lesser(r.y + r.h, pages[k].bottom)
        parts == SelectSeq([k \in DOMAIN pages |-> k], LAMBDA k : end(k) > at(k))
    IN [i \in DOMAIN parts |->
          [r EXCEPT !.x = @ + req.margin - 24, !.y = ToPage(req, pages, parts[i], at(parts[i])),
                    !.h = end(parts[i]) - at(parts[i])]]

ClippedToPaper(req, s) ==
    SelectSeq([i \in DOMAIN s |-> [s[i] EXCEPT !.w = Lesser(@, req.width - req.margin - s[i].x)]],
              LAMBDA r : r.w > 0)

Composed(req, frame) ==
    LET available == req.height - 2 * req.margin
        pages == BreakLines(frame.lines, available)
        runs == [i \in DOMAIN frame.runs |->
                   [frame.runs[i] EXCEPT !.x = @ + req.margin - 24,
                                         !.y = ToPage(req, pages, PageAt(pages, @), @)]]
    IN CASE \E i \in DOMAIN frame.lines : frame.lines[i].height > available -> [error |-> "tall"]
         [] \E i \in DOMAIN runs : runs[i].x + runs[i].w > req.width - req.margin -> [error |-> "wide"]
         [] OTHER ->
              [frame EXCEPT !.runs = runs, !.pages = pages, !.content = req.width,
                            !.height = req.height * Len(pages),
                            !.anchors = FlattenSeq([i \in DOMAIN @ |-> Sliced(req, pages, @[i])]),
                            !.surfaces = FlattenSeq([i \in DOMAIN @ |->
                                           ClippedToPaper(req, Sliced(req, pages, @[i]))])]

StablySortedByY(runs) ==
    LET before(i, j) == runs[i].y < runs[j].y \/ (runs[i].y = runs[j].y /\ i < j)
        order == SortSeq([k \in DOMAIN runs |-> k], before)
    IN [k \in DOMAIN runs |-> runs[order[k]]]

Paginated(req, f) == IF req.paged /\ ~RenderFailed(f) THEN Composed(req, f) ELSE f

Ordered(f) == IF RenderFailed(f) THEN f ELSE [f EXCEPT !.runs = StablySortedByY(@)]

\* MarkdownRenderer::layout. Paged, the flow is as wide as the paper allows.
MarkdownLayout(req, blocks) ==
    LET flow == [req EXCEPT !.width = IF req.paged THEN @ - 2 * req.margin + 48 ELSE @]
        blank == [runs |-> <<>>, lines |-> <<>>, anchors |-> <<>>, surfaces |-> <<>>,
                  text |-> <<>>, pages |-> <<>>, content |-> req.width, height |-> 0,
                  tallest |-> 150]
    IN Ordered(Paginated(req, Blocks(flow, blocks, 1, <<blank, 20>>)))

=============================================================================
