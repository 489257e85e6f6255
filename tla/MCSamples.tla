----------------------------- MODULE MCSamples ------------------------------
(* Answers of the SDL tools, documents and regions for the instances.       *)
EXTENDS Integers, Sequences, SequencesExt, TLC

\* SDL: a source with two items, which may be nested, refer to one another,
\* or be unhealthy.
SdlItem(kind, children, reference, operation, healthy) ==
    [kind |-> kind, children |-> children, reference |-> reference, operation |-> operation,
     model |-> IF operation \in {"tree", "select"} THEN "S" ELSE "", healthy |-> healthy,
     deferred |-> operation = "tree"]
MCItems(operations) ==
    {SdlItem(kind, shape[1], shape[2], operation, healthy) :
       kind \in {"phase", "viewpoint"}, operation \in operations, healthy \in BOOLEAN,
       shape \in {<<c, "">> : c \in {<<>>, <<"a">>, <<"b">>, <<"b", "a">>}}
                   \cup {<<<<>>, r>> : r \in {"a", "b", "s"}}}
MCModels ==
    {[nodes |-> ("t" :> SdlItem("tab", <<"a", "b">>, "", "", TRUE)) @@ ("a" :> x) @@ ("b" :> y),
      roots |-> <<"t">>, revision |-> 0] : x \in MCItems({"", "select"}), y \in MCItems({""})}
MCReplies ==
    {[nodes |-> ("t" :> SdlItem("tab", <<"s", "o">>, "", "", TRUE))
                  @@ ("s" :> SdlItem("source", <<>>, "", "tree", TRUE))
                  @@ ("o" :> SdlItem("item", <<"s">>, reference, operation, TRUE)),
      roots |-> <<"t">>, revision |-> 0] : reference \in {"s", "x"}, operation \in {"open", ""}}

\* Documents: paragraphs that wrap, words wider than the column, links, tabs,
\* formulas, code, lists in quotes, headings in a row, tables that fit or do not.
MCWidth == [c \in {"m", "n", "i", " ", "^", "#", "\t", "\r", "\n"} |->
              CASE c \in {"m", "n"} -> 10 [] c \in {"\t", "\r", "\n"} -> 0 [] OTHER -> 5]
Letters10(n) == [i \in 1 .. n |-> IF i % 2 = 0 THEN "n" ELSE "m"]
Words15(n) == FlattenSeq([i \in 1 .. n |-> <<"m", "i", " ">>])
Plain(at, text) == [text |-> text, src |-> at, link |-> "", code |-> FALSE, visual |-> [w |-> 0]]
LinkedText(at, text, link) == [Plain(at, text) EXCEPT !.link = link]
Coded(at, text) == [Plain(at, text) EXCEPT !.code = TRUE]
Formula(at, display) ==
    [Plain(at, <<"m">>) EXCEPT !.visual = [w |-> 150, h |-> 30, ascent |-> 20, display |-> display]]
Block(kind, runs) ==
    [kind |-> kind, level |-> 1, indent |-> 0, quote |-> 0, marker |-> <<>>, src |-> 0, runs |-> runs]
Heading(level) == [Block("Heading", <<Plain(0, <<"m">>)>>) EXCEPT !.level = level]
ListItem(indent) ==
    [Block("Paragraph", <<Plain(0, Words15(5))>>) EXCEPT !.indent = indent, !.quote = 1,
                                                         !.marker = <<"#">>]
Paragraph == Block("Paragraph", <<Plain(0, Words15(4)), LinkedText(14, Letters10(3), "web"),
                                  Plain(20, Letters10(13))>>)
Lines == Block("Paragraph", <<Plain(0, <<"m", " ", "\r", "\n", "n", "\t", "i">>),
                              Coded(7, Letters10(2)), Plain(9, <<" ">>)>>)
Formulas(display) ==
    Block("Paragraph", <<Plain(0, Letters10(4)), Formula(9, display), Plain(12, Letters10(2))>>)
Code == Block("Code", <<Coded(0, <<"\t", "m", "\t", "\t", "n">> \o Letters10(9)),
                        Coded(20, <<"\n">>), Coded(21, Letters10(2))>>)
Rule == Block("Rule", <<>>)
TableRow(header, cells) == [header |-> header, cells |-> cells, src |-> <<0, 1>>]
Table(alignments, rows) ==
    Block("Table", <<>>) @@ [table |-> [alignments |-> alignments, rows |-> rows]]
Fitting == Table(<<"left", "right">>,
    <<TableRow(TRUE, <<<<Plain(0, Letters10(3))>>, <<LinkedText(4, Letters10(2), "md")>>>>),
      TableRow(FALSE, <<<<Plain(8, Words15(3))>>>>),
      TableRow(FALSE, <<<<>>, <<Plain(20, <<"m", "n", "\n", "i">>)>>>>)>>)
Tall == Table(<<"center">>, <<TableRow(TRUE, <<<<Plain(0, Letters10(3))>>>>),
                              TableRow(FALSE, <<<<Plain(8, Words15(20))>>>>)>>)
Wide == Table(<<"left", "left", "center", "right">>,
              <<TableRow(FALSE, <<<<Plain(0, Letters10(3))>>>>)>>)
MCDocuments ==
    {<<>>, <<Paragraph, Lines>>, <<Formulas(TRUE), Formulas(FALSE)>>, <<Code, ListItem(1)>>,
     <<Heading(1), Paragraph, Heading(2), Fitting>>, <<Heading(1), Code, Rule, Fitting>>,
     <<ListItem(1), Heading(3), Heading(4), Rule, Paragraph, Heading(9)>>, <<Tall>>, <<Wide>>,
     <<ListItem(4)>>, <<Block("Paragraph", <<>>), Rule, Lines>>}
MCRequests == {[paged |-> paged, width |-> width, height |-> height, margin |-> 24] :
                 paged \in BOOLEAN, width \in {148, 170}, height \in {160, 190}}

\* Anchors of a frame: regions side by side, nested, in reverse, a block that
\* begins with its first run, and a row of cells that share its source.
SampleRegion(begin, end, y, height) ==
    [begin |-> begin, end |-> end, y |-> y, height |-> height, quality |-> "exact"]
MCRegions ==
    {<<SampleRegion(0, 2, 0, 4), SampleRegion(2, 5, 4, 3), SampleRegion(5, 9, 9, 2)>>,
     <<SampleRegion(0, 9, 0, 10), SampleRegion(1, 4, 2, 3), SampleRegion(4, 8, 5, 4)>>,
     <<SampleRegion(3, 4, 0, 2), SampleRegion(0, 3, 0, 5), SampleRegion(4, 7, 5, 1)>>,
     <<SampleRegion(0, 3, 0, 4), SampleRegion(3, 6, 4, 4), SampleRegion(0, 6, 0, 8)>>,
     <<SampleRegion(0, 6, 0, 8), SampleRegion(0, 3, 2, 2), SampleRegion(3, 6, 4, 4)>>,
     <<SampleRegion(0, 5, 0, 3), SampleRegion(0, 5, 0, 5), SampleRegion(0, 5, 0, 6),
       SampleRegion(5, 5, 6, 1)>>}
=============================================================================
