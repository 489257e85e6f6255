------------------------------ MODULE MCReading ------------------------------
(* The layout of documents whose headings come near the end of a page: one  *)
(* heading, two in a row, and one that is wrapped.                          *)
EXTENDS Reading, MCSamples

TwoLines == [Heading(3) EXCEPT !.runs = <<Plain(0, Words15(5))>>]
MCHeadings ==
    {<<ListItem(1)>> \o headings \o <<Paragraph>> :
        headings \in {<<Heading(3)>>, <<Heading(3), Heading(4)>>, <<TwoLines>>}}

Spec == LayoutInit /\ [][Render]_layoutVars
=============================================================================
