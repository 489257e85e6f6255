----------------------------- MODULE MCPreview -----------------------------
(* A text the parser takes and one it rejects, a Markdown and a Mermaid    *)
(* path (saving under the other one makes a new revision), one continuous  *)
(* and one paged profile and a second paper, two pane widths.              *)
EXTENDS Preview
CONSTANTS good, broken, notes, chart, wrap, a4, narrow

MCKind == [p \in Paths |-> IF p = chart THEN "mermaid" ELSE "markdown"]

MCSources == [token : (1..MaxDocument) \X (0..MaxRevision), text : Texts, kind : Kinds]

MCFaulty == {s \in MCSources : s.text = broken}

\* Every text fits every profile.
MCRenders == [t \in Texts |-> Profiles]

\* A line of the text is taller than the page with narrow margins' paper.
MCTall == [t \in Texts |-> Profiles \ {narrow}]
=============================================================================
