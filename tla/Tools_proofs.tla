---------------------------- MODULE Tools_proofs ----------------------------
(***************************************************************************)
(* Proofs about the tools that the reader starts: the workflow behind a    *)
(* generated document (Sdui) launches what was checked, and the explorer   *)
(* (Sdp) puts every answer of a tool where it was asked for, for any       *)
(* projects, documents and bounds.  With Navigation_proofs and             *)
(* Delivery_proofs they give the types and the action property of          *)
(* MCNavigation, which has the four components side by side.               *)
(***************************************************************************)
EXTENDS MCNavigation, Navigation_proofs, Delivery_proofs, FiniteSetTheorems, TLAPS

-----------------------------------------------------------------------------
(***************************************************************************)
(* What generated documents lead to.                                       *)
(***************************************************************************)

ShownDocuments == [doc : Documented, dirty : BOOLEAN, text : Revisions]
FrameKeys == [frame : Generated \cup {NoDocument}, helpers : BOOLEAN]
Flows == [key : FrameKeys, pending : BOOLEAN, ready : BOOLEAN]
Probes == [frame : Generated \cup {NoDocument}, answer : {"none", "checked", "other", "error"}]
FollowedLinks == [document : Generated, source : Sources, step : {"asking", "opened"}]

SduiShape ==
    /\ files \in [Sources -> Revisions] /\ catalogue \in [Sources -> Revisions \cup {-1}]
    /\ onDisplay \in ShownDocuments /\ helpers \in BOOLEAN
    /\ flow \in Flows /\ probe \in Probes
    /\ DOMAIN children \subseteq logs /\ logs \subseteq 1 .. MaxChildren
    /\ follow = <<>> \/ \E f \in FollowedLinks : follow = <<f>>

\* An answer that is waited for is about the frame that was asked about, and
\* nothing is ready that was not confirmed.
ProbeIsAsked ==
    /\ flow.pending => probe.frame = flow.key.frame
    /\ probe.answer = "checked" => probe.frame \in confirmed
    /\ flow.ready => flow.key.frame \in confirmed

\* Between opening the source a link names and comparing it nothing else is
\* displayed.
SourceIsOpen ==
    \A n \in DOMAIN follow : follow[n].step = "opened" =>
       onDisplay.doc = TextOf(follow[n].source) /\ ~onDisplay.dirty

SduiInv == SduiShape /\ ProbeIsAsked /\ SourceIsOpen

\* What a document was made from is a generated document, or nothing.
LEMMA MadeFrom ==
    /\ \A d \in Documented : /\ d.made \in Generated \cup {NoDocument}
                             /\ d.source = "" \/ d.source \in Sources
    /\ \A s \in Sources : TextOf(s) \in Documented
    /\ Other \in Documented /\ NoDocument \notin Generated
    /\ \A g \in Generated : Linked(g) \subseteq Sources
<1>1. NoDocument \notin Generated
  <2> SUFFICES ASSUME NoDocument \in Generated PROVE FALSE
    OBVIOUS
  <2>1. NoDocument.made \in [Sources -> Revisions] /\ NoDocument.made[Main] = -1 /\ Main \in Sources
    BY SduiAssumption DEF NoDocument, Generated, Nowhere
  <2> QED
    BY <2>1, SduiAssumption DEF Revisions
<1>2. \A d \in Documented : /\ d.made \in Generated \cup {NoDocument}
                            /\ d.source = "" \/ d.source \in Sources
  <2> SUFFICES ASSUME NEW d \in Documented
               PROVE  d.made \in Generated \cup {NoDocument} /\ (d.source = "" \/ d.source \in Sources)
    OBVIOUS
  <2>1. CASE d = Other
    BY <2>1 DEF Other
  <2>2. ASSUME NEW s \in Sources, d = TextOf(s)
        PROVE  d.made \in Generated \cup {NoDocument} /\ (d.source = "" \/ d.source \in Sources)
    BY <2>2 DEF TextOf
  <2>3. ASSUME NEW g \in Generated, d = [source |-> "", made |-> g]
        PROVE  d.made \in Generated \cup {NoDocument} /\ (d.source = "" \/ d.source \in Sources)
    BY <2>3
  <2> QED
    BY <2>1, <2>2, <2>3 DEF Documented
<1>3. (\A s \in Sources : TextOf(s) \in Documented) /\ Other \in Documented
  BY DEF Documented
<1> QED
  BY <1>1, <1>2, <1>3, SduiAssumption DEF Linked

\* Nothing is running, asked or opened at first.
LEMMA SduiInitHolds == SduiInit => SduiInv
<1> SUFFICES ASSUME SduiInit PROVE SduiInv
  OBVIOUS
<1>1. 0 \in Revisions
  BY SduiAssumption DEF Revisions
<1>2. files \in [Sources -> Revisions] /\ catalogue \in [Sources -> Revisions \cup {-1}]
  BY <1>1 DEF SduiInit
<1>3. onDisplay \in ShownDocuments /\ helpers \in BOOLEAN /\ flow \in Flows /\ probe \in Probes
  BY <1>1, MadeFrom DEF SduiInit, ShownDocuments, Flows, FrameKeys, Probes, NoKey, NoProbe
<1>4. DOMAIN children = {} /\ logs = {} /\ DOMAIN follow = {} /\ follow = <<>>
  BY DEF SduiInit
<1>5. ProbeIsAsked
  BY DEF SduiInit, ProbeIsAsked, NoProbe, NoKey
<1> QED
  BY <1>2, <1>3, <1>4, <1>5 DEF SduiInv, SduiShape, SourceIsOpen

\* The key of a frame that can be run is that of the document on display.
LEMMA KeyTyped ==
    ASSUME SduiShape
    PROVE  /\ CurrentKey \in FrameKeys /\ NoKey \in FrameKeys
           /\ CurrentKey # NoKey =>
                 /\ CurrentKey.frame = onDisplay.doc.made /\ ~onDisplay.dirty
                 /\ catalogue[Main] = onDisplay.doc.made.made[Main]
<1>1. onDisplay.doc.made \in Generated \cup {NoDocument} /\ helpers \in BOOLEAN
  BY MadeFrom DEF SduiShape, ShownDocuments
<1>2. NoKey \in FrameKeys
  BY DEF NoKey, FrameKeys
<1>3. CASE onDisplay.doc.made.entry # "" /\ catalogue[Main] = onDisplay.doc.made.made[Main] /\ ~onDisplay.dirty
  <2>1. CurrentKey = [frame |-> onDisplay.doc.made, helpers |-> helpers]
    BY <1>3 DEF CurrentKey
  <2> QED
    BY <1>1, <1>2, <1>3, <2>1 DEF FrameKeys
<1>4. CASE ~(onDisplay.doc.made.entry # "" /\ catalogue[Main] = onDisplay.doc.made.made[Main] /\ ~onDisplay.dirty)
  <2>1. CurrentKey = NoKey
    BY <1>4 DEF CurrentKey
  <2> QED
    BY <1>2, <2>1
<1> QED
  BY <1>3, <1>4

\* SduiWorkflow's timer: another frame is asked about anew, and an answer is
\* taken for the frame it is about.
LEMMA PollSduiKeeps == ASSUME SduiInv, PollSdui PROVE SduiInv'
<1> DEFINE k == CurrentKey
           ended == {c \in DOMAIN children : children[c].state # "running"}
           asked == Rekeyed(flow, k)
           p == Probed(flow, k)
           taken == ProbeAnswered(asked, p)
<1>1. /\ SduiShape /\ ProbeIsAsked /\ SourceIsOpen
      /\ children' = [c \in DOMAIN children \ ended |-> children[c]]
      /\ logs' = logs \ {c \in ended : children[c].state = "ok"}
      /\ flow' = taken
      /\ probe' = IF asked.pending /\ ~taken.pending THEN NoProbe ELSE p
      /\ UNCHANGED <<files, catalogue, onDisplay, helpers, follow, selected, confirmed>>
  BY DEF PollSdui, SduiInv
<1>2. k \in FrameKeys /\ NoKey \in FrameKeys
  BY <1>1, KeyTyped
<1> HIDE DEF k
<1>3. flow \in Flows /\ probe \in Probes /\ flow.key \in FrameKeys
  BY <1>1 DEF SduiShape, Flows
<1>4. /\ asked \in Flows /\ p \in Probes /\ NoProbe \in Probes
      /\ asked.pending => p.frame = asked.key.frame
      /\ p.answer = "checked" => p.frame \in confirmed
      /\ asked.ready => asked.key.frame \in confirmed
  <2>1. CASE k = flow.key
    <3>1. asked = flow /\ p = probe /\ NoProbe \in Probes
      BY <2>1 DEF Rekeyed, Probed, NoProbe, Probes
    <3> QED
      BY <1>1, <1>3, <3>1 DEF ProbeIsAsked
  <2>2. CASE k # flow.key /\ k # NoKey /\ k.helpers
    <3>1. /\ asked = [key |-> k, pending |-> TRUE, ready |-> FALSE]
          /\ p = [frame |-> k.frame, answer |-> "none"]
      BY <2>2 DEF Rekeyed, Probed
    <3> QED
      BY <1>2, <3>1 DEF Flows, FrameKeys, Probes, NoProbe
  <2>3. CASE k # flow.key /\ ~(k # NoKey /\ k.helpers)
    <3>1. /\ asked = [key |-> k, pending |-> FALSE, ready |-> FALSE] /\ p = NoProbe
      BY <1>2, <2>3 DEF Rekeyed, Probed, FrameKeys
    <3> QED
      BY <1>2, <3>1 DEF Flows, FrameKeys, Probes, NoProbe
  <2> QED
    BY <2>1, <2>2, <2>3
<1> HIDE DEF asked, p
<1>5. /\ taken \in Flows /\ taken.key = asked.key
      /\ taken.ready => asked.key.frame \in confirmed
      /\ taken.pending => asked.pending /\ taken = asked
  <2>1. CASE ~asked.pending \/ p.answer = "none"
    BY <1>4, <2>1 DEF ProbeAnswered
  <2>2. CASE asked.pending /\ p.answer # "none"
    <3>1. taken = [asked EXCEPT !.pending = FALSE, !.ready = (p.answer = "checked")]
      BY <2>2 DEF ProbeAnswered
    <3>2. (p.answer = "checked") \in BOOLEAN
      OBVIOUS
    <3>3. taken \in Flows /\ taken.key = asked.key /\ ~taken.pending /\ (taken.ready <=> p.answer = "checked")
      BY <1>4, <3>1, <3>2 DEF Flows
    <3> QED
      BY <1>4, <2>2, <3>3
  <2> QED
    BY <1>4, <2>1, <2>2 DEF Flows
<1> HIDE DEF taken
<1>6. SduiShape'
  <2>1. DOMAIN children' \subseteq logs' /\ logs' \subseteq 1 .. MaxChildren
    BY <1>1 DEF SduiShape
  <2>2. flow' \in Flows /\ probe' \in Probes
    BY <1>1, <1>4, <1>5
  <2> QED
    BY <1>1, <2>1, <2>2 DEF SduiShape
<1>7. ProbeIsAsked'
  <2>1. NoProbe.answer # "checked"
    BY DEF NoProbe
  <2> QED
    BY <1>1, <1>4, <1>5, <2>1 DEF ProbeIsAsked
<1>8. SourceIsOpen'
  BY <1>1 DEF SourceIsOpen
<1> QED
  BY <1>6, <1>7, <1>8 DEF SduiInv

\* The children: started, answering, ending.
LEMMA ChildrenKeep ==
    ASSUME SduiInv,
           \/ \E starts \in BOOLEAN : Launch(starts)
           \/ \E answer \in {"checked", "other", "error"} : ProbeAnswers(answer)
           \/ \E state \in {"ok", "failed"} : PrototypeEnds(state)
    PROVE  SduiInv'
<1>1. SduiShape /\ ProbeIsAsked /\ SourceIsOpen
  BY DEF SduiInv
<1>2. CASE \E starts \in BOOLEAN : Launch(starts)
  <2>1. /\ UNCHANGED <<files, catalogue, onDisplay, helpers, flow, probe, follow, selected, confirmed>>
        /\ Cardinality(logs) < MaxChildren
        /\ \/ UNCHANGED <<children, logs>>
           \/ LET c == CHOOSE n \in 1 .. MaxChildren : n \notin logs
              IN DOMAIN children' = DOMAIN children \cup {c} /\ logs' = logs \cup {c}
    BY <1>2 DEF Launch
  <2>2. \E n \in 1 .. MaxChildren : n \notin logs
    <3> SUFFICES ASSUME 1 .. MaxChildren \subseteq logs PROVE FALSE
      OBVIOUS
    <3>1. logs = 1 .. MaxChildren /\ MaxChildren \in Nat
      BY <1>1, SduiAssumption DEF SduiShape
    <3>2. Cardinality(1 .. MaxChildren) = MaxChildren
      BY <3>1, FS_Interval
    <3> QED
      BY <2>1, <3>1, <3>2
  <2>3. DOMAIN children' \subseteq logs' /\ logs' \subseteq 1 .. MaxChildren
    BY <1>1, <2>1, <2>2 DEF SduiShape
  <2>4. SduiShape'
    BY <1>1, <2>1, <2>3 DEF SduiShape
  <2> QED
    BY <1>1, <2>1, <2>4 DEF SduiInv, ProbeIsAsked, SourceIsOpen
<1>3. CASE \E answer \in {"checked", "other", "error"} : ProbeAnswers(answer)
  <2>1. PICK answer \in {"checked", "other", "error"} :
           /\ probe' = [probe EXCEPT !.answer = answer]
           /\ confirmed' = IF answer = "checked" THEN confirmed \cup {probe.frame} ELSE confirmed
           /\ UNCHANGED <<files, catalogue, onDisplay, helpers, flow, children, logs, follow, selected>>
    BY <1>3 DEF ProbeAnswers
  <2>2. probe' \in Probes /\ probe'.frame = probe.frame /\ probe'.answer = answer
    BY <1>1, <2>1 DEF SduiShape, Probes
  <2>3. SduiShape'
    BY <1>1, <2>1, <2>2 DEF SduiShape
  <2>4. ProbeIsAsked' /\ SourceIsOpen'
    BY <1>1, <2>1, <2>2 DEF ProbeIsAsked, SourceIsOpen
  <2> QED
    BY <2>3, <2>4 DEF SduiInv
<1>4. CASE \E state \in {"ok", "failed"} : PrototypeEnds(state)
  <2>1. /\ DOMAIN children' = DOMAIN children
        /\ UNCHANGED <<files, catalogue, onDisplay, helpers, flow, probe, logs, follow, selected, confirmed>>
    BY <1>4 DEF PrototypeEnds
  <2>2. SduiShape'
    BY <1>1, <2>1 DEF SduiShape
  <2> QED
    BY <1>1, <2>1, <2>2 DEF SduiInv, ProbeIsAsked, SourceIsOpen
<1> QED
  BY <1>2, <1>3, <1>4

\* A link is followed.
LEMMA FollowingKeeps ==
    ASSUME SduiInv,
           \/ \E s \in Sources : FollowRow(s)
           \/ \E opens \in BOOLEAN : OpenLinked(opens)
           \/ Highlight
    PROVE  SduiInv'
<1>1. SduiShape /\ ProbeIsAsked /\ SourceIsOpen
  BY DEF SduiInv
<1>2. CASE \E s \in Sources : FollowRow(s)
  <2>1. PICK s \in Sources :
           /\ onDisplay.doc.made # NoDocument
           /\ follow' = <<[document |-> onDisplay.doc.made, source |-> s, step |-> "asking"]>>
           /\ UNCHANGED <<files, catalogue, onDisplay, helpers, flow, probe, children, logs, selected, confirmed>>
    BY <1>2 DEF FollowRow
  <2>2. onDisplay.doc.made \in Generated
    BY <1>1, <2>1, MadeFrom DEF SduiShape, ShownDocuments
  <2> DEFINE f == [document |-> onDisplay.doc.made, source |-> s, step |-> "asking"]
  <2>3. f \in FollowedLinks /\ f.step = "asking"
    BY <2>2 DEF FollowedLinks
  <2> HIDE DEF f
  <2>4. DOMAIN follow' = {1} /\ follow'[1] = f /\ follow' = <<f>>
    BY <2>1 DEF f
  <2>5. SduiShape'
    BY <1>1, <2>1, <2>3, <2>4 DEF SduiShape
  <2>6. ProbeIsAsked' /\ SourceIsOpen'
    BY <1>1, <2>1, <2>3, <2>4 DEF ProbeIsAsked, SourceIsOpen
  <2> QED
    BY <2>5, <2>6 DEF SduiInv
<1>3. CASE \E opens \in BOOLEAN : OpenLinked(opens)
  <2>1. PICK f \in FollowedLinks : follow = <<f>>
    BY <1>1, <1>3 DEF OpenLinked, Free, SduiShape
  <2>2. follow[1] = f /\ UNCHANGED <<files, catalogue, helpers, flow, probe, children, logs, confirmed>>
    BY <1>3, <2>1 DEF OpenLinked
  <2>3. CASE follow' = <<>> /\ onDisplay' = onDisplay
    BY <1>1, <2>2, <2>3 DEF SduiInv, SduiShape, ProbeIsAsked, SourceIsOpen
  <2>4. CASE /\ onDisplay' = [doc |-> TextOf(follow[1].source), dirty |-> FALSE, text |-> files[follow[1].source]]
             /\ follow' = [follow EXCEPT ![1].step = "opened"]
    <3> DEFINE g == [f EXCEPT !.step = "opened"]
    <3>1. g \in FollowedLinks /\ g.source = f.source /\ f.source \in Sources
      BY DEF FollowedLinks
    <3>2. follow' = <<g>>
      BY <2>1, <2>4
    <3> HIDE DEF g
    <3>3. DOMAIN follow' = {1} /\ follow'[1] = g
      BY <3>2
    <3>4. onDisplay' \in ShownDocuments /\ onDisplay'.doc = TextOf(f.source) /\ ~onDisplay'.dirty
      BY <1>1, <2>2, <2>4, <3>1, MadeFrom DEF ShownDocuments, SduiShape
    <3>5. SduiShape'
      BY <1>1, <2>2, <3>1, <3>2, <3>4 DEF SduiShape
    <3>6. ProbeIsAsked' /\ SourceIsOpen'
      BY <1>1, <2>2, <3>1, <3>3, <3>4 DEF ProbeIsAsked, SourceIsOpen
    <3> QED
      BY <3>5, <3>6 DEF SduiInv
  <2> QED
    BY <1>3, <2>3, <2>4 DEF OpenLinked
<1>4. CASE Highlight
  <2>1. /\ follow' = <<>>
        /\ UNCHANGED <<files, catalogue, onDisplay, helpers, flow, probe, children, logs, confirmed>>
    BY <1>4 DEF Highlight
  <2> QED
    BY <1>1, <2>1 DEF SduiInv, SduiShape, ProbeIsAsked, SourceIsOpen
<1> QED
  BY <1>2, <1>3, <1>4

\* The reader, the explorer and other programs.
LEMMA SurroundingsKeep ==
    ASSUME SduiInv,
           \/ EditDocument \/ CleanDocument \/ Install
           \/ \E here \in BOOLEAN : Discover(here)
           \/ \E s \in Sources : WriteSource(s)
           \/ \E d \in Documented : Display(d)
    PROVE  SduiInv'
<1>1. SduiShape /\ ProbeIsAsked /\ SourceIsOpen /\ files \in [Sources -> Revisions] /\ onDisplay \in ShownDocuments
  BY DEF SduiInv, SduiShape
<1>2. CASE EditDocument \/ CleanDocument \/ \E d \in Documented : Display(d)
  <2>1. /\ UNCHANGED <<files, catalogue, helpers, flow, probe, children, logs, follow, confirmed>>
        /\ follow = <<>> /\ onDisplay' \in ShownDocuments
    <3>1. CASE EditDocument \/ CleanDocument
      BY <1>1, <3>1 DEF EditDocument, CleanDocument, Free, ShownDocuments
    <3>2. ASSUME NEW d \in Documented, Display(d)
          PROVE  /\ UNCHANGED <<files, catalogue, helpers, flow, probe, children, logs, follow, confirmed>>
                 /\ follow = <<>> /\ onDisplay' \in ShownDocuments
      <4>1. 0 \in Revisions
        BY SduiAssumption DEF Revisions
      <4>2. d.source = "" \/ d.source \in Sources
        BY MadeFrom
      <4>3. (IF d.source = "" THEN 0 ELSE files[d.source]) \in Revisions
        BY <1>1, <4>1, <4>2
      <4> QED
        BY <1>1, <3>2, <4>3 DEF Display, Free, ShownDocuments
    <3> QED
      BY <1>2, <3>1, <3>2
  <2> QED
    BY <1>1, <2>1 DEF SduiInv, SduiShape, ProbeIsAsked, SourceIsOpen
<1>3. CASE \E s \in Sources : WriteSource(s)
  <2>1. PICK s \in Sources :
           /\ files[s] < MaxWrites /\ files' = [files EXCEPT ![s] = @ + 1]
           /\ UNCHANGED <<catalogue, onDisplay, helpers, flow, probe, children, logs, follow, selected, confirmed>>
    BY <1>3 DEF WriteSource
  <2>2. files' \in [Sources -> Revisions]
    BY <1>1, <2>1, SduiAssumption DEF Revisions
  <2> QED
    BY <1>1, <2>1, <2>2 DEF SduiInv, SduiShape, ProbeIsAsked, SourceIsOpen
<1>4. CASE Install \/ \E here \in BOOLEAN : Discover(here)
  <2>1. /\ UNCHANGED <<files, onDisplay, flow, probe, children, logs, follow, selected, confirmed>>
        /\ helpers' \in BOOLEAN /\ catalogue' \in [Sources -> Revisions \cup {-1}]
    BY <1>1, <1>4 DEF Install, Discover, SduiShape, Nowhere
  <2> QED
    BY <1>1, <2>1 DEF SduiInv, SduiShape, ProbeIsAsked, SourceIsOpen
<1> QED
  BY <1>2, <1>3, <1>4

\* Every step keeps the invariant of the helpers.
LEMMA SduiStepKeeps == SduiInv /\ [SduiNext]_sduiVars => SduiInv'
<1> SUFFICES ASSUME SduiInv, [SduiNext]_sduiVars PROVE SduiInv'
  OBVIOUS
<1>1. CASE UNCHANGED sduiVars
  BY <1>1 DEF sduiVars, SduiInv, SduiShape, ProbeIsAsked, SourceIsOpen
<1>2. CASE PollSdui
  BY <1>2, PollSduiKeeps
<1>3. CASE \/ \E starts \in BOOLEAN : Launch(starts)
           \/ \E answer \in {"checked", "other", "error"} : ProbeAnswers(answer)
           \/ \E state \in {"ok", "failed"} : PrototypeEnds(state)
  BY <1>3, ChildrenKeep
<1>4. CASE (\E s \in Sources : FollowRow(s)) \/ (\E opens \in BOOLEAN : OpenLinked(opens)) \/ Highlight
  BY <1>4, FollowingKeeps
<1>5. CASE \/ EditDocument \/ CleanDocument \/ Install
           \/ \E here \in BOOLEAN : Discover(here)
           \/ \E s \in Sources : WriteSource(s)
           \/ \E d \in Documented : Display(d)
  BY <1>5, SurroundingsKeep
<1> QED
  BY <1>1, <1>2, <1>3, <1>4, <1>5 DEF SduiNext

\* Only Launch adds a child, and only Highlight selects.
LEMMA SduiActs ==
    ASSUME SduiInv, [SduiNext]_sduiVars
    PROVE  /\ \A c \in DOMAIN children' \ DOMAIN children :
                 /\ children'[c].frame = onDisplay.doc.made /\ ~onDisplay.dirty
                 /\ catalogue[Main] = children'[c].frame.made[Main]
                 /\ children'[c].frame \in confirmed
           /\ selected' # selected /\ selected' # <<>> =>
                 /\ onDisplay'.doc = TextOf(selected'[1].source) /\ ~onDisplay'.dirty
                 /\ onDisplay'.text = selected'[1].document.made[selected'[1].source]
                 /\ selected'[1].document.entry = "" =>
                       \A s \in Sources : files'[s] = selected'[1].document.made[s]
<1>1. SduiShape /\ ProbeIsAsked /\ SourceIsOpen
  BY DEF SduiInv
<1>2. CASE PollSdui
  BY <1>2 DEF PollSdui
<1>3. CASE \E starts \in BOOLEAN : Launch(starts)
  <2>1. PICK starts \in BOOLEAN : Launch(starts)
    BY <1>3
  <2>2. /\ flow.ready /\ flow.key # NoKey /\ flow.key = CurrentKey /\ selected' = selected
        /\ \A c \in DOMAIN children' \ DOMAIN children : children'[c].frame = flow.key.frame
    BY <2>1 DEF Launch
  <2>3. /\ flow.key.frame = onDisplay.doc.made /\ ~onDisplay.dirty
        /\ catalogue[Main] = onDisplay.doc.made.made[Main]
    BY <1>1, <2>2, KeyTyped
  <2> QED
    BY <1>1, <2>2, <2>3 DEF ProbeIsAsked
<1>4. CASE Highlight
  <2>1. PICK f \in FollowedLinks : follow = <<f>>
    BY <1>1, <1>4 DEF Highlight, Free, SduiShape
  <2>a. follow[1] = f /\ 1 \in DOMAIN follow
    BY <2>1
  <2>2. /\ f.step = "opened"
        /\ children' = children /\ onDisplay' = onDisplay /\ files' = files
        /\ selected' = <<>> \/ /\ selected' = <<f>>
                               /\ f.document.entry = "" => Unchanged(f.document)
                               /\ onDisplay.text = f.document.made[f.source]
    BY <1>4, <2>a DEF Highlight
  <2>3. onDisplay.doc = TextOf(f.source) /\ ~onDisplay.dirty
    BY <1>1, <2>a, <2>2 DEF SourceIsOpen
  <2>4. selected' = <<f>> => selected'[1] = f
    OBVIOUS
  <2> QED
    BY <2>2, <2>3, <2>4 DEF Unchanged, Linked
<1>5. CASE \/ UNCHANGED sduiVars
           \/ \E answer \in {"checked", "other", "error"} : ProbeAnswers(answer)
           \/ EditDocument \/ CleanDocument \/ Install
           \/ \E here \in BOOLEAN : Discover(here)
           \/ \E s \in Sources : FollowRow(s) \/ WriteSource(s)
           \/ \E d \in Documented : Display(d)
           \/ \E opens \in BOOLEAN : OpenLinked(opens)
  <2>1. children' = children /\ (selected' = selected \/ selected' = <<>>)
    BY <1>5 DEF sduiVars, ProbeAnswers, EditDocument, CleanDocument, Install, Discover, FollowRow,
                WriteSource, Display, OpenLinked
  <2> QED
    BY <2>1
<1>6. CASE \E state \in {"ok", "failed"} : PrototypeEnds(state)
  <2>1. DOMAIN children' = DOMAIN children /\ selected' = selected
    BY <1>6 DEF PrototypeEnds
  <2> QED
    BY <2>1
<1> QED
  BY <1>2, <1>3, <1>4, <1>5, <1>6 DEF SduiNext

\* It holds the variables to their types.
LEMMA SduiInvMeans == SduiInv => SduiTypeOK
  BY DEF SduiInv, SduiShape, SduiTypeOK, ShownDocuments, Flows, FrameKeys, Probes

\* SduiWorkflow: a prototype is launched of the frame on display, which was
\* confirmed; followSdlSource selects the bytes a document was made from.
THEOREM LaunchesWhatWasChecked == SduiSpec => ShownIsWhatWasChecked
<1>1. SduiInit => SduiInv
  BY SduiInitHolds
<1>2. SduiInv /\ [SduiNext]_sduiVars => SduiInv'
  BY SduiStepKeeps
<1>3. SduiInv /\ [SduiNext]_sduiVars =>
           [/\ \A c \in DOMAIN children' \ DOMAIN children :
                  /\ children'[c].frame = onDisplay.doc.made /\ ~onDisplay.dirty
                  /\ catalogue[Main] = children'[c].frame.made[Main]
                  /\ children'[c].frame \in confirmed
            /\ selected' # selected /\ selected' # <<>> =>
                  /\ onDisplay'.doc = TextOf(selected'[1].source) /\ ~onDisplay'.dirty
                  /\ onDisplay'.text = selected'[1].document.made[selected'[1].source]
                  /\ selected'[1].document.entry = "" =>
                        \A s \in Sources : files'[s] = selected'[1].document.made[s]]_sduiVars
  BY SduiActs
<1> QED
  BY <1>1, <1>2, <1>3, PTL DEF SduiSpec, ShownIsWhatWasChecked


-----------------------------------------------------------------------------
(***************************************************************************)
(* The SDP explorer.                                                       *)
(***************************************************************************)

Operations == {"", "actions", "discover", "tree", "select"}
Sessions == [dirty : BOOLEAN, doc : 0 .. MaxRequest]
Navs == [root : Projects, sources : Readings, pending : Operations, queued : BOOLEAN,
         lazy : BOOLEAN, expansion : BOOLEAN, bundle : 0 .. MaxRequest,
         request : 0 .. MaxRequest, asked : Versions \cup {Never}]
SdpJobs == [op : Operations, root : Projects \cup {""}, version : Versions, request : 0 .. MaxRequest,
            same : BOOLEAN, done : {"no", "ok", "error", "arguments"}, read : Versions]
Watches == [alive : BOOLEAN, initial : BOOLEAN, previous : Versions, pending : BOOLEAN,
            failures : 0 .. MaxFailures, changed : BOOLEAN]
Explorers == [shown : Readings, deferred : Readings, clear : BOOLEAN, inContext : BOOLEAN,
              stale : BOOLEAN]

SdpShape ==
    /\ area \in [Projects -> Versions]
    /\ session \in Sessions /\ nav \in Navs /\ sdpJob \in SdpJobs /\ explorer \in Explorers
    /\ watch \in Watches /\ (watch.alive => watch.failures < MaxFailures)
    /\ \A b \in DOMAIN contexts : contexts[b] \in Readings
    /\ \A b \in DOMAIN bundles : bundles[b] \in Readings

\* The child at work does what SdpNavigation waits for, and only a view that
\* is asked for has a bundle of its own.
WorksFor(j, n) ==
    /\ n.pending = j.op
    /\ j.op # "" => j.root = n.root
    /\ n.pending = "select" <=> n.bundle # 0
    /\ n.pending = "select" => j.request = n.bundle

JobIsPending == WorksFor(sdpJob, nav)

\* What the explorer p shows in the end.
AtLast(p) ==
    IF p.deferred # NoSnapshot THEN p.deferred
    ELSE IF p.clear THEN NoSnapshot ELSE p.shown

\* Nothing waits for a menu that is closed; what is shown in the end belongs
\* to the project that is selected, and to the catalogue.
PanelOf(p, root) ==
    /\ ~p.inContext => p.deferred = NoSnapshot /\ ~p.clear
    /\ AtLast(p) # NoSnapshot => AtLast(p).root = root
    /\ p.shown # NoSnapshot /\ p.shown.root # root => p.inContext

CatalogueOf(n, p) ==
    n.sources # NoSnapshot => /\ n.sources.root = n.root /\ AtLast(p) # NoSnapshot
                              /\ AtLast(p).version = n.sources.version

PanelAgrees == PanelOf(explorer, nav.root) /\ CatalogueOf(nav, explorer)

\* The directories are those of the documents that are owned and the one that
\* is being made, whose content is what the child has read.
BundlesAgree ==
    /\ DOMAIN bundles = DOMAIN contexts \cup ({nav.bundle} \ {0})
    /\ DOMAIN contexts \subseteq 1 .. nav.request
    /\ nav.bundle \notin DOMAIN contexts /\ nav.bundle <= nav.request
    /\ \A b \in DOMAIN contexts : /\ bundles[b].root = contexts[b].root
                                  /\ bundles[b].version = contexts[b].version
    /\ nav.pending = "select" /\ sdpJob.done = "ok" =>
          bundles[nav.bundle].root = sdpJob.root /\ bundles[nav.bundle].version = sdpJob.read
    /\ history \cup ({session.doc} \ {0}) \subseteq DOMAIN contexts

SdpInv == SdpShape /\ JobIsPending /\ PanelAgrees /\ BundlesAgree


\* The bounds are numbers.
LEMMA SdpBounds == MaxVersion \in Nat /\ MaxRequest \in Nat /\ MaxFailures \in Nat /\ MaxFailures > 0
<1>1. {MaxVersion, MaxRequest} \subseteq Nat
  BY SdpAssumption
<1>2. MaxFailures \in Nat /\ MaxFailures # 0
  BY SdpAssumption
<1> QED
  BY <1>1, <1>2

\* The constants are what the shapes need.
LEMMA SdpTyped ==
    /\ Versions \subseteq Nat /\ 0 \in Versions /\ Never \notin Versions
    /\ NoSnapshot \in Readings /\ NoSnapshot.root \notin Projects
    /\ NoJob \in SdpJobs /\ Watching \in Watches /\ Watching.failures < MaxFailures
    /\ \A r \in Projects \cup {""}, v \in Versions, b \in BOOLEAN :
          /\ Snapshot(r, v, b) \in Readings
          /\ Snapshot(r, v, b).root = r /\ Snapshot(r, v, b).version = v
<1>1. Versions \subseteq Nat /\ 0 \in Versions /\ Never \notin Versions /\ MaxRequest \in Nat
  BY SdpBounds DEF Versions, Never
<1>2. NoSnapshot \in Readings /\ NoSnapshot.root \notin Projects
  BY <1>1, SdpAssumption DEF NoSnapshot, Snapshot, Readings
<1>3. NoJob \in SdpJobs
  BY <1>1 DEF NoJob, SdpJobs, Operations
<1>4. Watching \in Watches /\ Watching.failures < MaxFailures
  BY <1>1, SdpBounds DEF Watching, Watches
<1> QED
  BY <1>1, <1>2, <1>3, <1>4 DEF Snapshot, Readings

\* A child that is started works for the selected project.
LEMMA RunFacts ==
    \A n \in Navs, op \in Operations, v \in Versions :
       /\ Run(op, n, v) \in SdpJobs /\ Run(op, n, v).op = op /\ Run(op, n, v).root = n.root
       /\ Run(op, n, v).request = n.bundle /\ Run(op, n, v).done = "no"
       /\ Run(op, n, v).version = v
<1> SUFFICES ASSUME NEW n \in Navs, NEW op \in Operations, NEW v \in Versions
             PROVE  /\ Run(op, n, v) \in SdpJobs /\ Run(op, n, v).op = op
                    /\ Run(op, n, v).root = n.root /\ Run(op, n, v).request = n.bundle
                    /\ Run(op, n, v).done = "no" /\ Run(op, n, v).version = v
  OBVIOUS
<1>1. /\ n.root \in Projects /\ n.bundle \in 0 .. MaxRequest /\ (op = "select") \in BOOLEAN
      /\ 0 \in Versions
  BY SdpTyped DEF Navs
<1> DEFINE same == op = "select"
<1>2. /\ NoJob \in SdpJobs /\ NoJob.done = "no" /\ same \in BOOLEAN
      /\ Run(op, n, v) = [NoJob EXCEPT !.op = op, !.root = n.root, !.version = v,
                                       !.request = n.bundle, !.same = same]
  BY SdpTyped DEF Run, NoJob
<1> HIDE DEF same
<1> QED
  BY <1>1, <1>2 DEF SdpJobs

\* It does what is waited for, and has a bundle if that is a view.
LEMMA RunWorks ==
    ASSUME NEW n \in Navs, n.pending # "", n.pending = "select" <=> n.bundle # 0,
           NEW v \in Versions
    PROVE  Run(n.pending, n, v) \in SdpJobs /\ WorksFor(Run(n.pending, n, v), n)
<1>1. n.pending \in Operations
  BY DEF Navs
<1> DEFINE j == Run(n.pending, n, v)
<1>2. j \in SdpJobs /\ j.op = n.pending /\ j.root = n.root /\ j.request = n.bundle
  <2>1. j \in SdpJobs
    BY <1>1, RunFacts
  <2>2. j.op = n.pending
    BY <1>1, RunFacts
  <2>3. j.root = n.root
    BY <1>1, RunFacts
  <2>4. j.request = n.bundle
    BY <1>1, RunFacts
  <2> QED
    BY <2>1, <2>2, <2>3, <2>4
<1> HIDE DEF j
<1>3. WorksFor(j, n)
  BY <1>2 DEF WorksFor
<1> QED
  BY <1>2, <1>3 DEF j

\* cancelRequest, alone and by an activation: the request and its bundle are
\* given up, the project and its catalogue stay.
LEMMA CanceledFacts ==
    ASSUME NEW n \in Navs
    PROVE  /\ Canceled(n) \in Navs /\ Canceled(n).pending = "" /\ Canceled(n).bundle = 0
           /\ Canceled(n).root = n.root /\ Canceled(n).sources = n.sources
           /\ Canceled(n).request = n.request
           /\ Interrupted(n) \in Navs /\ Interrupted(n).pending = "" /\ Interrupted(n).bundle = 0
           /\ Interrupted(n).root = n.root /\ Interrupted(n).sources = n.sources
           /\ Interrupted(n).request = n.request
<1>1. \A m \in Navs : /\ Canceled(m) \in Navs /\ Canceled(m).pending = "" /\ Canceled(m).bundle = 0
                      /\ Canceled(m).root = m.root /\ Canceled(m).sources = m.sources
                      /\ Canceled(m).request = m.request
  <2> SUFFICES ASSUME NEW m \in Navs
               PROVE  /\ Canceled(m) \in Navs /\ Canceled(m).pending = "" /\ Canceled(m).bundle = 0
                      /\ Canceled(m).root = m.root /\ Canceled(m).sources = m.sources
                      /\ Canceled(m).request = m.request
    OBVIOUS
  <2>1. Canceled(m) = [m EXCEPT !.pending = "", !.expansion = FALSE, !.bundle = 0]
    BY DEF Canceled
  <2>2. "" \in Operations /\ 0 \in 0 .. MaxRequest
    BY SdpBounds DEF Operations
  <2> QED
    BY <2>1, <2>2 DEF Navs
<1> DEFINE q == n.queued \/ n.pending \in {"actions", "discover"}
           m == [n EXCEPT !.queued = q]
<1>2. m \in Navs /\ m.root = n.root /\ m.sources = n.sources /\ m.request = n.request
  BY DEF Navs
<1>3. Interrupted(n) = Canceled(m)
  BY DEF Interrupted
<1> HIDE DEF m
<1> QED
  BY <1>1, <1>2, <1>3

\* discover: without an area nothing is asked and the catalogue is empty.
LEMMA DiscoveringFacts ==
    ASSUME area \in [Projects -> Versions], NEW n \in Navs, n.pending = "", n.bundle = 0
    PROVE  /\ Discovering(n) \in Navs /\ Discovering(n).root = n.root
           /\ Discovering(n).request = n.request /\ Discovering(n).bundle = 0
           /\ Discovering(n).pending \in {"", "actions"}
           /\ Discovering(n).pending = "" => Discovering(n).sources = NoSnapshot
           /\ Discovering(n).pending # "" => Discovering(n).sources = n.sources
<1>1. n.root \in Projects /\ area[n.root] \in Versions /\ NoSnapshot \in Readings
  BY SdpTyped DEF Navs
<1>2. CASE area[n.root] \in Absent
  <2>1. Discovering(n) = [n EXCEPT !.sources = NoSnapshot, !.expansion = FALSE, !.queued = FALSE,
                                  !.asked = area[n.root]]
    BY <1>2 DEF Discovering
  <2> QED
    BY <1>1, <2>1 DEF Navs
<1>3. CASE area[n.root] \notin Absent
  <2>1. Discovering(n) = [n EXCEPT !.pending = "actions", !.expansion = FALSE, !.queued = FALSE]
    BY <1>3 DEF Discovering
  <2> QED
    BY <1>1, <2>1 DEF Navs, Operations
<1> QED
  BY <1>2, <1>3

\* clear: nothing is shown in the end, by a menu that is open or at once.
LEMMA ClearedFacts ==
    ASSUME NEW p \in Explorers, ~p.inContext => p.deferred = NoSnapshot /\ ~p.clear,
           NEW root
    PROVE  Cleared(p) \in Explorers /\ PanelOf(Cleared(p), root) /\ AtLast(Cleared(p)) = NoSnapshot
<1>1. NoSnapshot \in Readings
  BY SdpTyped
<1>2. CASE p.inContext
  <2>1. Cleared(p) = [p EXCEPT !.stale = TRUE, !.clear = TRUE, !.deferred = NoSnapshot]
    BY <1>2 DEF Cleared
  <2>2. /\ Cleared(p) \in Explorers /\ Cleared(p).deferred = NoSnapshot /\ Cleared(p).clear
        /\ Cleared(p).inContext
    BY <1>1, <1>2, <2>1 DEF Explorers
  <2> QED
    BY <2>2 DEF PanelOf, AtLast
<1>3. CASE ~p.inContext
  <2>1. Cleared(p) = [p EXCEPT !.shown = NoSnapshot]
    BY <1>3 DEF Cleared
  <2>2. /\ Cleared(p) \in Explorers /\ Cleared(p).deferred = NoSnapshot /\ ~Cleared(p).clear
        /\ Cleared(p).shown = NoSnapshot
    BY <1>1, <1>3, <2>1 DEF Explorers
  <2> QED
    BY <2>2 DEF PanelOf, AtLast
<1> QED
  BY <1>2, <1>3

\* What is presented is what will be shown in the end.
LEMMA PresentedFacts ==
    ASSUME explorer \in Explorers, NEW s \in Readings, s.root = nav.root, s # NoSnapshot,
           PanelOf(explorer, nav.root)
    PROVE  Presented(s) \in Explorers /\ PanelOf(Presented(s), nav.root) /\ AtLast(Presented(s)) = s
<1>1. CASE explorer.inContext
  <2>1. Presented(s) = [explorer EXCEPT !.stale = TRUE, !.deferred = s]
    BY <1>1 DEF Presented
  <2>2. Presented(s) \in Explorers /\ Presented(s).deferred = s /\ Presented(s).inContext
    BY <1>1, <2>1 DEF Explorers
  <2> QED
    BY <2>2 DEF PanelOf, AtLast
<1>2. CASE ~explorer.inContext
  <2>1. Presented(s) = [explorer EXCEPT !.shown = s]
    BY <1>2 DEF Presented
  <2>2. /\ Presented(s) \in Explorers /\ Presented(s).deferred = NoSnapshot /\ ~Presented(s).clear
        /\ Presented(s).shown = s
    BY <1>2, <2>1 DEF Explorers, PanelOf
  <2> QED
    BY <2>2 DEF PanelOf, AtLast
<1> QED
  BY <1>1, <1>2

\* The end of poll: nothing is asked any more, or the expansion that waited.
LEMMA FinishedFacts ==
    ASSUME NEW n \in Navs, NEW delivered \in BOOLEAN, Finished(n, delivered)
    PROVE  /\ nav' \in Navs /\ nav'.root = n.root /\ nav'.sources = n.sources
           /\ nav'.request = n.request /\ nav'.bundle = 0 /\ nav'.pending \in {"", "tree"}
           /\ sdpJob' \in SdpJobs /\ JobIsPending'
<1> DEFINE m == [n EXCEPT !.pending = "", !.bundle = 0]
<1>1. /\ m \in Navs /\ m.root = n.root /\ m.sources = n.sources /\ m.request = n.request
      /\ m.bundle = 0 /\ m.pending = ""
  <2>1. "" \in Operations /\ 0 \in 0 .. MaxRequest
    BY SdpBounds DEF Operations
  <2> QED
    BY <2>1 DEF Navs
<1>2. /\ nav' = Expanding(m)
      /\ sdpJob' = IF nav'.pending = "tree" THEN Run("tree", nav', n.sources.version) ELSE NoJob
  BY DEF Finished
<1> HIDE DEF m
<1>3. \/ nav' = m
      \/ nav' = [m EXCEPT !.pending = "tree", !.expansion = FALSE]
  BY <1>2 DEF Expanding
<1>4. /\ nav' \in Navs /\ nav'.root = n.root /\ nav'.sources = n.sources
      /\ nav'.request = n.request /\ nav'.bundle = 0 /\ nav'.pending \in {"", "tree"}
  BY <1>1, <1>3 DEF Navs, Operations
<1>5. n.sources.version \in Versions
  BY DEF Navs, Readings
<1>6. sdpJob' \in SdpJobs /\ WorksFor(sdpJob', nav')
  <2>1. CASE nav'.pending = "tree"
    <3>1. sdpJob' = Run("tree", nav', n.sources.version) /\ "tree" \in Operations
      BY <1>2, <2>1 DEF Operations
    <3>2. sdpJob' = Run(nav'.pending, nav', n.sources.version)
      BY <2>1, <3>1
    <3> QED
      BY <1>4, <1>5, <2>1, <3>2, RunWorks
  <2>2. CASE nav'.pending # "tree"
    <3>1. sdpJob' = NoJob /\ nav'.pending = "" /\ NoJob.op = ""
      BY <1>2, <1>4, <2>2 DEF NoJob
    <3> QED
      BY <1>4, <3>1, SdpTyped DEF WorksFor
  <2> QED
    BY <2>1, <2>2
<1> QED
  BY <1>4, <1>6 DEF JobIsPending

\* A discovery that starts: the tool and the tree follow it.
LEMMA DiscoveryStarts ==
    ASSUME area \in [Projects -> Versions], NEW n \in Navs, n.pending = "", n.bundle = 0,
           NEW p \in Explorers, PanelOf(p, n.root), CatalogueOf(n, p),
           nav' = Discovering(n), sdpJob' = DiscoverJob, explorer' = DiscoverPanel(p)
    PROVE  /\ nav' \in Navs /\ sdpJob' \in SdpJobs /\ explorer' \in Explorers
           /\ nav'.request = n.request /\ nav'.bundle = 0 /\ nav'.pending # "select"
           /\ JobIsPending' /\ PanelAgrees'
<1>1. /\ nav' \in Navs /\ nav'.root = n.root /\ nav'.request = n.request /\ nav'.bundle = 0
      /\ nav'.pending \in {"", "actions"} /\ (nav'.pending = "" => nav'.sources = NoSnapshot)
      /\ (nav'.pending # "" => nav'.sources = n.sources)
  BY DiscoveringFacts
<1>2. CASE nav'.pending = ""
  <2>1. sdpJob' = NoJob /\ explorer' = Cleared(p) /\ NoJob.op = ""
    BY <1>2 DEF DiscoverJob, DiscoverPanel, NoJob
  <2>2. explorer' \in Explorers /\ PanelOf(explorer', nav'.root)
    BY <2>1, ClearedFacts DEF PanelOf
  <2>3. CatalogueOf(nav', explorer') /\ WorksFor(sdpJob', nav')
    BY <1>1, <1>2, <2>1 DEF CatalogueOf, WorksFor
  <2> QED
    BY <1>1, <1>2, <2>1, <2>2, <2>3, SdpTyped DEF JobIsPending, PanelAgrees
<1>3. CASE nav'.pending # ""
  <2>1. sdpJob' = Run("actions", nav', 0) /\ explorer' = p /\ nav'.pending = "actions"
    BY <1>1, <1>3 DEF DiscoverJob, DiscoverPanel
  <2>2. sdpJob' \in SdpJobs /\ WorksFor(sdpJob', nav')
    <3>1. sdpJob' = Run(nav'.pending, nav', 0) /\ 0 \in Versions
      BY <2>1, SdpTyped
    <3> QED
      BY <1>1, <2>1, <3>1, RunWorks
  <2>3. PanelOf(explorer', nav'.root) /\ CatalogueOf(nav', explorer')
    BY <1>1, <1>3, <2>1 DEF CatalogueOf
  <2> QED
    BY <1>1, <2>1, <2>2, <2>3 DEF JobIsPending, PanelAgrees
<1> QED
  BY <1>2, <1>3


\* What the documents need: the session's and those of the visits are owned.
LEMMA BundlesStay ==
    ASSUME SdpInv, UNCHANGED <<contexts, bundles>>,
           history' \cup ({session'.doc} \ {0}) \subseteq DOMAIN contexts,
           nav'.bundle = nav.bundle, nav'.request = nav.request,
           nav'.pending = "select" /\ sdpJob'.done = "ok" =>
              /\ nav.pending = "select" /\ sdpJob.done = "ok"
              /\ sdpJob'.root = sdpJob.root /\ sdpJob'.read = sdpJob.read
    PROVE  BundlesAgree'
<1>1. BundlesAgree
  BY DEF SdpInv
<1> QED
  BY <1>1 DEF BundlesAgree

\* The bundle that was being made goes; those that are owned stay.
LEMMA BundleDropped ==
    ASSUME SdpInv, contexts' = contexts, bundles' = Without(bundles, nav.bundle),
           history' \cup ({session'.doc} \ {0}) \subseteq DOMAIN contexts,
           nav'.bundle = 0, nav'.request \in Nat, nav.request <= nav'.request,
           nav'.pending # "select"
    PROVE  BundlesAgree' /\ \A b \in DOMAIN bundles' : bundles'[b] \in Readings
<1>1. BundlesAgree /\ (\A b \in DOMAIN bundles : bundles[b] \in Readings) /\ nav \in Navs
  BY DEF SdpInv, SdpShape
<1>2. nav.request \in Nat /\ nav.bundle \in Nat
  BY <1>1, SdpBounds DEF Navs
<1>3. /\ DOMAIN bundles' = DOMAIN bundles \ {nav.bundle}
      /\ \A b \in DOMAIN bundles' : b \in DOMAIN bundles /\ bundles'[b] = bundles[b]
  BY DEF Without
<1>4. DOMAIN bundles' = DOMAIN contexts'
  <2>1. /\ DOMAIN bundles = DOMAIN contexts \cup ({nav.bundle} \ {0})
        /\ nav.bundle \notin DOMAIN contexts
    BY <1>1 DEF BundlesAgree
  <2>2. DOMAIN bundles \ {nav.bundle} = DOMAIN contexts
    BY <2>1
  <2> QED
    BY <1>3, <2>2
<1>5. DOMAIN contexts \subseteq 1 .. nav'.request /\ 0 \notin DOMAIN contexts
  BY <1>1, <1>2 DEF BundlesAgree
<1>6. \A b \in DOMAIN contexts' : /\ bundles'[b].root = contexts'[b].root
                                  /\ bundles'[b].version = contexts'[b].version
  BY <1>1, <1>3, <1>4 DEF BundlesAgree
<1> QED
  BY <1>1, <1>2, <1>3, <1>4, <1>5, <1>6 DEF BundlesAgree

\* The first discovery is asked for, and nothing is shown.
LEMMA SdpInitHolds == SdpInit => SdpInv
<1> SUFFICES ASSUME NEW root \in Projects,
                    /\ area = [p \in Projects |-> 0]
                    /\ session = [dirty |-> FALSE, doc |-> 0]
                    /\ nav = [root |-> root, sources |-> NoSnapshot, pending |-> "actions",
                              queued |-> FALSE, lazy |-> FALSE, expansion |-> FALSE, bundle |-> 0,
                              request |-> 0, asked |-> Never]
                    /\ sdpJob = [NoJob EXCEPT !.op = "actions", !.root = root]
                    /\ history = {} /\ contexts = <<>> /\ bundles = <<>>
                    /\ watch = Watching
                    /\ explorer = [shown |-> NoSnapshot, deferred |-> NoSnapshot, clear |-> FALSE,
                                   inContext |-> FALSE, stale |-> FALSE]
             PROVE  SdpInv
  BY DEF SdpInit
<1>1. /\ area \in [Projects -> Versions] /\ watch \in Watches /\ watch.failures < MaxFailures
      /\ NoSnapshot \in Readings
  BY SdpTyped
<1>2. session \in Sessions /\ session.doc = 0
  BY SdpBounds DEF Sessions
<1>3. /\ nav \in Navs /\ nav.pending = "actions" /\ nav.bundle = 0 /\ nav.request = 0
      /\ nav.root = root /\ nav.sources = NoSnapshot
  BY <1>1, SdpBounds DEF Navs, Operations
<1>4. "actions" \in Operations /\ NoJob \in SdpJobs
  BY SdpTyped DEF Operations
<1>5. sdpJob \in SdpJobs /\ sdpJob.op = "actions" /\ sdpJob.root = root
  BY <1>4 DEF SdpJobs
<1>6. /\ explorer \in Explorers /\ explorer.shown = NoSnapshot /\ explorer.deferred = NoSnapshot
      /\ ~explorer.clear
  BY <1>1 DEF Explorers
<1>7. DOMAIN contexts = {} /\ DOMAIN bundles = {} /\ history = {}
  OBVIOUS
<1>8. SdpShape
  BY <1>1, <1>2, <1>3, <1>5, <1>6, <1>7 DEF SdpShape
<1>9. JobIsPending
  BY <1>3, <1>5 DEF JobIsPending, WorksFor
<1>10. PanelAgrees
  BY <1>3, <1>6 DEF PanelAgrees, PanelOf, CatalogueOf, AtLast
<1>11. BundlesAgree
  BY <1>2, <1>3, <1>7 DEF BundlesAgree
<1> QED
  BY <1>8, <1>9, <1>10, <1>11 DEF SdpInv

\* The child's end: a view fills the bundle it was given.
LEMMA ExecuteKeeps ==
    ASSUME SdpInv, NEW how \in {"ok", "error", "arguments"}, Execute(how)
    PROVE  SdpInv'
<1>1. /\ SdpShape /\ JobIsPending /\ PanelAgrees /\ BundlesAgree
      /\ sdpJob.op # "" /\ sdpJob.done = "no"
      /\ sdpJob' = [sdpJob EXCEPT !.done = how, !.read = area[sdpJob.root]]
      /\ UNCHANGED <<area, session, history, nav, contexts, watch, explorer>>
  BY DEF SdpInv, Execute
<1>2. /\ nav \in Navs /\ sdpJob \in SdpJobs /\ sdpJob.root = nav.root /\ nav.root \in Projects
      /\ area[sdpJob.root] \in Versions
  BY <1>1 DEF SdpShape, JobIsPending, WorksFor, Navs
<1>3. /\ sdpJob' \in SdpJobs /\ sdpJob'.op = sdpJob.op /\ sdpJob'.root = sdpJob.root
      /\ sdpJob'.request = sdpJob.request /\ sdpJob'.done = how
      /\ sdpJob'.read = area[sdpJob.root]
  BY <1>1, <1>2 DEF SdpJobs
<1>4. JobIsPending'
  BY <1>1, <1>3 DEF JobIsPending, WorksFor
<1>5. PanelAgrees'
  BY <1>1 DEF PanelAgrees
<1>6. /\ BundlesAgree' /\ \A b \in DOMAIN bundles' : bundles'[b] \in Readings
  <2>1. CASE sdpJob.op = "select" /\ how = "ok"
    <3> DEFINE s == Snapshot(sdpJob.root, area[sdpJob.root], TRUE)
    <3>1. bundles' = [bundles EXCEPT ![nav.bundle] = s]
      BY <1>1, <2>1 DEF Execute, JobIsPending, WorksFor
    <3>2. s \in Readings /\ s.root = sdpJob.root /\ s.version = area[sdpJob.root]
      <4>1. sdpJob.root \in Projects \cup {""} /\ TRUE \in BOOLEAN
        BY <1>2
      <4> QED
        BY <1>2, <4>1, SdpTyped
    <3>3. nav.bundle \in DOMAIN bundles
      BY <1>1, <2>1 DEF JobIsPending, WorksFor, BundlesAgree
    <3> HIDE DEF s
    <3>4. /\ DOMAIN bundles' = DOMAIN bundles /\ bundles'[nav.bundle] = s
          /\ \A b \in DOMAIN bundles : b # nav.bundle => bundles'[b] = bundles[b]
      BY <3>1, <3>3
    <3>5. \A b \in DOMAIN contexts : b # nav.bundle /\ b \in DOMAIN bundles
      BY <1>1 DEF BundlesAgree
    <3>6. \A b \in DOMAIN bundles' : bundles'[b] \in Readings
      BY <1>1, <3>2, <3>4 DEF SdpShape
    <3> QED
      BY <1>1, <1>3, <3>2, <3>4, <3>5, <3>6 DEF BundlesAgree
  <2>2. CASE ~(sdpJob.op = "select" /\ how = "ok")
    <3>1. bundles' = bundles
      BY <2>2 DEF Execute
    <3>2. ~(nav'.pending = "select" /\ sdpJob'.done = "ok")
      BY <1>1, <1>3, <2>2 DEF JobIsPending, WorksFor
    <3>3. history' \cup ({session'.doc} \ {0}) \subseteq DOMAIN contexts
      BY <1>1 DEF BundlesAgree
    <3>4. BundlesAgree'
      BY <1>1, <3>1, <3>2, <3>3, BundlesStay
    <3> QED
      BY <1>1, <3>1, <3>4 DEF SdpShape
  <2> QED
    BY <2>1, <2>2
<1>7. SdpShape'
  BY <1>1, <1>3, <1>6 DEF SdpShape
<1> QED
  BY <1>4, <1>5, <1>6, <1>7 DEF SdpInv

\* Opening the menu, and its end: what waited is shown.
LEMMA MenuKeeps == ASSUME SdpInv, OpenMenu \/ Apply PROVE SdpInv'
<1>1. /\ SdpShape /\ JobIsPending /\ PanelAgrees /\ BundlesAgree
      /\ UNCHANGED <<area, session, history, nav, contexts, bundles, sdpJob, watch>>
  BY DEF SdpInv, OpenMenu, Apply
<1>2. explorer \in Explorers /\ NoSnapshot \in Readings
  BY <1>1, SdpTyped DEF SdpShape
<1>3. CASE OpenMenu
  <2>1. ~explorer.inContext /\ explorer' = [explorer EXCEPT !.inContext = TRUE, !.stale = FALSE]
    BY <1>3 DEF OpenMenu
  <2>2. /\ explorer' \in Explorers /\ explorer'.inContext /\ explorer'.shown = explorer.shown
        /\ explorer'.deferred = explorer.deferred /\ explorer'.clear = explorer.clear
    BY <1>2, <2>1 DEF Explorers
  <2>3. PanelOf(explorer', nav.root) /\ CatalogueOf(nav, explorer')
    BY <1>1, <2>2 DEF PanelAgrees, PanelOf, CatalogueOf, AtLast
  <2> QED
    BY <1>1, <2>2, <2>3 DEF SdpInv, SdpShape, JobIsPending, PanelAgrees, BundlesAgree
<1>4. CASE Apply
  <2> DEFINE s == AtLast(explorer)
  <2>1. explorer' = [explorer EXCEPT !.inContext = FALSE, !.clear = FALSE, !.deferred = NoSnapshot,
                                     !.shown = s]
    BY <1>4 DEF Apply, AtLast
  <2>2. s \in Readings
    BY <1>2 DEF AtLast, Explorers
  <2> HIDE DEF s
  <2>3. /\ explorer' \in Explorers /\ ~explorer'.inContext /\ explorer'.shown = s
        /\ explorer'.deferred = NoSnapshot /\ ~explorer'.clear
    BY <1>2, <2>1, <2>2 DEF Explorers
  <2>4. AtLast(explorer') = s
    BY <2>3 DEF AtLast
  <2>5. PanelOf(explorer', nav.root) /\ CatalogueOf(nav, explorer')
    BY <1>1, <2>3, <2>4 DEF PanelAgrees, PanelOf, CatalogueOf, s
  <2> QED
    BY <1>1, <2>3, <2>5 DEF SdpInv, SdpShape, JobIsPending, PanelAgrees, BundlesAgree
<1> QED
  BY <1>3, <1>4

\* Another project, or the same one anew.
LEMMA SelectProjectKeeps ==
    ASSUME SdpInv, NEW root \in Projects, SelectProject(root) PROVE SdpInv'
<1> DEFINE n == [Canceled(nav) EXCEPT !.root = root, !.sources = NoSnapshot, !.queued = FALSE,
                                      !.asked = Never]
           p == IF root = nav.root THEN explorer ELSE Cleared(explorer)
<1>1. /\ SdpShape /\ JobIsPending /\ PanelAgrees /\ BundlesAgree
      /\ nav' = Discovering(n) /\ sdpJob' = DiscoverJob /\ bundles' = Without(bundles, nav.bundle)
      /\ explorer' = DiscoverPanel(p) /\ watch' = Watching
      /\ UNCHANGED <<area, session, history, contexts>>
  BY DEF SdpInv, SelectProject
<1>2. nav \in Navs /\ explorer \in Explorers /\ area \in [Projects -> Versions]
  BY <1>1 DEF SdpShape
<1>3. Canceled(nav) \in Navs /\ Canceled(nav).pending = "" /\ Canceled(nav).bundle = 0
      /\ Canceled(nav).request = nav.request /\ NoSnapshot \in Readings
  BY <1>2, CanceledFacts, SdpTyped
<1>4. /\ n \in Navs /\ n.pending = "" /\ n.bundle = 0 /\ n.root = root /\ n.sources = NoSnapshot
      /\ n.request = nav.request
  BY <1>3 DEF Navs
<1> HIDE DEF n
<1>5. p \in Explorers /\ PanelOf(p, root) /\ CatalogueOf(n, p)
  <2>1. CASE root = nav.root
    BY <1>1, <1>2, <1>4, <2>1 DEF PanelAgrees, CatalogueOf
  <2>2. CASE root # nav.root
    <3>1. ~explorer.inContext => explorer.deferred = NoSnapshot /\ ~explorer.clear
      BY <1>1 DEF PanelAgrees, PanelOf
    <3>2. p = Cleared(explorer)
      BY <2>2
    <3> QED
      BY <1>2, <1>4, <3>1, <3>2, ClearedFacts DEF CatalogueOf
  <2> QED
    BY <2>1, <2>2
<1> HIDE DEF p
<1>6. /\ nav' \in Navs /\ sdpJob' \in SdpJobs /\ explorer' \in Explorers
      /\ nav'.request = n.request /\ nav'.bundle = 0 /\ nav'.pending # "select"
      /\ JobIsPending' /\ PanelAgrees'
  BY <1>1, <1>2, <1>4, <1>5, DiscoveryStarts
<1>7. nav'.request \in Nat /\ nav.request <= nav'.request
  <2>1. nav.request \in Nat
    BY <1>2, SdpBounds DEF Navs
  <2>2. nav'.request = nav.request
    BY <1>4, <1>6
  <2> QED
    BY <2>1, <2>2
<1>8. history' \cup ({session'.doc} \ {0}) \subseteq DOMAIN contexts
  BY <1>1 DEF BundlesAgree
<1>9. BundlesAgree' /\ \A b \in DOMAIN bundles' : bundles'[b] \in Readings
  BY <1>1, <1>6, <1>7, <1>8, BundleDropped
<1> QED
  BY <1>1, <1>6, <1>9, SdpTyped DEF SdpInv, SdpShape


\* activate and follow: a view is asked for, or the tool could not be started;
\* what was asked before is given up.
LEMMA AskViewKeeps ==
    ASSUME SdpInv, NEW target \in Readings, NEW created \in BOOLEAN, AskView(target, created)
    PROVE  SdpInv'
<1> DEFINE b == nav.request + 1
           n == Interrupted(nav)
<1>1. /\ SdpShape /\ JobIsPending /\ PanelAgrees /\ BundlesAgree /\ nav.request < MaxRequest
      /\ UNCHANGED <<area, session, history, contexts, watch, explorer>>
  BY DEF SdpInv, AskView
<1>2. nav \in Navs /\ nav.request \in Nat /\ nav.bundle \in Nat /\ MaxRequest \in Nat
  BY <1>1, SdpBounds DEF SdpShape, Navs
<1>3. /\ n \in Navs /\ n.pending = "" /\ n.bundle = 0 /\ n.root = nav.root /\ n.sources = nav.sources
      /\ n.request = nav.request
  BY <1>2, CanceledFacts
<1>4. b \in 0 .. MaxRequest /\ b \in Nat /\ nav.request <= b /\ b # 0
  BY <1>1, <1>2
<1>5. history' \cup ({session'.doc} \ {0}) \subseteq DOMAIN contexts
  BY <1>1 DEF BundlesAgree
<1> HIDE DEF n
<1>6. CASE created
  <2>1. /\ nav' = [n EXCEPT !.bundle = b, !.request = b, !.pending = "select"]
        /\ sdpJob' = Run("select", nav', target.version)
        /\ bundles' = [x \in (DOMAIN bundles \ {nav.bundle}) \cup {b} |->
                         IF x = b THEN NoSnapshot ELSE bundles[x]]
    BY <1>6 DEF AskView, n
  <2> HIDE DEF b
  <2>2. /\ nav' \in Navs /\ nav'.bundle = b /\ nav'.request = b /\ nav'.pending = "select"
        /\ nav'.root = nav.root /\ nav'.sources = nav.sources
    <3>1. "select" \in Operations
      BY DEF Operations
    <3> QED
      BY <1>3, <1>4, <2>1, <3>1 DEF Navs
  <2>3. target.version \in Versions /\ "select" \in Operations
    BY DEF Readings, Operations
  <2>4. sdpJob' = Run(nav'.pending, nav', target.version)
    BY <2>1, <2>2
  <2>5. sdpJob' \in SdpJobs /\ JobIsPending'
    BY <1>4, <2>2, <2>3, <2>4, RunWorks DEF JobIsPending
  <2>6. sdpJob'.done = "no"
    <3>1. \A m \in Navs : Run("select", m, target.version).done = "no"
      BY <2>3, RunFacts
    <3> QED
      BY <2>1, <2>2, <3>1
  <2>7. PanelAgrees'
    BY <1>1, <2>2 DEF PanelAgrees, PanelOf, CatalogueOf
  <2>8. /\ DOMAIN bundles' = (DOMAIN bundles \ {nav.bundle}) \cup {b}
        /\ \A x \in DOMAIN bundles' : bundles'[x] = IF x = b THEN NoSnapshot ELSE bundles[x]
    BY <2>1
  <2>9. /\ DOMAIN bundles = DOMAIN contexts \cup ({nav.bundle} \ {0})
        /\ nav.bundle \notin DOMAIN contexts /\ DOMAIN contexts \subseteq 1 .. nav.request
    BY <1>1 DEF BundlesAgree
  <2>10. b \notin DOMAIN contexts /\ DOMAIN contexts \subseteq 1 .. b
    BY <1>2, <2>9 DEF b
  <2>11. DOMAIN bundles \ {nav.bundle} = DOMAIN contexts
    BY <2>9
  <2>12. DOMAIN bundles' = DOMAIN contexts \cup ({b} \ {0})
    BY <1>4, <2>8, <2>11
  <2>13. \A x \in DOMAIN contexts : bundles'[x] = bundles[x] /\ x \in DOMAIN bundles
    BY <2>8, <2>9, <2>10, <2>12
  <2>14. \A x \in DOMAIN bundles' : bundles'[x] \in Readings
    BY <1>1, <2>8, SdpTyped DEF SdpShape
  <2>15. \A x \in DOMAIN contexts : /\ bundles'[x].root = contexts[x].root
                                    /\ bundles'[x].version = contexts[x].version
    BY <1>1, <2>13 DEF BundlesAgree
  <2>16. b <= b
    BY <1>4
  <2>17. BundlesAgree'
    BY <1>1, <1>5, <2>2, <2>6, <2>10, <2>12, <2>15, <2>16 DEF BundlesAgree
  <2> QED
    BY <1>1, <2>2, <2>5, <2>7, <2>14, <2>17 DEF SdpInv, SdpShape
<1>7. CASE ~created
  <2>1. /\ nav' = [n EXCEPT !.request = b] /\ sdpJob' = NoJob
        /\ bundles' = Without(bundles, nav.bundle)
    BY <1>7 DEF AskView, n
  <2> HIDE DEF b
  <2>2. /\ nav' \in Navs /\ nav'.bundle = 0 /\ nav'.request = b /\ nav'.pending = ""
        /\ nav'.root = nav.root /\ nav'.sources = nav.sources
    BY <1>3, <1>4, <2>1 DEF Navs
  <2>3. sdpJob' \in SdpJobs /\ sdpJob'.op = ""
    BY <2>1, SdpTyped DEF NoJob
  <2>4. JobIsPending'
    BY <2>2, <2>3 DEF JobIsPending, WorksFor
  <2>5. PanelAgrees'
    BY <1>1, <2>2 DEF PanelAgrees, PanelOf, CatalogueOf
  <2>6. nav'.request \in Nat /\ nav.request <= nav'.request /\ nav'.pending # "select"
    BY <1>4, <2>2
  <2>7. BundlesAgree' /\ \A x \in DOMAIN bundles' : bundles'[x] \in Readings
    BY <1>1, <1>5, <2>1, <2>2, <2>6, BundleDropped
  <2> QED
    BY <1>1, <2>2, <2>3, <2>4, <2>5, <2>7 DEF SdpInv, SdpShape
<1> QED
  BY <1>6, <1>7

\* openSource: what was asked is given up; a document of a visit may be left.
LEMMA OpenSourceKeeps ==
    ASSUME SdpInv, NEW opens \in BOOLEAN, OpenSource(opens) PROVE SdpInv'
<1>1. /\ SdpShape /\ JobIsPending /\ PanelAgrees /\ BundlesAgree
      /\ nav' = Interrupted(nav) /\ sdpJob' = NoJob /\ bundles' = Without(bundles, nav.bundle)
      /\ session' = IF opens THEN [dirty |-> FALSE, doc |-> 0] ELSE session
      /\ history' \subseteq history
      /\ UNCHANGED <<area, contexts, watch, explorer>>
  BY DEF SdpInv, OpenSource
<1>2. nav \in Navs /\ nav.request \in Nat /\ session \in Sessions
  BY <1>1, SdpBounds DEF SdpShape, Navs
<1>3. /\ nav' \in Navs /\ nav'.pending = "" /\ nav'.bundle = 0 /\ nav'.root = nav.root
      /\ nav'.sources = nav.sources /\ nav'.request = nav.request
  BY <1>1, <1>2, CanceledFacts
<1>4. sdpJob' \in SdpJobs /\ sdpJob'.op = ""
  BY <1>1, SdpTyped DEF NoJob
<1>5. JobIsPending'
  BY <1>3, <1>4 DEF JobIsPending, WorksFor
<1>6. PanelAgrees'
  BY <1>1, <1>3 DEF PanelAgrees, PanelOf, CatalogueOf
<1>7. session' \in Sessions /\ session'.doc \in {0, session.doc}
  BY <1>1, <1>2, SdpBounds DEF Sessions
<1>8. history' \cup ({session'.doc} \ {0}) \subseteq DOMAIN contexts
  BY <1>1, <1>7 DEF BundlesAgree
<1>9. nav'.request \in Nat /\ nav.request <= nav'.request /\ nav'.pending # "select"
  <2>1. nav'.request = nav.request /\ nav'.pending # "select"
    BY <1>3
  <2> QED
    BY <1>2, <2>1
<1>10. BundlesAgree' /\ \A x \in DOMAIN bundles' : bundles'[x] \in Readings
  BY <1>1, <1>3, <1>8, <1>9, BundleDropped
<1> QED
  BY <1>1, <1>3, <1>4, <1>5, <1>6, <1>7, <1>10 DEF SdpInv, SdpShape

\* expandModel and nextExpansion.
LEMMA ExpandModelKeeps == ASSUME SdpInv, ExpandModel PROVE SdpInv'
<1> DEFINE n == [nav EXCEPT !.expansion = TRUE]
<1>1. /\ SdpShape /\ JobIsPending /\ PanelAgrees /\ BundlesAgree
      /\ nav' = Expanding(n) /\ nav.pending # "tree"
      /\ sdpJob' = IF nav'.pending = nav.pending THEN sdpJob
                   ELSE Run("tree", nav', nav.sources.version)
      /\ UNCHANGED <<area, session, history, contexts, bundles, watch, explorer>>
  BY DEF SdpInv, ExpandModel
<1>2. nav \in Navs /\ sdpJob \in SdpJobs /\ nav.sources.version \in Versions
  BY <1>1 DEF SdpShape, Navs, Readings
<1>3. /\ n \in Navs /\ n.pending = nav.pending /\ n.bundle = nav.bundle /\ n.request = nav.request
      /\ n.root = nav.root /\ n.sources = nav.sources
  BY <1>2 DEF Navs
<1> HIDE DEF n
<1>4. \/ nav' = n
      \/ n.pending = "" /\ nav' = [n EXCEPT !.pending = "tree", !.expansion = FALSE]
  BY <1>1 DEF Expanding
<1>5. /\ nav' \in Navs /\ nav'.bundle = nav.bundle /\ nav'.request = nav.request
      /\ nav'.root = nav.root /\ nav'.sources = nav.sources
      /\ \/ nav'.pending = nav.pending
         \/ nav.pending = "" /\ nav'.pending = "tree"
  BY <1>3, <1>4 DEF Navs, Operations
<1>6. /\ sdpJob' \in SdpJobs /\ JobIsPending'
      /\ nav'.pending = "select" => sdpJob' = sdpJob /\ nav.pending = "select"
  <2>1. CASE nav'.pending = nav.pending
    BY <1>1, <1>2, <1>5, <2>1 DEF JobIsPending, WorksFor
  <2>2. CASE nav'.pending # nav.pending
    <3>1. sdpJob' = Run(nav'.pending, nav', nav.sources.version)
      BY <1>1, <1>5, <2>2
    <3>2. nav'.pending = "tree" /\ nav'.bundle = 0
      BY <1>1, <1>5, <2>2 DEF JobIsPending, WorksFor
    <3> QED
      BY <1>2, <1>5, <3>1, <3>2, RunWorks DEF JobIsPending
  <2> QED
    BY <2>1, <2>2
<1>7. PanelAgrees'
  BY <1>1, <1>5 DEF PanelAgrees, PanelOf, CatalogueOf
<1>8. history' \cup ({session'.doc} \ {0}) \subseteq DOMAIN contexts
  BY <1>1 DEF BundlesAgree
<1>9. BundlesAgree'
  BY <1>1, <1>5, <1>6, <1>8, BundlesStay
<1> QED
  BY <1>1, <1>5, <1>6, <1>7, <1>9 DEF SdpInv, SdpShape

\* The catalogue of actions has come: the discovery itself is started.
LEMMA PollActionsKeeps ==
    ASSUME SdpInv, NEW lazy \in BOOLEAN, PollActions(lazy) PROVE SdpInv'
<1> DEFINE l == lazy /\ sdpJob.done = "ok"
<1>1. /\ SdpShape /\ JobIsPending /\ PanelAgrees /\ BundlesAgree /\ nav.pending = "actions"
      /\ nav' = [nav EXCEPT !.pending = "discover", !.lazy = l]
      /\ sdpJob' = Run("discover", nav', 0)
      /\ UNCHANGED <<area, session, history, contexts, bundles, watch, explorer>>
  BY DEF SdpInv, PollActions
<1>2. nav \in Navs /\ l \in BOOLEAN
  BY <1>1 DEF SdpShape
<1> HIDE DEF l
<1>3. /\ nav' \in Navs /\ nav'.bundle = nav.bundle /\ nav'.request = nav.request
      /\ nav'.root = nav.root /\ nav'.sources = nav.sources /\ nav'.pending = "discover"
  BY <1>1, <1>2 DEF Navs, Operations
<1>4. sdpJob' = Run(nav'.pending, nav', 0) /\ 0 \in Versions /\ nav'.bundle = 0
  BY <1>1, <1>3, SdpTyped DEF JobIsPending, WorksFor
<1>5. sdpJob' \in SdpJobs /\ JobIsPending'
  BY <1>3, <1>4, RunWorks DEF JobIsPending
<1>6. PanelAgrees'
  BY <1>1, <1>3 DEF PanelAgrees, PanelOf, CatalogueOf
<1>7. history' \cup ({session'.doc} \ {0}) \subseteq DOMAIN contexts
  BY <1>1 DEF BundlesAgree
<1>8. BundlesAgree'
  BY <1>1, <1>3, <1>7, BundlesStay
<1> QED
  BY <1>1, <1>3, <1>5, <1>6, <1>8 DEF SdpInv, SdpShape

\* An answer that leaves the documents as they are: the request has no bundle,
\* or its bundle goes.
LEMMA FinishedKeeps ==
    ASSUME SdpInv, NEW n \in Navs, n.bundle = nav.bundle, n.request = nav.request,
           Finished(n, FALSE), UNCHANGED <<session, history, contexts>>
    PROVE  BundlesAgree' /\ \A b \in DOMAIN bundles' : bundles'[b] \in Readings
<1>1. BundlesAgree /\ nav \in Navs
  BY DEF SdpInv, SdpShape
<1>2. nav'.request = nav.request /\ nav'.bundle = 0 /\ nav'.pending # "select"
  BY FinishedFacts
<1>3. bundles' = Without(bundles, nav.bundle) /\ nav.request \in Nat
  BY <1>1, SdpBounds DEF Finished, Navs
<1>4. history' \cup ({session'.doc} \ {0}) \subseteq DOMAIN contexts
  BY <1>1 DEF BundlesAgree
<1>5. nav'.request \in Nat /\ nav.request <= nav'.request
  BY <1>2, <1>3
<1> QED
  BY <1>2, <1>3, <1>4, <1>5, BundleDropped

\* The discovery's answer is shown, or waits for the menu, and is the catalogue.
LEMMA PollDiscoverKeeps == ASSUME SdpInv, PollDiscover PROVE SdpInv'
<1> DEFINE loaded == ~nav.lazy
           s == Snapshot(sdpJob.root, sdpJob.read, loaded)
           n == [nav EXCEPT !.sources = s, !.expansion = FALSE, !.asked = sdpJob.read]
<1>1. /\ SdpShape /\ JobIsPending /\ PanelAgrees /\ BundlesAgree /\ nav.pending = "discover"
      /\ explorer' = Presented(s) /\ Finished(n, FALSE)
      /\ UNCHANGED <<area, session, history, contexts, watch>>
  BY DEF SdpInv, PollDiscover
<1>2. /\ nav \in Navs /\ sdpJob \in SdpJobs /\ explorer \in Explorers /\ sdpJob.root = nav.root
      /\ nav.root \in Projects /\ sdpJob.read \in Versions
  BY <1>1 DEF SdpShape, JobIsPending, WorksFor, Navs, SdpJobs
<1>3. loaded \in BOOLEAN /\ nav.root \in Projects \cup {""}
  BY <1>2 DEF Navs
<1> HIDE DEF loaded
<1>4. s \in Readings /\ s.root = nav.root /\ s.version = sdpJob.read
  <2>1. s = Snapshot(nav.root, sdpJob.read, loaded)
    BY <1>2
  <2>2. \A v \in Versions, l \in BOOLEAN : /\ Snapshot(nav.root, v, l) \in Readings
                                         /\ Snapshot(nav.root, v, l).root = nav.root
                                         /\ Snapshot(nav.root, v, l).version = v
    BY <1>3, SdpTyped
  <2> QED
    BY <1>2, <1>3, <2>1, <2>2
<1>5. s # NoSnapshot
  BY <1>2, <1>4, SdpTyped
<1> HIDE DEF s
<1>6. n \in Navs /\ n.bundle = nav.bundle /\ n.request = nav.request /\ n.root = nav.root /\ n.sources = s
  BY <1>2, <1>4 DEF Navs
<1> HIDE DEF n
<1>7. explorer' \in Explorers /\ PanelOf(explorer', nav.root) /\ AtLast(explorer') = s
  BY <1>1, <1>2, <1>4, <1>5, PresentedFacts DEF PanelAgrees
<1>8. /\ nav' \in Navs /\ nav'.root = nav.root /\ nav'.sources = s
      /\ sdpJob' \in SdpJobs /\ JobIsPending'
  BY <1>1, <1>6, FinishedFacts
<1>9. PanelAgrees'
  BY <1>4, <1>5, <1>7, <1>8 DEF PanelAgrees, CatalogueOf
<1>10. BundlesAgree' /\ \A b \in DOMAIN bundles' : bundles'[b] \in Readings
  BY <1>1, <1>6, FinishedKeeps
<1> QED
  BY <1>1, <1>7, <1>8, <1>9, <1>10 DEF SdpInv, SdpShape

\* The children of the model come into the tree they were asked for, or not.
LEMMA PollTreeKeeps == ASSUME SdpInv, PollTree PROVE SdpInv'
<1> DEFINE s == [Current EXCEPT !.loaded = TRUE]
           merges == /\ Current.root = sdpJob.root /\ Current.version = sdpJob.version
                     /\ sdpJob.read = sdpJob.version /\ ~Current.loaded
<1>1. /\ SdpShape /\ JobIsPending /\ PanelAgrees /\ BundlesAgree /\ nav.pending = "tree"
      /\ explorer' = (IF merges THEN Presented(s) ELSE explorer) /\ Finished(nav, FALSE)
      /\ UNCHANGED <<area, session, history, contexts, watch>>
  BY DEF SdpInv, PollTree
<1>2. /\ nav \in Navs /\ sdpJob \in SdpJobs /\ explorer \in Explorers /\ sdpJob.root = nav.root
      /\ nav.root \in Projects
  BY <1>1 DEF SdpShape, JobIsPending, WorksFor, Navs
<1>3. /\ nav' \in Navs /\ nav'.root = nav.root /\ nav'.sources = nav.sources
      /\ sdpJob' \in SdpJobs /\ JobIsPending'
  BY <1>1, <1>2, FinishedFacts
<1>4. explorer' \in Explorers /\ PanelOf(explorer', nav.root) /\ CatalogueOf(nav, explorer')
  <2>1. CASE merges
    <3>1. Current \in Readings /\ Current.root = nav.root
      BY <1>2, <2>1 DEF Current, Explorers
    <3>2. s \in Readings /\ s.root = nav.root /\ s.version = Current.version
      BY <3>1 DEF Readings
    <3> HIDE DEF s
    <3>3. s # NoSnapshot
      BY <1>2, <3>2, SdpTyped
    <3>4. explorer' \in Explorers /\ PanelOf(explorer', nav.root) /\ AtLast(explorer') = s
      BY <1>1, <1>2, <2>1, <3>2, <3>3, PresentedFacts DEF PanelAgrees
    <3>5. CatalogueOf(nav, explorer')
      <4>1. ASSUME nav.sources # NoSnapshot
            PROVE  /\ nav.sources.root = nav.root /\ AtLast(explorer) # NoSnapshot
                   /\ AtLast(explorer).version = nav.sources.version
        BY <1>1, <4>1 DEF PanelAgrees, CatalogueOf
      <4>2. AtLast(explorer) # NoSnapshot => AtLast(explorer) = Current
        BY DEF AtLast, Current
      <4> QED
        BY <3>2, <3>3, <3>4, <4>1, <4>2 DEF CatalogueOf
    <3> QED
      BY <3>4, <3>5
  <2>2. CASE ~merges
    BY <1>1, <1>2, <2>2 DEF PanelAgrees
  <2> QED
    BY <2>1, <2>2
<1>5. PanelAgrees'
  BY <1>3, <1>4 DEF PanelAgrees, CatalogueOf
<1>6. BundlesAgree' /\ \A b \in DOMAIN bundles' : bundles'[b] \in Readings
  BY <1>1, <1>2, FinishedKeeps
<1> QED
  BY <1>1, <1>3, <1>4, <1>5, <1>6 DEF SdpInv, SdpShape

\* A request has failed.
LEMMA PollErrorKeeps == ASSUME SdpInv, PollError PROVE SdpInv'
<1> DEFINE a == IF nav.pending \in {"actions", "discover"} THEN sdpJob.read ELSE nav.asked
           n == [nav EXCEPT !.asked = a]
<1>1. /\ SdpShape /\ JobIsPending /\ PanelAgrees /\ BundlesAgree /\ Finished(n, FALSE)
      /\ UNCHANGED <<area, session, history, contexts, watch, explorer>>
  BY DEF SdpInv, PollError
<1>2. nav \in Navs /\ a \in Versions \cup {Never}
  BY <1>1 DEF SdpShape, Navs, SdpJobs
<1> HIDE DEF a
<1>3. /\ n \in Navs /\ n.bundle = nav.bundle /\ n.request = nav.request /\ n.root = nav.root
      /\ n.sources = nav.sources
  BY <1>2 DEF Navs
<1> HIDE DEF n
<1>4. /\ nav' \in Navs /\ nav'.root = nav.root /\ nav'.sources = nav.sources
      /\ sdpJob' \in SdpJobs /\ JobIsPending'
  BY <1>1, <1>3, FinishedFacts
<1>5. PanelAgrees'
  BY <1>1, <1>4 DEF PanelAgrees, PanelOf, CatalogueOf
<1>6. BundlesAgree' /\ \A b \in DOMAIN bundles' : bundles'[b] \in Readings
  BY <1>1, <1>3, FinishedKeeps
<1> QED
  BY <1>1, <1>4, <1>5, <1>6 DEF SdpInv, SdpShape


\* A view has come: it is delivered, with the bundle the child has filled, or
\* it goes.
LEMMA PollSelectKeeps ==
    ASSUME SdpInv, NEW opens \in BOOLEAN, PollSelect(opens) PROVE SdpInv'
<1>1. /\ SdpShape /\ JobIsPending /\ PanelAgrees /\ BundlesAgree
      /\ nav.pending = "select" /\ sdpJob.done = "ok"
      /\ UNCHANGED <<area, watch, explorer>>
  BY DEF SdpInv, PollSelect
<1>2. /\ nav \in Navs /\ sdpJob \in SdpJobs /\ sdpJob.root = nav.root /\ nav.root \in Projects
      /\ nav.request \in Nat /\ nav.bundle \in Nat /\ nav.bundle # 0 /\ session \in Sessions
  BY <1>1, SdpBounds DEF SdpShape, JobIsPending, WorksFor, Navs
<1>3. Finished(nav, Deliverable /\ opens)
  BY DEF PollSelect
<1>4. /\ nav' \in Navs /\ nav'.root = nav.root /\ nav'.sources = nav.sources
      /\ nav'.request = nav.request /\ nav'.bundle = 0 /\ nav'.pending # "select"
      /\ sdpJob' \in SdpJobs /\ JobIsPending'
  <2>1. (Deliverable /\ opens) \in BOOLEAN
    OBVIOUS
  <2> QED
    BY <1>2, <1>3, <2>1, FinishedFacts
<1>5. PanelAgrees'
  BY <1>1, <1>4 DEF PanelAgrees, PanelOf, CatalogueOf
<1>6. CASE Deliverable /\ opens
  <2> DEFINE s == Snapshot(sdpJob.root, sdpJob.version, TRUE)
  <2>1. /\ session' = [dirty |-> FALSE, doc |-> nav.bundle]
        /\ contexts' = [b \in DOMAIN contexts \cup {nav.bundle} |->
                          IF b = nav.bundle THEN s ELSE contexts[b]]
        /\ history' \subseteq history \cup {nav.bundle}
        /\ bundles' = bundles /\ sdpJob.read = sdpJob.version
    BY <1>6 DEF PollSelect, Finished, Deliverable
  <2>2. s \in Readings /\ s.root = sdpJob.root /\ s.version = sdpJob.version
    <3>1. sdpJob.root \in Projects \cup {""} /\ sdpJob.version \in Versions
      BY <1>2 DEF SdpJobs
    <3> QED
      BY <3>1, SdpTyped
  <2> HIDE DEF s
  <2>3. session' \in Sessions /\ session'.doc = nav.bundle
    BY <1>2, <2>1 DEF Sessions, Navs
  <2>4. /\ DOMAIN contexts' = DOMAIN contexts \cup {nav.bundle}
        /\ nav.bundle \notin DOMAIN contexts /\ contexts'[nav.bundle] = s
        /\ \A b \in DOMAIN contexts : contexts'[b] = contexts[b]
    BY <1>1, <2>1 DEF BundlesAgree
  <2>5. \A b \in DOMAIN contexts' : contexts'[b] \in Readings
    BY <1>1, <2>2, <2>4 DEF SdpShape
  <2>6. DOMAIN bundles' = DOMAIN contexts' \cup ({nav'.bundle} \ {0})
    BY <1>1, <1>2, <1>4, <2>1, <2>4 DEF BundlesAgree
  <2>7. DOMAIN contexts' \subseteq 1 .. nav'.request /\ 0 \notin DOMAIN contexts'
    <3>1. DOMAIN contexts \subseteq 1 .. nav.request /\ nav.bundle \in 1 .. nav.request
      BY <1>1, <1>2 DEF BundlesAgree
    <3> QED
      BY <1>2, <1>4, <2>4, <3>1
  <2>8. \A b \in DOMAIN contexts' : /\ bundles'[b].root = contexts'[b].root
                                    /\ bundles'[b].version = contexts'[b].version
    <3>1. bundles[nav.bundle].root = s.root /\ bundles[nav.bundle].version = s.version
      BY <1>1, <2>1, <2>2 DEF BundlesAgree
    <3>2. \A b \in DOMAIN contexts : /\ bundles[b].root = contexts[b].root
                                     /\ bundles[b].version = contexts[b].version
      BY <1>1 DEF BundlesAgree
    <3> QED
      BY <2>1, <2>4, <3>1, <3>2
  <2>9. history' \cup ({session'.doc} \ {0}) \subseteq DOMAIN contexts'
    BY <1>1, <2>1, <2>3, <2>4 DEF BundlesAgree
  <2>10. nav'.bundle \notin DOMAIN contexts' /\ nav'.bundle <= nav'.request
    BY <1>2, <1>4, <2>7
  <2>11. BundlesAgree'
    BY <1>4, <2>6, <2>7, <2>8, <2>9, <2>10 DEF BundlesAgree
  <2> QED
    BY <1>1, <1>4, <1>5, <2>1, <2>3, <2>5, <2>11 DEF SdpInv, SdpShape
<1>7. CASE ~(Deliverable /\ opens)
  <2>1. UNCHANGED <<session, contexts, history>> /\ Finished(nav, FALSE)
    BY <1>7 DEF PollSelect
  <2>2. BundlesAgree' /\ \A b \in DOMAIN bundles' : bundles'[b] \in Readings
    BY <1>1, <1>2, <2>1, FinishedKeeps
  <2> QED
    BY <1>1, <1>4, <1>5, <2>1, <2>2 DEF SdpInv, SdpShape
<1> QED
  BY <1>6, <1>7

\* pollWatch: some of the bundles nobody needs go, and a discovery that is queued starts
\* when nothing is asked.
LEMMA PollWatchKeeps ==
    ASSUME SdpInv, NEW gone \in SUBSET Unused, PollWatch(gone) PROVE SdpInv'
<1> DEFINE q == nav.queued \/ watch.changed
           n == [nav EXCEPT !.queued = q]
           start == n.queued /\ n.pending = ""
<1>1. /\ SdpShape /\ JobIsPending /\ PanelAgrees /\ BundlesAgree
      /\ watch' = [watch EXCEPT !.changed = FALSE]
      /\ contexts' = [b \in DOMAIN contexts \ gone |-> contexts[b]]
      /\ bundles' = [b \in DOMAIN bundles \ gone |-> bundles[b]]
      /\ nav' = (IF start THEN Discovering(n) ELSE n)
      /\ sdpJob' = (IF start THEN DiscoverJob ELSE sdpJob)
      /\ explorer' = (IF start THEN DiscoverPanel(explorer) ELSE explorer)
      /\ UNCHANGED <<area, session, history>>
  BY DEF SdpInv, PollWatch
<1>2. /\ nav \in Navs /\ sdpJob \in SdpJobs /\ explorer \in Explorers /\ watch \in Watches
      /\ area \in [Projects -> Versions]
      /\ nav.request \in Nat /\ nav.bundle \in Nat
  <2>1. /\ nav \in Navs /\ sdpJob \in SdpJobs /\ explorer \in Explorers /\ watch \in Watches
        /\ area \in [Projects -> Versions]
    BY <1>1 DEF SdpShape
  <2> QED
    BY <2>1, SdpBounds DEF Navs
<1>3. /\ n \in Navs /\ n.pending = nav.pending /\ n.bundle = nav.bundle /\ n.root = nav.root
      /\ n.sources = nav.sources /\ n.request = nav.request
  BY <1>2 DEF Navs
<1>4. /\ watch' \in Watches /\ (watch'.alive => watch'.failures < MaxFailures)
  BY <1>1, <1>2 DEF Watches, SdpShape
<1>5. /\ gone \subseteq DOMAIN contexts /\ (gone # {} => nav.pending = "")
      /\ gone \cap (history \cup {session.doc}) = {}
  BY DEF Unused
<1> HIDE DEF n
<1>6. /\ nav' \in Navs /\ sdpJob' \in SdpJobs /\ explorer' \in Explorers
      /\ nav'.request = nav.request /\ nav'.bundle = nav.bundle
      /\ JobIsPending' /\ PanelAgrees'
      /\ nav'.pending = "select" => nav.pending = "select" /\ sdpJob' = sdpJob
  <2>1. CASE start
    <3>1. nav.bundle = 0 /\ n.pending = ""
      BY <1>1, <1>3, <2>1 DEF JobIsPending, WorksFor
    <3>2. PanelOf(explorer, n.root) /\ CatalogueOf(n, explorer)
      BY <1>1, <1>3 DEF PanelAgrees, CatalogueOf
    <3>3. nav' = Discovering(n) /\ sdpJob' = DiscoverJob /\ explorer' = DiscoverPanel(explorer)
      BY <1>1, <2>1
    <3>4. /\ nav' \in Navs /\ sdpJob' \in SdpJobs /\ explorer' \in Explorers
          /\ nav'.request = n.request /\ nav'.bundle = 0 /\ nav'.pending # "select"
          /\ JobIsPending' /\ PanelAgrees'
      BY <1>2, <1>3, <3>1, <3>2, <3>3, DiscoveryStarts
    <3> QED
      BY <1>3, <3>1, <3>4
  <2>2. CASE ~start
    <3>1. nav' = n /\ sdpJob' = sdpJob /\ explorer' = explorer
      BY <1>1, <2>2
    <3>2. JobIsPending' /\ PanelAgrees'
      BY <1>1, <1>3, <3>1 DEF JobIsPending, WorksFor, PanelAgrees, CatalogueOf
    <3> QED
      BY <1>2, <1>3, <3>1, <3>2
  <2> QED
    BY <2>1, <2>2
<1>7. /\ DOMAIN contexts' = DOMAIN contexts \ gone /\ DOMAIN bundles' = DOMAIN bundles \ gone
      /\ \A b \in DOMAIN contexts' : b \in DOMAIN contexts /\ contexts'[b] = contexts[b]
      /\ \A b \in DOMAIN bundles' : b \in DOMAIN bundles /\ bundles'[b] = bundles[b]
  BY <1>1
<1>8. /\ DOMAIN bundles = DOMAIN contexts \cup ({nav.bundle} \ {0})
      /\ DOMAIN contexts \subseteq 1 .. nav.request
      /\ nav.bundle \notin DOMAIN contexts /\ nav.bundle <= nav.request
      /\ history \cup ({session.doc} \ {0}) \subseteq DOMAIN contexts
  BY <1>1 DEF BundlesAgree
<1>9. nav.bundle \notin gone /\ DOMAIN contexts' \subseteq DOMAIN bundles'
  BY <1>5, <1>7, <1>8
<1>10. DOMAIN bundles' = DOMAIN contexts' \cup ({nav'.bundle} \ {0})
  BY <1>6, <1>7, <1>8, <1>9
<1>11. /\ DOMAIN contexts' \subseteq 1 .. nav'.request /\ nav'.bundle \notin DOMAIN contexts'
       /\ nav'.bundle <= nav'.request
  BY <1>6, <1>7, <1>8
<1>12. \A b \in DOMAIN contexts' : /\ bundles'[b].root = contexts'[b].root
                                   /\ bundles'[b].version = contexts'[b].version
  BY <1>1, <1>7, <1>9 DEF BundlesAgree
<1>13. nav'.pending = "select" /\ sdpJob'.done = "ok" =>
          /\ bundles'[nav'.bundle].root = sdpJob'.root
          /\ bundles'[nav'.bundle].version = sdpJob'.read
  <2> SUFFICES ASSUME nav'.pending = "select", sdpJob'.done = "ok"
               PROVE  /\ bundles'[nav'.bundle].root = sdpJob'.root
                      /\ bundles'[nav'.bundle].version = sdpJob'.read
    OBVIOUS
  <2>1. nav.pending = "select" /\ sdpJob' = sdpJob /\ sdpJob.done = "ok" /\ nav.bundle # 0
    BY <1>1, <1>6 DEF JobIsPending, WorksFor
  <2>2. nav.bundle \in DOMAIN bundles'
    BY <1>7, <1>8, <1>9, <2>1
  <2>3. bundles[nav.bundle].root = sdpJob.root /\ bundles[nav.bundle].version = sdpJob.read
    BY <1>1, <2>1 DEF BundlesAgree
  <2>4. bundles'[nav.bundle] = bundles[nav.bundle]
    BY <1>7, <2>2
  <2> QED
    BY <1>6, <2>1, <2>3, <2>4
<1>14. history' \cup ({session'.doc} \ {0}) \subseteq DOMAIN contexts'
  BY <1>1, <1>5, <1>7, <1>8
<1>15. BundlesAgree'
  BY <1>10, <1>11, <1>12, <1>13, <1>14 DEF BundlesAgree
<1>16. SdpShape'
  BY <1>1, <1>4, <1>6, <1>7 DEF SdpShape
<1> QED
  BY <1>6, <1>15, <1>16 DEF SdpInv

\* The watching thread, and other programs: they leave the explorer alone.
LEMMA WatchingKeeps ==
    ASSUME SdpInv, \/ \E late \in BOOLEAN : Scan(late)
                   \/ ScanFails
                   \/ \E p \in Projects : ChangeArea(p)
    PROVE  SdpInv'
<1>1. /\ SdpShape /\ JobIsPending /\ PanelAgrees /\ BundlesAgree
      /\ UNCHANGED <<session, history, nav, contexts, bundles, sdpJob, explorer>>
  BY DEF SdpInv, Scan, ScanFails, ChangeArea
<1>2. /\ JobIsPending' /\ PanelAgrees' /\ BundlesAgree'
  BY <1>1 DEF JobIsPending, PanelAgrees, BundlesAgree
<1>3. /\ watch \in Watches /\ area \in [Projects -> Versions] /\ nav.root \in Projects
      /\ (watch.alive => watch.failures < MaxFailures)
  BY <1>1 DEF SdpShape, Navs
<1>4. /\ watch' \in Watches /\ area' \in [Projects -> Versions]
      /\ (watch'.alive => watch'.failures < MaxFailures)
  <2>1. ASSUME NEW late \in BOOLEAN, Scan(late)
        PROVE  /\ watch' \in Watches /\ area' \in [Projects -> Versions]
               /\ (watch'.alive => watch'.failures < MaxFailures)
    <3> DEFINE version == area[nav.root]
               different == version # watch.previous
               pending == watch.pending \/ different
               report == pending /\ (~different \/ (late /\ watch.pending))
               waits == pending /\ ~report
               changed == watch.changed \/ report
    <3>1. area' = area /\ version \in Versions
      BY <1>3, <2>1 DEF Scan
    <3>2. waits \in BOOLEAN /\ changed \in BOOLEAN
      OBVIOUS
    <3>3. \/ watch' = FirstScan(version)
          \/ watch' = [watch EXCEPT !.previous = version, !.failures = 0, !.pending = waits,
                                    !.changed = changed]
      BY <2>1 DEF Scan
    <3> HIDE DEF version, waits, changed
    <3>4. watch' \in Watches /\ watch'.failures = 0
      <4>1. 0 \in 0 .. MaxFailures
        BY SdpBounds
      <4>2. CASE watch' = FirstScan(version)
        <5>1. watch' = [watch EXCEPT !.initial = FALSE, !.previous = version, !.failures = 0,
                                     !.changed = TRUE]
          BY <4>2 DEF FirstScan
        <5> QED
          BY <1>3, <3>1, <4>1, <5>1 DEF Watches
      <4>3. CASE watch' = [watch EXCEPT !.previous = version, !.failures = 0, !.pending = waits,
                                        !.changed = changed]
        BY <1>3, <3>1, <3>2, <4>1, <4>3 DEF Watches
      <4> QED
        BY <3>3, <4>2, <4>3
    <3> QED
      BY <1>3, <3>1, <3>4, SdpBounds
  <2>2. ASSUME ScanFails
        PROVE  /\ watch' \in Watches /\ area' \in [Projects -> Versions]
               /\ (watch'.alive => watch'.failures < MaxFailures)
    <3> DEFINE f == watch.failures + 1
               alive == f < MaxFailures
    <3>1. area' = area /\ watch' = [watch EXCEPT !.failures = f, !.alive = alive] /\ watch.alive
      BY <2>2 DEF ScanFails
    <3>2. watch.failures \in 0 .. MaxFailures
      BY <1>3 DEF Watches
    <3>3. f \in 0 .. MaxFailures /\ alive \in BOOLEAN
      BY <1>3, <3>1, <3>2, SdpBounds
    <3> HIDE DEF f
    <3>4. watch' \in Watches /\ watch'.failures = f /\ watch'.alive = alive
      BY <1>3, <3>1, <3>3 DEF Watches
    <3> QED
      BY <1>3, <3>1, <3>4
  <2>3. ASSUME NEW p \in Projects, ChangeArea(p)
        PROVE  /\ watch' \in Watches /\ area' \in [Projects -> Versions]
               /\ (watch'.alive => watch'.failures < MaxFailures)
    <3>1. watch' = watch /\ area[p] < MaxVersion /\ area' = [area EXCEPT ![p] = area[p] + 1]
      BY <2>3 DEF ChangeArea
    <3>2. area[p] + 1 \in Versions
      BY <1>3, <3>1, SdpBounds DEF Versions
    <3> QED
      BY <1>3, <3>1, <3>2
  <2>4. (\E late \in BOOLEAN : Scan(late)) \/ ScanFails \/ (\E p \in Projects : ChangeArea(p))
    OBVIOUS
  <2> QED
    BY <2>1, <2>2, <2>3, <2>4
<1> QED
  BY <1>1, <1>2, <1>4 DEF SdpInv, SdpShape

\* The reader's text: an edit, a save, a visit to a document that is owned.
LEMMA ReaderKeeps ==
    ASSUME SdpInv, EditText \/ SaveText \/ \E d \in 0 .. MaxRequest : Visit(d)
    PROVE  SdpInv'
<1>1. /\ SdpShape /\ JobIsPending /\ PanelAgrees /\ BundlesAgree
      /\ UNCHANGED <<area, nav, contexts, bundles, watch, explorer>>
  BY DEF SdpInv, EditText, SaveText, Visit
<1>2. session \in Sessions /\ sdpJob \in SdpJobs
  BY <1>1 DEF SdpShape
<1>3. /\ sdpJob' \in SdpJobs /\ sdpJob'.op = sdpJob.op /\ sdpJob'.root = sdpJob.root
      /\ sdpJob'.request = sdpJob.request /\ sdpJob'.done = sdpJob.done
      /\ sdpJob'.read = sdpJob.read
  <2>1. sdpJob' = sdpJob \/ sdpJob' = [sdpJob EXCEPT !.same = FALSE]
    BY DEF EditText, SaveText, Visit
  <2> QED
    BY <1>2, <2>1 DEF SdpJobs
<1>4. /\ session' \in Sessions
      /\ history' \cup ({session'.doc} \ {0}) \subseteq DOMAIN contexts
  <2>1. history \cup ({session.doc} \ {0}) \subseteq DOMAIN contexts
    BY <1>1 DEF BundlesAgree
  <2>2. CASE EditText
    <3>1. session' = [session EXCEPT !.dirty = TRUE] /\ history' = history
      BY <2>2 DEF EditText
    <3>2. session' \in Sessions /\ session'.doc = session.doc
      BY <1>2, <3>1 DEF Sessions
    <3> QED
      BY <2>1, <3>1, <3>2
  <2>3. CASE SaveText
    <3>1. session' = [session EXCEPT !.dirty = FALSE] /\ history' = history
      BY <2>3 DEF SaveText
    <3>2. session' \in Sessions /\ session'.doc = session.doc
      BY <1>2, <3>1 DEF Sessions
    <3> QED
      BY <2>1, <3>1, <3>2
  <2>4. ASSUME NEW d \in 0 .. MaxRequest, Visit(d)
        PROVE  /\ session' \in Sessions
               /\ history' \cup ({session'.doc} \ {0}) \subseteq DOMAIN contexts
    <3>1. /\ session' = [dirty |-> FALSE, doc |-> d] /\ d \in history \cup {0}
          /\ history' \subseteq history \cup ({d} \ {0})
      BY <2>4 DEF Visit
    <3>2. session' \in Sessions /\ session'.doc = d
      BY <3>1 DEF Sessions
    <3> QED
      BY <2>1, <3>1, <3>2
  <2>5. EditText \/ SaveText \/ \E d \in 0 .. MaxRequest : Visit(d)
    OBVIOUS
  <2> QED
    BY <2>2, <2>3, <2>4, <2>5
<1>5. JobIsPending' /\ PanelAgrees'
  BY <1>1, <1>3 DEF JobIsPending, WorksFor, PanelAgrees
<1>6. BundlesAgree'
  BY <1>1, <1>3, <1>4, BundlesStay
<1> QED
  BY <1>1, <1>3, <1>4, <1>5, <1>6 DEF SdpInv, SdpShape

\* Every step keeps the invariant.
LEMMA SdpStepKeeps == SdpInv /\ [SdpNext]_sdpVars => SdpInv'
<1> SUFFICES ASSUME SdpInv, [SdpNext]_sdpVars PROVE SdpInv'
  OBVIOUS
<1>1. ASSUME NEW done \in BOOLEAN, ActivateView(done) PROVE SdpInv'
  <2>1. explorer.shown \in Readings /\ AskView(explorer.shown, done)
    BY <1>1 DEF ActivateView, SdpInv, SdpShape, Explorers
  <2> QED
    BY <2>1, AskViewKeeps
<1>2. ASSUME NEW done \in BOOLEAN, FollowBundle(done) PROVE SdpInv'
  <2>1. contexts[session.doc] \in Readings /\ AskView(contexts[session.doc], done)
    BY <1>2 DEF FollowBundle, SdpInv, SdpShape
  <2> QED
    BY <2>1, AskViewKeeps
<1>3. CASE PollTool
  BY <1>3, PollActionsKeeps, PollDiscoverKeeps, PollTreeKeeps, PollErrorKeeps, PollSelectKeeps
     DEF PollTool
<1>4. CASE UNCHANGED sdpVars
  BY <1>4 DEF sdpVars, SdpInv, SdpShape, JobIsPending, PanelAgrees, BundlesAgree
<1>5. CASE SdpNext
  BY <1>1, <1>2, <1>3, <1>5, ExecuteKeeps, MenuKeeps, ExpandModelKeeps, OpenSourceKeeps,
     SelectProjectKeeps, PollWatchKeeps, WatchingKeeps, ReaderKeeps DEF SdpNext
<1> QED
  BY <1>4, <1>5

\* Only a view that is delivered brings a document that is owned, and it
\* replaces no text with unsaved edits.
LEMMA SdpActs ==
    ASSUME SdpInv, [SdpNext]_sdpVars
    PROVE  DOMAIN contexts' \subseteq DOMAIN contexts \/ ~session.dirty
<1> SUFFICES ASSUME session.dirty PROVE DOMAIN contexts' \subseteq DOMAIN contexts
  OBVIOUS
<1>1. ASSUME NEW opens \in BOOLEAN, PollSelect(opens) PROVE contexts' = contexts
  BY <1>1 DEF PollSelect, Deliverable
<1>2. ASSUME NEW gone \in SUBSET Unused, PollWatch(gone) PROVE DOMAIN contexts' \subseteq DOMAIN contexts
  BY <1>2 DEF PollWatch
<1>3. CASE PollTool
  BY <1>1, <1>3 DEF PollTool, PollActions, PollDiscover, PollTree, PollError
<1>4. CASE UNCHANGED sdpVars
  BY <1>4 DEF sdpVars
<1>5. ASSUME NEW done \in BOOLEAN, ActivateView(done) \/ FollowBundle(done) \/ OpenSource(done)
      PROVE  contexts' = contexts
  BY <1>5 DEF ActivateView, FollowBundle, AskView, OpenSource
<1>6. CASE \/ \E how \in {"ok", "error", "arguments"} : Execute(how)
           \/ OpenMenu \/ Apply \/ ExpandModel
           \/ \E root \in Projects : SelectProject(root) \/ ChangeArea(root)
           \/ \E late \in BOOLEAN : Scan(late)
           \/ ScanFails \/ EditText \/ SaveText
           \/ \E d \in 0 .. MaxRequest : Visit(d)
  BY <1>6 DEF Execute, OpenMenu, Apply, ExpandModel, SelectProject, ChangeArea, Scan, ScanFails,
     EditText, SaveText, Visit
<1> QED
  BY <1>2, <1>3, <1>4, <1>5, <1>6 DEF SdpNext

\* What the invariant says of the explorer.
LEMMA SdpInvMeans ==
    ASSUME SdpInv
    PROVE  /\ SdpTypeOK
           /\ Finally # NoSnapshot => Finally.root = nav.root
           /\ explorer.shown # NoSnapshot /\ explorer.shown.root # nav.root => explorer.inContext
           /\ nav.sources # NoSnapshot => /\ Finally.root = nav.sources.root
                                          /\ Finally.version = nav.sources.version
           /\ \A b \in DOMAIN contexts : b \in DOMAIN bundles /\ bundles[b].root = contexts[b].root
                                          /\ bundles[b].version = contexts[b].version
           /\ DOMAIN bundles = DOMAIN contexts \cup ({nav.bundle} \ {0})
           /\ history \cup ({session.doc} \ {0}) \subseteq DOMAIN contexts
<1>1. SdpShape /\ PanelAgrees /\ BundlesAgree /\ Finally = AtLast(explorer)
  BY DEF SdpInv, Finally, AtLast
<1>2. SdpTypeOK
  <2>1. session \in [dirty : BOOLEAN, doc : 0 .. MaxRequest] /\ area \in [Projects -> Versions]
    BY <1>1 DEF SdpShape, Sessions
  <2>2. /\ nav.sources \in Readings /\ nav.pending \in {"", "actions", "discover", "tree", "select"}
        /\ explorer.shown \in Readings /\ explorer.deferred \in Readings
        /\ watch.failures \in 0 .. MaxFailures
    BY <1>1 DEF SdpShape, Navs, Operations, Explorers, Watches
  <2>3. {contexts[b] : b \in DOMAIN contexts} \cup {bundles[b] : b \in DOMAIN bundles} \subseteq Readings
    BY <1>1 DEF SdpShape
  <2> QED
    BY <2>1, <2>2, <2>3 DEF SdpTypeOK
<1>3. /\ Finally # NoSnapshot => Finally.root = nav.root
      /\ explorer.shown # NoSnapshot /\ explorer.shown.root # nav.root => explorer.inContext
      /\ nav.sources # NoSnapshot => /\ Finally.root = nav.sources.root
                                     /\ Finally.version = nav.sources.version
  BY <1>1 DEF PanelAgrees, PanelOf, CatalogueOf
<1> QED
  BY <1>1, <1>2, <1>3 DEF BundlesAgree

\* The explorer's property needs no fairness.
LEMMA SdpActsOnItsAnswers ==
    SdpInit /\ [][SdpNext]_sdpVars => AnswersLandWhereAsked
<1>1. SdpInit => SdpInv
  BY SdpInitHolds
<1>2. SdpInv /\ [SdpNext]_sdpVars => SdpInv'
  BY SdpStepKeeps
<1>3. SdpInv =>
         /\ Finally # NoSnapshot => Finally.root = nav.root
         /\ explorer.shown # NoSnapshot /\ explorer.shown.root # nav.root => explorer.inContext
         /\ nav.sources # NoSnapshot => /\ Finally.root = nav.sources.root
                                        /\ Finally.version = nav.sources.version
         /\ \A b \in DOMAIN contexts : b \in DOMAIN bundles /\ bundles[b].root = contexts[b].root
                                        /\ bundles[b].version = contexts[b].version
         /\ DOMAIN bundles = DOMAIN contexts \cup ({nav.bundle} \ {0})
         /\ history \cup ({session.doc} \ {0}) \subseteq DOMAIN contexts
  BY SdpInvMeans
<1>4. SdpInv /\ [SdpNext]_sdpVars =>
         [DOMAIN contexts' \subseteq DOMAIN contexts \/ ~session.dirty]_sdpVars
  BY SdpActs
<1> QED
  BY <1>1, <1>2, <1>3, <1>4, PTL DEF AnswersLandWhereAsked

\* The tree, the catalogue and the project belong together, a generated
\* document is kept with what it was generated from, and an answer replaces no
\* unsaved text: deliver, present, prune (SdpNavigation), SdpPanel's context.
THEOREM AnswersLand == SdpSpec => AnswersLandWhereAsked
  BY SdpActsOnItsAnswers, PTL DEF SdpSpec

\* The explorer's variables keep their types.
THEOREM SdpTypeCorrect == SdpSpec => []SdpTypeOK
<1>1. SdpInit => SdpInv
  BY SdpInitHolds
<1>2. SdpInv /\ [SdpNext]_sdpVars => SdpInv'
  BY SdpStepKeeps
<1>3. SdpInv => SdpTypeOK
  BY SdpInvMeans
<1> QED
  BY <1>1, <1>2, <1>3, PTL DEF SdpSpec


-----------------------------------------------------------------------------
(***************************************************************************)
(* The components side by side.                                            *)
(***************************************************************************)

\* Whichever component a behaviour follows, each of them behaves as it does
\* alone: it takes one of its own steps, or rests.
LEMMA EachBehavesAlone ==
    /\ Init => NavInit /\ DelInit /\ SdpInit /\ SduiInit
    /\ [Next]_allVars => [NavNext]_navVars /\ [DelNext]_delVars /\ [SdpNext]_sdpVars /\ [SduiNext]_sduiVars
<1>1. Init => NavInit /\ DelInit /\ SdpInit /\ SduiInit
  BY DEF Init
<1>2. UNCHANGED allVars => UNCHANGED navVars /\ UNCHANGED delVars /\ UNCHANGED sdpVars /\ UNCHANGED sduiVars
  BY DEF allVars
<1>3. Next => [NavNext]_navVars /\ [DelNext]_delVars /\ [SdpNext]_sdpVars /\ [SduiNext]_sduiVars
  BY DEF Next, NavStep, Rests
<1> QED
  BY <1>1, <1>2, <1>3

\* All the type invariants, for every behaviour that is checked side by side.
THEOREM ReadingTypesHold == Spec => []TypeOK
<1>1. Spec => NavSpec /\ DelSpec /\ SduiSpec /\ SdpInit /\ [][SdpNext]_sdpVars
  BY EachBehavesAlone, PTL DEF Spec, NavSpec, DelSpec, SduiSpec
<1>2. SdpInit => SdpInv
  BY SdpInitHolds
<1>3. SdpInv /\ [SdpNext]_sdpVars => SdpInv'
  BY SdpStepKeeps
<1>4. SdpInv => SdpTypeOK
  BY SdpInvMeans
<1>5. SduiInit => SduiInv
  BY SduiInitHolds
<1>6. SduiInv /\ [SduiNext]_sduiVars => SduiInv'
  BY SduiStepKeeps
<1>7. SduiInv => SduiTypeOK
  BY SduiInvMeans
<1>8. NavTypeOK /\ DelTypeOK /\ SdpTypeOK /\ SduiTypeOK => TypeOK
  BY DEF TypeOK
<1> QED
  BY <1>1, <1>2, <1>3, <1>4, <1>5, <1>6, <1>7, <1>8, NavTypeCorrect, DelTypeCorrect, PTL DEF SduiSpec

\* Answers of the tools land where they were asked for.
THEOREM ToolsAnswer == Spec => ToolsAnswerWhereAsked
<1>1. Spec => SduiSpec /\ SdpInit /\ [][SdpNext]_sdpVars
  BY EachBehavesAlone, PTL DEF Spec, SduiSpec
<1> QED
  BY <1>1, SdpActsOnItsAnswers, LaunchesWhatWasChecked, PTL DEF ToolsAnswerWhereAsked
=============================================================================
