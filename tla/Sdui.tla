-------------------------------- MODULE Sdui --------------------------------
(***************************************************************************)
(* What a generated document of the SDP explorer leads to: SduiWorkflow    *)
(* checks in a child process whether the frame on display can be run and   *)
(* launches its prototype; followSduiSource and followSdlSource open the   *)
(* source a link names and select the bytes it was generated from.  Other  *)
(* programs write the sources, the helpers come and go, and the reader     *)
(* edits, answers questions late or goes to another document meanwhile.    *)
(***************************************************************************)
EXTENDS Integers, FiniteSets

CONSTANTS
    Sources,       \* the source files
    Main,          \* the one SDUI previews are made from
    SduiEntries,   \* its frames
    MaxWrites,     \* bound: revisions; there are no more writes once a source has the last
    MaxChildren    \* bound: prototypes launched

ASSUME SduiAssumption == Main \in Sources /\ {MaxWrites, MaxChildren} \subseteq Nat

VARIABLES
    files,      \* the revision of each source on the disk
    catalogue,  \* the revisions SdpNavigation::sources names; Nowhere in another project
    onDisplay,  \* the document on display, whether it is dirty, and the revision of its text
    helpers,    \* sduiExecutable finds both
    flow,       \* SduiWorkflow: key, pending, ready
    probe,      \* the child that checks: what, and its answer
    children,   \* the prototypes that were not reaped
    logs,       \* the directories of their logs
    follow,     \* the link that is being followed: with its context, and how far; optional
    selected,   \* the selection in the editor that came from a link; optional
    confirmed   \* what the helper has ever confirmed (for the properties)

sduiVars == <<files, catalogue, onDisplay, helpers, flow, probe, children, logs, follow,
              selected, confirmed>>

Revisions == 0 .. MaxWrites
Nowhere == [s \in Sources |-> -1]

\* A generated document: a frame's preview or, without an entry, a view of the
\* model; with the snapshot of the sources it was made from.
Generated == [entry : SduiEntries \cup {""}, made : [Sources -> Revisions]]
NoDocument == [entry |-> "", made |-> Nowhere]

\* Another text, that of a source, or a generated one.
Other == [source |-> "", made |-> NoDocument]
TextOf(s) == [source |-> s, made |-> NoDocument]

NoKey == [frame |-> NoDocument, helpers |-> FALSE]
NoProbe == [frame |-> NoDocument, answer |-> "none"]

SduiInit ==
    /\ files = [s \in Sources |-> 0] /\ catalogue = files
    /\ onDisplay = [doc |-> Other, dirty |-> FALSE, text |-> 0]
    /\ helpers = TRUE
    /\ flow = [key |-> NoKey, pending |-> FALSE, ready |-> FALSE] /\ probe = NoProbe
    /\ children = <<>> /\ logs = {} /\ follow = <<>> /\ selected = <<>> /\ confirmed = {}

\* No question is open; timers fire when one is, but not while a link's source
\* is opened and compared.
Free == follow = <<>>
TimersFire == \A n \in DOMAIN follow : follow[n].step = "asking"

(***************************************************************************)
(* SduiWorkflow.                                                           *)
(***************************************************************************)
\* currentSdui and contextKey
CurrentKey ==
    LET frame == onDisplay.doc.made IN
    IF frame.entry # "" /\ catalogue[Main] = frame.made[Main] /\ ~onDisplay.dirty
    THEN [frame |-> frame, helpers |-> helpers] ELSE NoKey

\* Mutant of Rekeyed: what was known of the frame before is kept.
RekeyedKeeping(f, k) ==
    IF k = f.key THEN f
    ELSE [f EXCEPT !.key = k, !.pending = k # NoKey /\ k.helpers]

\* poll: another frame, or other helpers, are checked anew.
Rekeyed(f, k) ==
    IF k = f.key THEN f
    ELSE [key |-> k, pending |-> k # NoKey /\ k.helpers, ready |-> FALSE]

Probed(f, k) ==
    IF k = f.key THEN probe
    ELSE IF k # NoKey /\ k.helpers THEN [frame |-> k.frame, answer |-> "none"] ELSE NoProbe

\* take: an answer counts if it is of the target that was asked about.
ProbeAnswered(f, p) ==
    IF ~f.pending \/ p.answer = "none" THEN f
    ELSE [f EXCEPT !.pending = FALSE, !.ready = p.answer = "checked"]

\* poll: children that ended are reaped, and the log of a failure is kept.
PollSdui ==
    /\ TimersFire
    /\ LET ended == {c \in DOMAIN children : children[c].state # "running"}
           asked == Rekeyed(flow, CurrentKey)
           p == Probed(flow, CurrentKey)
           taken == ProbeAnswered(asked, p)
       IN /\ children' = [c \in DOMAIN children \ ended |-> children[c]]
          /\ logs' = logs \ {c \in ended : children[c].state = "ok"}
          /\ flow' = taken
          /\ probe' = IF asked.pending /\ ~taken.pending THEN NoProbe ELSE p
    /\ UNCHANGED <<files, catalogue, onDisplay, helpers, follow, selected, confirmed>>

\* launch, from the button that is enabled while the SDP tab is in front: the
\* prototype runs in a session of its own, or does not start.
Launch(starts) ==
    /\ Free /\ Cardinality(logs) < MaxChildren
    /\ flow.ready /\ flow.key # NoKey /\ flow.key = CurrentKey
    /\ LET c == CHOOSE n \in 1 .. MaxChildren : n \notin logs IN
       IF starts
       THEN /\ children' = [n \in DOMAIN children \cup {c} |->
                              IF n = c THEN [frame |-> flow.key.frame, state |-> "running"]
                              ELSE children[n]]
            /\ logs' = logs \cup {c}
       ELSE UNCHANGED <<children, logs>>
    /\ UNCHANGED <<files, catalogue, onDisplay, helpers, flow, probe, follow, selected, confirmed>>

\* The helper checks that the source still is what the request names.
ProbeAnswers(answer) ==
    /\ probe.frame # NoDocument /\ probe.answer = "none"
    /\ answer = "checked" => files[Main] = probe.frame.made[Main]
    /\ probe' = [probe EXCEPT !.answer = answer]
    /\ confirmed' = IF answer = "checked" THEN confirmed \cup {probe.frame} ELSE confirmed
    /\ UNCHANGED <<files, catalogue, onDisplay, helpers, flow, children, logs, follow, selected>>

PrototypeEnds(state) ==
    /\ \E c \in DOMAIN children :
          children[c].state = "running" /\ children' = [children EXCEPT ![c].state = state]
    /\ UNCHANGED <<files, catalogue, onDisplay, helpers, flow, probe, logs, follow, selected,
                   confirmed>>

(***************************************************************************)
(* followSduiSource and followSdlSource.                                   *)
(***************************************************************************)
\* A view of the model was made from every source, a frame from one.
Linked(document) == IF document.entry = "" THEN Sources ELSE {Main}

Unchanged(document) == \A s \in Linked(document) : files[s] = document.made[s]

\* The context is that of the document on display: followSdlSource keeps a
\* copy of it, followSduiSource does not use its reference after opening, when
\* the one in the map may have been pruned.
FollowRow(s) ==
    /\ Free /\ onDisplay.doc.made # NoDocument /\ catalogue # Nowhere
    /\ LET document == onDisplay.doc.made IN
       /\ s \in Linked(document) /\ Unchanged(document)
       /\ document.entry # "" => catalogue[s] = document.made[s]
       /\ follow' = <<[document |-> document, source |-> s, step |-> "asking"]>>
    /\ UNCHANGED <<files, catalogue, onDisplay, helpers, flow, probe, children, logs, selected,
                   confirmed>>

\* Application::open, after the question about unsaved changes, or not at all.
OpenLinked(opens) ==
    /\ ~Free /\ follow[1].step = "asking"
    /\ IF opens
       THEN /\ onDisplay' = [doc |-> TextOf(follow[1].source), dirty |-> FALSE,
                           text |-> files[follow[1].source]]
            /\ follow' = [follow EXCEPT ![1].step = "opened"]
            /\ selected' = <<>>
       ELSE follow' = <<>> /\ UNCHANGED <<onDisplay, selected>>
    /\ UNCHANGED <<files, catalogue, helpers, flow, probe, children, logs, confirmed>>

\* Mutant of Highlight: the text that was opened is not compared.
HighlightUnseen ==
    /\ ~Free /\ follow[1].step = "opened"
    /\ follow' = <<>>
    /\ selected' = <<follow[1]>>
    /\ UNCHANGED <<files, catalogue, onDisplay, helpers, flow, probe, children, logs, confirmed>>

\* The sources of a model are compared once more, and the text in any case.
Highlight ==
    /\ ~Free /\ follow[1].step = "opened"
    /\ LET f == follow[1]
           same == /\ f.document.entry = "" => Unchanged(f.document)
                   /\ onDisplay.text = f.document.made[f.source]
       IN selected' = IF same THEN <<f>> ELSE <<>>
    /\ follow' = <<>>
    /\ UNCHANGED <<files, catalogue, onDisplay, helpers, flow, probe, children, logs, confirmed>>

(***************************************************************************)
(* The explorer, the reader and other programs.                            *)
(***************************************************************************)
\* A document is generated, or a visit goes back to one.
Display(doc) ==
    /\ Free /\ ~onDisplay.dirty
    /\ \A s \in Sources : doc.made # NoDocument => doc.made.made[s] <= files[s]
    /\ onDisplay' = [doc |-> doc, dirty |-> FALSE,
                   text |-> IF doc.source = "" THEN 0 ELSE files[doc.source]]
    /\ selected' = <<>>
    /\ UNCHANGED <<files, catalogue, helpers, flow, probe, children, logs, follow, confirmed>>

EditDocument ==
    /\ Free /\ ~onDisplay.dirty
    /\ onDisplay' = [onDisplay EXCEPT !.dirty = TRUE]
    /\ selected' = <<>>
    /\ UNCHANGED <<files, catalogue, helpers, flow, probe, children, logs, follow, confirmed>>

\* Saving, or undoing, makes it clean again.
CleanDocument ==
    /\ Free /\ onDisplay.dirty
    /\ onDisplay' = [onDisplay EXCEPT !.dirty = FALSE]
    /\ UNCHANGED <<files, catalogue, helpers, flow, probe, children, logs, follow, selected,
                   confirmed>>

WriteSource(s) ==
    /\ \A t \in Sources : files[t] < MaxWrites
    /\ files' = [files EXCEPT ![s] = @ + 1]
    /\ UNCHANGED <<catalogue, onDisplay, helpers, flow, probe, children, logs, follow, selected,
                   confirmed>>

\* A discovery is answered, also while a question is open; or another project
\* is selected.
Discover(here) ==
    /\ TimersFire /\ (here \/ Free)
    /\ catalogue' = IF here THEN files ELSE Nowhere
    /\ UNCHANGED <<files, onDisplay, helpers, flow, probe, children, logs, follow, selected,
                   confirmed>>

Install ==
    /\ helpers' = ~helpers
    /\ UNCHANGED <<files, catalogue, onDisplay, flow, probe, children, logs, follow, selected,
                   confirmed>>

Documented ==
    {Other} \cup {TextOf(s) : s \in Sources} \cup {[source |-> "", made |-> g] : g \in Generated}

SduiNext ==
    \/ PollSdui \/ Highlight \/ EditDocument \/ CleanDocument \/ Install
    \/ \E yes \in BOOLEAN : Launch(yes) \/ OpenLinked(yes) \/ Discover(yes)
    \/ \E answer \in {"checked", "other", "error"} : ProbeAnswers(answer)
    \/ \E state \in {"ok", "failed"} : PrototypeEnds(state)
    \/ \E s \in Sources : FollowRow(s) \/ WriteSource(s)
    \/ \E doc \in Documented : Display(doc)

SduiSpec == SduiInit /\ [][SduiNext]_sduiVars

(***************************************************************************)
(* Properties.                                                             *)
(***************************************************************************)
SduiTypeOK ==
    /\ files \in [Sources -> Revisions] /\ catalogue \in [Sources -> Revisions \cup {-1}]
    /\ onDisplay \in [doc : Documented, dirty : BOOLEAN, text : Revisions]
    /\ flow.key \in [frame : Generated \cup {NoDocument}, helpers : BOOLEAN]
    /\ probe.answer \in {"none", "checked", "other", "error"}
    /\ DOMAIN children \subseteq logs /\ logs \subseteq 1 .. MaxChildren

\* A prototype that is launched is that of the frame on display, in the
\* revision the explorer knows, unedited, and the helper has confirmed this
\* very frame: no answer about an earlier one counts. Bytes are selected only
\* in the source the link names and only if its text is the one the document
\* was generated from, whatever was written while a question was open.
ShownIsWhatWasChecked ==
    [][/\ \A c \in DOMAIN children' \ DOMAIN children :
             /\ children'[c].frame = onDisplay.doc.made /\ ~onDisplay.dirty
             /\ catalogue[Main] = children'[c].frame.made[Main]
             /\ children'[c].frame \in confirmed
       /\ selected' # selected /\ selected' # <<>> =>
             /\ onDisplay'.doc = TextOf(selected'[1].source) /\ ~onDisplay'.dirty
             /\ onDisplay'.text = selected'[1].document.made[selected'[1].source]
             /\ selected'[1].document.entry = "" =>
                   \A s \in Sources : files'[s] = selected'[1].document.made[s]]_sduiVars
=============================================================================
