---------------------------- MODULE MCNavigation ----------------------------
(* How the reader gets to a document and back, checked side by side: visits *)
(* and anchors, delivery of generated documents, the SDP explorer and what  *)
(* its documents lead to. They share no state, so each behaviour follows    *)
(* one, the focus, and the others rest where they began.                    *)
EXTENDS Navigation, Delivery, Sdp, Sdui, TLC

VARIABLE focus     \* the component this behaviour follows

R(b, e, y, h, q) == [begin |-> b, end |-> e, y |-> y, height |-> h, quality |-> q]

\* Two lines and an image beside them.  The second byte is in the middle of
\* the editor's first line, and the preview ends before its second line could
\* get to the top.
MCLayouts == {<<R(0, 1, 0, 2, "exact"), R(1, 3, 2, 1, "exact"), R(0, 3, 0, 3, "unavailable")>>}
MCTopAt == [size \in {0, 2} |-> [b \in 0 .. size |-> IF b = 2 THEN 2 ELSE 0]]
MCLastHeight == [regions \in MCLayouts |-> 1]

\* Nothing tells one file from another, or one project.
Symmetry == Permutations(Paths) \cup Permutations(Projects)

allVars == <<focus, navVars, delVars, sdpVars, sduiVars>>

Init ==
    /\ focus \in {"navigation", "delivery", "sdp", "sdui"}
    /\ NavInit /\ DelInit /\ SdpInit /\ SduiInit
    /\ focus # "delivery" => ~brokered

Rests(component, vars) == IF focus = component THEN TRUE ELSE UNCHANGED vars

\* A behaviour ends when its last document is opened, and nothing comes
\* between asking for that one and having it: the ones before show what can.
NavStep ==
    /\ NavNext
    /\ doc.document < MaxDocument
    /\ doc.document = MaxDocument - 1 /\ request # Nothing => request' = Nothing

\* One area of the explorer moves in this instance: its watch rests.
Next ==
    /\ UNCHANGED focus
    /\ Rests("navigation", navVars) /\ Rests("delivery", delVars) /\ Rests("sdp", sdpVars)
    /\ Rests("sdui", sduiVars)
    /\ \/ focus = "navigation" /\ NavStep
       \/ focus = "delivery" /\ DelNext
       \/ focus = "sdp" /\ SdpNext /\ watch' = Watching
       \/ focus = "sdui" /\ SduiNext

Spec == Init /\ [][Next]_allVars

\* The components' type invariants.
TypeOK ==
    /\ focus = "navigation" => NavTypeOK
    /\ focus = "delivery" => DelTypeOK
    /\ focus = "sdp" => SdpTypeOK
    /\ focus = "sdui" => SduiTypeOK

\* Answers of the tools land where they were asked for and act on what they
\* were about: the explorer's (SdpNavigation, SdpToolJob), and those of the
\* helpers its documents lead to (SduiWorkflow, followSdlSource).
ToolsAnswerWhereAsked == AnswersLandWhereAsked /\ ShownIsWhatWasChecked
=============================================================================
