----------------------------- MODULE MCServices -----------------------------
(* The services around the document (Services) with the pure algorithms     *)
(* that have a state of their inputs: the tree of an SDL answer, layout and *)
(* anchors. Each behaviour follows one of them, the focus.                  *)
EXTENDS Services, SdlTree, Reading, Anchors, MCSamples

(***************************************************************************)
(* The instances.                                                          *)
(***************************************************************************)
MCParent == [r |-> "r", d |-> "r", f |-> "d", g |-> "r"]
MCEntries == <<"d", "f", "g">>
MCPaper == [width |-> 400, height |-> 600]
MCSteps == {-4, 4}
MCTurns == {-25, 15}
MCTokens == {<<1, 0>>, <<2, 0>>}
MCLinks == [a |-> (0 :> "") @@ (1 :> "x"), b |-> (0 :> "y") @@ (1 :> "x")]

(***************************************************************************)
(* The composition.                                                        *)
(***************************************************************************)
allVars == <<serviceVars, reply, layoutVars>>
threadVars == <<exportVars, refVars, workVars>>

\* What rests begins in one way only.
Init ==
    /\ focus \in Components \cup {"tree", "layout", "anchors"}
    /\ ServicesInit
    /\ TreeInit /\ (focus # "tree" => reply = CHOOSE r \in Replies : Decodable(r))
    /\ LayoutInit /\ (focus # "layout" =>
                        request = (CHOOSE r \in LayoutRequests : TRUE) /\ drawn = <<>>)

AllNext ==
    \/ ServicesNext /\ UNCHANGED <<reply, layoutVars>>
    \/ focus = "tree" /\ ExpandSource /\ UNCHANGED <<serviceVars, layoutVars>>
    \/ focus = "layout" /\ Render /\ UNCHANGED <<serviceVars, reply>>

\* A step of the component that the behaviour follows.
Of(component, step) ==
    /\ focus = component /\ Rests("export", exportVars)
    /\ Rests("references", refVars) /\ Rests("workspace", workVars)
    /\ step

\* ExportFairness, RefFairness and WorkFairness: as a behaviour follows only
\* one of the three, their steps can share a condition.
Fairness ==
    /\ WF_threadVars(\/ Of("export", Thread)
                     \/ Of("references", BeginReading \/ Read \/ Finish \/ Exit)
                     \/ Of("workspace", Scanning))
    /\ WF_threadVars(Of("export", Quitted) \/ Of("workspace", Joined))
    /\ WF_threadVars(Of("workspace", Poll))

Spec == Init /\ [][AllNext]_allVars /\ Fairness

-----------------------------------------------------------------------------
\* The pure algorithms: the tree of an SDL answer, the layout of a document,
\* and the anchors that keep two views on one line.
AlgorithmsAgree ==
    /\ focus = "tree" => TreeIsWhole
    /\ focus = "layout" => DocumentIsLaidOut
    /\ focus = "anchors" => \A regions \in MCRegions, y \in 0 .. 12 : RoundTrip(y, regions)

\* Whoever waits for a thread to end gets past the wait: quitting during an
\* export, another root, filter or refresh of the file tree while its thread
\* waits for room in the queue, closing the tree, the end of the index.
Waits ==
    \/ exporter = "quitting"
    \/ stopping /\ worker.state # "exited"
    \/ goal # <<>>
    \/ panel.quit /\ thread.pc # "none"

StopsReturn == Waits ~> ~Waits
=============================================================================
