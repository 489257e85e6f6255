------------------------------- MODULE MCSdp -------------------------------
(***************************************************************************)
(* The SDP explorer alone, for its liveness: files change, scans fail, and *)
(* up to two activations interrupt the discovery.  Instance: the reader    *)
(* does not type and goes on from one generated document to the next       *)
(* without going back; no discovery asks for the text or the visits, whose *)
(* part in the explorer is checked by MCNavigation.                        *)
(***************************************************************************)
EXTENDS Sdp

LiveStep ==
    /\ SdpNext
    /\ ~session'.dirty /\ session'.doc >= session.doc
    /\ history' = {session'.doc} \ {0}

Spec == SdpInit /\ [][LiveStep]_sdpVars /\ SdpFairness
=============================================================================
