---------------------------- MODULE MCDocuments ----------------------------
(* Two files of different formats and two texts.  At the start each file   *)
(* is missing or holds some words under one name; other programs may add   *)
(* and change the rest.                                                    *)
EXTENDS Documents
CONSTANTS empty, words, notes, plain

MCKind == [p \in Paths |-> IF p = plain THEN "plain" ELSE "markdown"]

MCWeight == [t \in Texts |-> [u \in Texts |-> 0]]

MCInit == Init /\ \A p \in Paths : files[p] \in {Absent, Plain(0, words, 1)}

MCSpec == MCInit /\ [][Next]_vars
=============================================================================
