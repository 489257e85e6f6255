-------------------------- MODULE MCEditController -------------------------
(* Three texts whose changes weigh one to three bytes, a budget of four.   *)
EXTENDS EditController
CONSTANTS empty, short, long, file1

MCKind == [p \in Paths |-> "markdown"]

Size(t) == CASE t = empty -> 0 [] t = short -> 1 [] OTHER -> 2

MCWeight == [t \in Texts |-> [u \in Texts |-> Size(t) + Size(u)]]
=============================================================================
