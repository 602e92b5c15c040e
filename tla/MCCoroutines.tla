---------------------------- MODULE MCCoroutines ----------------------------
(* An instance of Coroutines for TLC. *)
EXTENDS Coroutines

CONSTANTS c1, c2

TwoCoroutines == {c1, c2}
TwoAndOne == [c \in {c1, c2} |-> IF c = c1 THEN 2 ELSE 1]
=============================================================================
