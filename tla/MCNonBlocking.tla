---------------------------- MODULE MCNonBlocking ---------------------------
(* NonBlocking for TLC: slots and messages are interchangeable.            *)
EXTENDS NonBlocking, TLC

Symmetry == Permutations(Ops) \union Permutations(Msgs)
=============================================================================
