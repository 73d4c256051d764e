---------------------------- MODULE MCUniqueKeys ----------------------------
(***************************************************************************)
(* UniqueKeys for TLC: each contents is its own key and its own hash.      *)
(***************************************************************************)
EXTENDS UniqueKeys, TLC

MCKey == [v \in Value |-> v]
MCHash == [v \in Value |-> v]

\* Keys are compared for equality only, and the run checks invariants only.
Symmetry == Permutations(Value)
=============================================================================
