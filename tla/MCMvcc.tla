------------------------------- MODULE MCMvcc -------------------------------
(* Mvcc for TLC.                                                           *)
EXTENDS Mvcc, TLC

\* Either the fourth transaction or the second row is explored: four
\* transactions on one row, three on two.
FourOnOneOrThreeOnTwo == next_txn_id <= 4 \/ next_row_id <= 2

\* No operation looks into a value.
Symmetry == Permutations(Value)
=============================================================================
