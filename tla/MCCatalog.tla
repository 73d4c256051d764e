------------------------------ MODULE MCCatalog ------------------------------
(***************************************************************************)
(* Catalog for TLC.                                                        *)
(***************************************************************************)
EXTENDS Catalog, TLC

\* Sessions are alike, and names are only compared.
Symmetry == Permutations(Session) \cup Permutations(Name)
=============================================================================
