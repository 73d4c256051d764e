------------------------------ MODULE MCJournal ------------------------------
(***************************************************************************)
(* Journal for TLC.                                                        *)
(***************************************************************************)
EXTENDS Journal

\* Three rows as long as no crash was torn, two if one was: only transaction
\* ids are spoken of there, and splits are of two rows as well.
SmallWhenTorn == torn => Cardinality(wrote) <= 2 /\ Page("Header") <= 3

\* After a crash that left ids ahead of the counter, nothing is said.
NotExposed == ~exposed

\* Two transactions and three rows without a failed write, or with one if
\* there is a row or a transaction less: the union of the instances.
SmallWithFaults == faults < MaxFaults => Small
=============================================================================
