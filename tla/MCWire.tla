------------------------------- MODULE MCWire -------------------------------
(***************************************************************************)
(* Wire for TLC.                                                           *)
(***************************************************************************)
EXTENDS Wire

\* No statement, every kind on its own, and two texts that open or end a transaction with
\* their first statement.
MCSql == {<<>>, <<"begin">>, <<"commit">>, <<"rollback">>, <<"query">>,
          <<"begin", "query">>, <<"commit", "query">>}
=============================================================================
