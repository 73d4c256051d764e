-------------------------------- MODULE Wire --------------------------------
(***************************************************************************)
(* One client connection after its start-up: the state machine of          *)
(* crates/ferrite-protocol/src/session.rs, over the transaction that       *)
(* SessionHandle keeps for it (crates/ferrite-server/src/engine.rs). The   *)
(* protocol has its own idea of the transaction's state, which it tells    *)
(* the client with every ReadyForQuery.                                    *)
(*                                                                         *)
(* Simplifications:                                                        *)
(*  - A statement is the kind of it; SQL text is a sequence of them. Any   *)
(*    statement that touches data may fail, and any text may fail to parse.*)
(*  - Parameters, formats and the contents of rows are left out: a result  *)
(*    is the number of its rows.                                           *)
(*  - Describe changes nothing; Flush and Terminate neither, or end it.    *)
(*  - A malformed message, or one whose parameters or format codes do not  *)
(*    fit, ends the connection (is_recoverable): that is Reconnect.        *)
(***************************************************************************)
EXTENDS Integers, Sequences

CONSTANTS
  Sql,        \* the SQL texts a client sends: sequences of statement kinds
  Statement,  \* names of prepared statements
  Unnamed,    \* the one of them that may be replaced
  Portal,     \* names of portals
  MaxRows     \* bound: rows of one result

ASSUME WireAssumption ==
  /\ Sql \subseteq Seq({"begin", "commit", "rollback", "query"})
  /\ Unnamed \in Statement
  /\ MaxRows \in Nat

VARIABLES
  txn,              \* SessionState: a transaction is open
  old,              \* it is past its budget
  transaction,      \* Session.transaction
  skip_until_sync,
  statements,       \* prepared statement -> its SQL
  portals,          \* portal -> [statement, pending], and the SQL it was bound to
  told,             \* the last completion the client was told of
  spliced,          \* history: the last change of the transaction was made by
                    \* a text of several statements
  trouble           \* history: what errors did since the last BEGIN, COMMIT or
                    \* ROLLBACK that succeeded: "None", "Failed" with the
                    \* transaction still open, "Lost" when one ended it

session == <<txn, old, transaction, spliced, trouble>>
vars == <<session, skip_until_sync, statements, portals, told>>

NoRows == [left |-> 0, sent |-> 0, total |-> -1]  \* pending: None

\* CommandComplete for `rows` of the `of` rows of a result.
Completion(rows, of) == [rows |-> rows, of |-> of]
Nothing == [rows |-> 0, of |-> 0]
-----------------------------------------------------------------------------
(* The engine's side *)

\* What one statement may do to a session: whether a transaction is open
\* after it and past its budget, what it says of that ("None" when it says
\* nothing), and its rows.
Outcomes(s, kind) ==
  LET none == [s EXCEPT !.open = FALSE, !.old = FALSE, !.said = "None", !.rows = 0]
      same == [s EXCEPT !.said = "None", !.rows = 0]
      Err(o) == [o EXCEPT !.ok = FALSE]
  IN  CASE kind = "begin" -> {[same EXCEPT !.open = TRUE, !.said = "InTransaction"]}
                               \cup (IF s.open THEN {} ELSE {Err(same)})
        [] kind = "commit" -> {[none EXCEPT !.said = "Idle"]}
                                \cup (IF s.open THEN {Err(none)} ELSE {})
        [] kind = "rollback" -> {[none EXCEPT !.said = "Idle"]}
                                  \cup (IF s.open THEN {Err(none)} ELSE {})
        [] kind = "query" -> IF s.old THEN {Err(none)}
                             ELSE {[same EXCEPT !.rows = n] : n \in 0 .. MaxRows} \cup {Err(same)}

\* One statement more, unless one has failed.
Then(outcomes, kind) == UNION {IF o.ok THEN Outcomes(o, kind) ELSE {o} : o \in outcomes}

\* The statements of a text in order, up to the first that fails.
Results(start, sql) ==
  LET after[n \in 0 .. Len(sql)] ==
        IF n = 0 THEN {start} ELSE Then(after[n - 1], sql[n])
  IN  after[Len(sql)]

\* run: the last result is the answer. The text may not parse at all.
run(sql) ==
  LET start == [ok |-> TRUE, open |-> txn, old |-> old, said |-> "None", rows |-> 0]
  IN  Results(start, sql) \cup {[start EXCEPT !.ok = FALSE]}

\* Mutant: a failed statement is always the end of the transaction.
Failed_to_idle == "Idle"

\* fail_transaction.
Failed == IF transaction = "InTransaction" THEN "Failed" ELSE transaction

\* The session after text sql ended with outcome o.
Settle(sql, o) ==
  /\ txn' = o.open
  /\ old' = o.old
  /\ transaction' = IF ~o.ok THEN Failed ELSE IF o.said # "None" THEN o.said ELSE transaction
  /\ spliced' = IF Len(sql) > 1 THEN TRUE ELSE IF o.said # "None" THEN FALSE ELSE spliced
  /\ trouble' = IF o.ok THEN IF o.said # "None" THEN "None" ELSE trouble
                ELSE IF ~txn THEN trouble ELSE IF o.open THEN "Failed" ELSE "Lost"
-----------------------------------------------------------------------------
(* Messages *)

Without(f, S) == [k \in DOMAIN f \ S |-> f[k]]
With(f, k, v) == [x \in DOMAIN f \cup {k} |-> IF x = k THEN v ELSE f[x]]

\* report_error: a message of the extended protocol failed.
report_error ==
  /\ skip_until_sync' = TRUE
  /\ transaction' = Failed
  /\ trouble' = IF txn THEN "Failed" ELSE trouble

\* A message that failed before it reached the engine.
Reject == report_error /\ UNCHANGED <<txn, old, spliced, statements, portals, told>>

simple_query(sql) ==
  /\ ~skip_until_sync
  /\ \E o \in run(sql) :
       /\ Settle(sql, o)
       /\ told' = IF o.ok THEN Completion(o.rows, o.rows) ELSE Nothing
  /\ UNCHANGED <<skip_until_sync, statements, portals>>

parse(name, sql) ==
  /\ ~skip_until_sync
  /\ \/ /\ name = Unnamed \/ name \notin DOMAIN statements
        /\ statements' = With(statements, name, sql)
        /\ UNCHANGED <<session, skip_until_sync, portals, told>>
     \/ Reject  \* the text does not parse, or the name is taken

bind(portal, name) ==
  /\ ~skip_until_sync
  /\ \/ /\ name \in DOMAIN statements
        /\ portals' = With(portals, portal,
             [statement |-> name, bound |-> statements[name], pending |-> NoRows])
        /\ UNCHANGED <<session, skip_until_sync, statements, told>>
     \/ name \notin DOMAIN statements /\ Reject

\* Mutant: rows sent by an earlier Execute are not counted.
finished_tag_of_last(sent, before) == sent - before

\* The row count in CommandComplete.
finished_tag(sent, before) == sent

\* Mutant: fewer rows than were asked for mean the end.
exhausted_when_short(pending, n, max_rows) == max_rows = 0 \/ n < max_rows

\* No row of the pending result is left after n more.
exhausted(pending, n, max_rows) == pending.left = n

\* The second half of execute: up to max_rows rows of the pending result, all
\* of them when it is 0.
Deliver(portal, pending, max_rows) ==
  LET n == IF max_rows = 0 \/ pending.left < max_rows THEN pending.left ELSE max_rows
      after == [pending EXCEPT !.left = @ - n, !.sent = @ + n]
  IN  IF exhausted(pending, n, max_rows)
      THEN /\ portals' = [portals EXCEPT ![portal].pending = NoRows]
           /\ told' = Completion(finished_tag(after.sent, pending.sent), pending.total)
      ELSE /\ portals' = [portals EXCEPT ![portal].pending = after]
           /\ told' = Nothing

\* execute: run the statement unless rows of it are still pending.
execute(portal, max_rows) ==
  /\ ~skip_until_sync
  /\ portal \in DOMAIN portals
  /\ LET p == portals[portal] IN
     IF p.pending # NoRows
     THEN Deliver(portal, p.pending, max_rows) /\ UNCHANGED <<session, skip_until_sync>>
     ELSE LET sql == statements[p.statement] IN
          \E o \in run(sql) :
            /\ Settle(sql, o)
            /\ IF o.ok
               THEN /\ Deliver(portal, [left |-> o.rows, sent |-> 0, total |-> o.rows], max_rows)
                    /\ UNCHANGED skip_until_sync
               ELSE skip_until_sync' = TRUE /\ UNCHANGED <<portals, told>>
  /\ UNCHANGED statements

execute_missing(portal) == ~skip_until_sync /\ portal \notin DOMAIN portals /\ Reject

\* Mutant: portals survive the statement they were made from.
close_statement_only(name) ==
  /\ ~skip_until_sync
  /\ statements' = Without(statements, {name})
  /\ UNCHANGED <<session, skip_until_sync, portals, told>>

close_statement(name) ==
  /\ ~skip_until_sync
  /\ statements' = Without(statements, {name})
  /\ portals' = Without(portals, {p \in DOMAIN portals : portals[p].statement = name})
  /\ UNCHANGED <<session, skip_until_sync, told>>

close_portal(portal) ==
  /\ ~skip_until_sync
  /\ portals' = Without(portals, {portal})
  /\ UNCHANGED <<session, skip_until_sync, statements, told>>

sync ==
  /\ skip_until_sync' = FALSE
  /\ UNCHANGED <<session, statements, portals, told>>

\* The open transaction grows older than transaction_timeout.
Age == txn /\ old' = TRUE /\ UNCHANGED <<txn, transaction, spliced, trouble, skip_until_sync, statements, portals, told>>

Init ==
  /\ txn = FALSE /\ old = FALSE /\ transaction = "Idle" /\ spliced = FALSE /\ trouble = "None"
  /\ skip_until_sync = FALSE
  /\ statements = [s \in {} |-> s] /\ portals = [p \in {} |-> p]
  /\ told = Nothing

\* The connection ends, and its transaction with it; the next one starts anew.
Reconnect ==
  /\ txn' = FALSE /\ old' = FALSE /\ transaction' = "Idle" /\ spliced' = FALSE /\ trouble' = "None"
  /\ skip_until_sync' = FALSE
  /\ statements' = [s \in {} |-> s] /\ portals' = [p \in {} |-> p]
  /\ told' = Nothing

Next ==
  \/ sync \/ Age \/ Reconnect
  \/ \E q \in Sql : simple_query(q) \/ \E s \in Statement : parse(s, q)
  \/ \E p \in Portal :
       \/ \E s \in Statement : bind(p, s)
       \/ \E n \in 0 .. MaxRows : execute(p, n)
       \/ execute_missing(p) \/ close_portal(p)
  \/ \E s \in Statement : close_statement(s)

Spec == Init /\ [][Next]_vars
-----------------------------------------------------------------------------
(* Properties *)

\* What the client should be told of its transaction.
Status ==
  IF trouble = "Lost" THEN "Failed"
  ELSE IF ~txn THEN "Idle"
  ELSE IF trouble = "Failed" THEN "Failed" ELSE "InTransaction"

\* The status in ReadyForQuery: Idle exactly when no transaction is open and the
\* last one did not end in an error, InTransaction exactly when one is open in
\* which nothing has failed since its BEGIN, Failed otherwise. So Failed has two
\* meanings: an error in a transaction that is still open, or one that ended it (a
\* budget that ran out, a COMMIT or ROLLBACK that failed), after which nothing is
\* open although the status says so. In neither is a statement rejected, though
\* message.rs says "everything but ROLLBACK is rejected until the block ends":
\* no handler reads the status. It goes wrong in one way: a text of
\* several statements, of which only the last result carries one; the next BEGIN,
\* COMMIT or ROLLBACK on its own puts it right.
StatusIsTrueUnlessSpliced == spliced \/ transaction = Status

\* A portal has its statement, which is still the one it was bound to; only
\* the unnamed statement may have been replaced since (close_statement drops
\* the portals, parse refuses a name in use).
PortalsStayBound ==
  \A p \in DOMAIN portals :
    /\ portals[p].statement \in DOMAIN statements
    /\ portals[p].statement # Unnamed => statements[portals[p].statement] = portals[p].bound

\* A result fetched in several pieces is announced, when it is complete, with
\* the number of rows the statement returned (finished_tag).
CountsAreWhole == told.rows = told.of

\* Every component has its type, and a pending result has rows left.
TypeOK ==
  /\ {txn, old, skip_until_sync, spliced} \subseteq BOOLEAN
  /\ old => txn
  /\ transaction \in {"Idle", "InTransaction", "Failed"} /\ trouble \in {"None", "Failed", "Lost"}
  /\ told \in [rows : Nat, of : Nat]
  /\ DOMAIN statements \subseteq Statement /\ \A s \in DOMAIN statements : statements[s] \in Sql
  /\ DOMAIN portals \subseteq Portal
  /\ \A p \in DOMAIN portals :
       LET pending == portals[p].pending
       IN  pending = NoRows \/ (pending.left > 0 /\ pending.left + pending.sent = pending.total)
=============================================================================
