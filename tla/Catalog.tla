------------------------------- MODULE Catalog -------------------------------
(***************************************************************************)
(* Sessions that create and drop tables: SessionHandle of                  *)
(* crates/ferrite-server/src/engine.rs, SystemCatalog of                   *)
(* crates/ferrite-catalog/src/system.rs, and the engine's own create_table *)
(* and drop_table. Three things must agree: the rows of ferrite_tables,    *)
(* the storage each of them stands for, and the in-memory index that       *)
(* lookups use. A statement is several critical sections, each an action.  *)
(*                                                                         *)
(* Simplifications:                                                        *)
(*  - Storage keeps the promise of SnapshotStore, with unique ids and      *)
(*    names in ferrite_tables: a transaction has its own changes and, in   *)
(*    a statement, the ids others changed behind its snapshot. Where       *)
(*    delete_rows finds no row of such an id and drop_table then refuses,  *)
(*    delete_rows refuses. A session has one transaction at a time, which  *)
(*    goes by the session's name.                                          *)
(*  - A row is an id and a name; columns and indexes are left out.         *)
(*  - Two lookups in the index with nothing in between are one step.       *)
(*  - IF EXISTS and IF NOT EXISTS, which turn some failures into nothing,  *)
(*    are left out.                                                        *)
(*  - ROLLBACK, the expiry of a transaction and the end of a connection    *)
(*    do the same, and are one action.                                     *)
(*  - A commit that returns an error leaves its transaction in doubt: the  *)
(*    engine keeps it, and only a restart settles it. It keeps the name of *)
(*    its session too; the connection goes on as another, idle, session.   *)
(*    One that fails after the transaction left `active`, in a checkpoint  *)
(*    or in reclaiming pages, has committed.                               *)
(***************************************************************************)
EXTENDS Integers, Sequences, FiniteSets

CONSTANTS
  Session,
  Name,    \* table names
  MaxId,   \* bound: table ids
  MaxDoubt \* bound: commits that fail

ASSUME CatalogAssumption == MaxId \in Nat /\ MaxDoubt \in Nat

TableId == 1 .. MaxId
Row == [id: TableId, name: Name]

VARIABLES
  rows,     \* ferrite_tables, as committed
  entries,  \* ids with storage, as committed
  txn,      \* txn[s]: the open transaction of session s, or NoTxn
  cache,    \* SystemCatalog.cache
  session,  \* SessionState, and where its statement has got to
  torn      \* history: the index was left with changes that were undone or not
            \* committed, or a reload overwrote another session's changes

vars == <<rows, entries, txn, cache, session, torn>>

NoTxn == [open |-> FALSE]

\* A transaction that has changed nothing.
Fresh == [open |-> TRUE, new |-> {}, gone |-> {}, husk |-> {}, made |-> {}, unmade |-> {}]

\* A session between statements, with no transaction. `indexed`: its
\* transaction has changed the index. `stale`: the tables others changed
\* behind the snapshot of its statement.
Idle == [explicit |-> FALSE, ddl |-> FALSE, indexed |-> FALSE, step |-> "idle", stale |-> {}]
-----------------------------------------------------------------------------
(* Storage, as far as it is asked here *)

At(s, step) == session[s].step = step
Ids(R) == {r.id : r \in R}
Others(s) == {u \in Session \ {s} : txn[u].open}

\* What a scan of ferrite_tables returns to s, of the tables that are not stale.
Visible(s) == (rows \ txn[s].gone) \cup txn[s].new

\* Nobody else changed table i, or is about to.
Free(s, i) ==
  /\ i \notin session[s].stale
  /\ \A u \in Others(s) : i \notin txn[u].made \cup txn[u].unmade

HasStorage(s, i) == i \in (entries \ txn[s].unmade) \cup txn[s].made

\* Mutant: a name is compared with the rows of the snapshot only.
Taken_by_snapshot(s) == Visible(s)

\* The rows a unique key is checked against (constraint_version): what is
\* committed, even if another transaction is deleting it, and all that anybody
\* has inserted.
Taken(s) ==
  (rows \ txn[s].gone) \cup txn[s].new
    \cup UNION {txn[u].new \cup txn[u].husk : u \in Others(s)}

\* commit, when it succeeds, after which s is idle.
Publish(s) ==
  LET t == txn[s]
      touched == Ids(t.new \cup t.gone) \cup t.made \cup t.unmade
  IN
  /\ rows' = (rows \ t.gone) \cup t.new
  /\ entries' = (entries \ t.unmade) \cup t.made
  /\ txn' = [txn EXCEPT ![s] = NoTxn]
  /\ session' = [u \in Session |->
       IF u = s THEN Idle
       ELSE IF session[u].step \in {"idle", "doubt"} \/ ~txn[u].open THEN session[u]
       ELSE [session[u] EXCEPT !.stale = @ \cup touched]]

\* commit, when it fails before the transaction has left `active`: to storage it
\* is still running. The session neither aborts it nor reloads the index.
Doubt(s) ==
  /\ Cardinality({u \in Session : At(u, "doubt")}) < MaxDoubt
  /\ session' = [session EXCEPT ![s] = [Idle EXCEPT !.step = "doubt", !.indexed = session[s].indexed]]
  /\ torn' = (torn \/ session[s].indexed)
  /\ UNCHANGED <<rows, entries, txn>>

\* StorageEngine::commit.
storage_commit(s) == (Publish(s) /\ UNCHANGED torn) \/ Doubt(s)

\* abort.
Discard(s) == txn' = [txn EXCEPT ![s] = NoTxn] /\ UNCHANGED <<rows, entries>>
-----------------------------------------------------------------------------
(* The index *)

Empty == [k \in {} |-> k]
Without(f, k) == [x \in DOMAIN f \ {k} |-> f[x]]
With(f, k, v) == [x \in DOMAIN f \cup {k} |-> IF x = k THEN v ELSE f[x]]

insert_table(c, row) ==
  [by_name |-> With(c.by_name, row.name, row.id),
   by_id |-> With(c.by_id, row.id, row.name),
   next_id |-> IF row.id >= c.next_id THEN row.id + 1 ELSE c.next_id]

remove_table(c, id) ==
  IF id \in DOMAIN c.by_id
  THEN [c EXCEPT !.by_name = Without(@, c.by_id[id]), !.by_id = Without(@, id)]
  ELSE c

\* The index rebuilt from rows R, no two of which share an id or a name.
Rebuilt(R) ==
  LET named(n) == CHOOSE r \in R : r.name = n
      numbered(i) == CHOOSE r \in R : r.id = i
  IN  [by_name |-> [n \in {r.name : r \in R} |-> named(n).id],
       by_id |-> [i \in Ids(R) |-> numbered(i).name],
       next_id |-> 1 + (IF R = {} THEN 0 ELSE CHOOSE i \in Ids(R) : \A j \in Ids(R) : j <= i)]
-----------------------------------------------------------------------------
(* Statements *)

\* The open transaction of s gets new contents.
Change(s, t) == txn' = [txn EXCEPT ![s] = t] /\ UNCHANGED <<rows, entries>>

Goto(s, step) == session' = [session EXCEPT ![s].step = step]

\* The session's record, with only the fields of `more` besides those of Idle.
Keep(s, more) ==
  [f \in DOMAIN Idle \cup DOMAIN more |-> IF f \in DOMAIN more THEN more[f] ELSE session[s][f]]

Resume(s, more) == session' = [session EXCEPT ![s] = Keep(s, more)]

\* The statement is over: its own transaction is still to be committed.
Done(s) ==
  IF session[s].explicit
  THEN [step |-> "idle", stale |-> {}, indexed |-> TRUE]
  ELSE [step |-> "finish", indexed |-> TRUE]

\* The statement of s failed. A transaction of its own is aborted, and that is
\* all; an explicit one stays as it is.
Fail(s) ==
  /\ IF session[s].explicit
     THEN /\ Resume(s, [step |-> "idle", stale |-> {}])
          /\ UNCHANGED <<rows, entries, txn, torn>>
     ELSE /\ session' = [session EXCEPT ![s] = Idle]
          /\ Discard(s)
          /\ torn' = (torn \/ session[s].indexed)
  /\ UNCHANGED cache

\* BEGIN.
Begin(s) ==
  /\ At(s, "idle") /\ ~session[s].explicit
  /\ session' = [session EXCEPT ![s].explicit = TRUE]
  /\ Change(s, Fresh)
  /\ UNCHANGED <<cache, torn>>

\* COMMIT: it forgets the transaction and its ddl flag, whatever comes of it.
Commit(s) ==
  /\ At(s, "idle") /\ session[s].explicit
  /\ storage_commit(s)
  /\ UNCHANGED cache

\* Mutant: the index is not reloaded.
Rollback_without_reload(s) ==
  /\ At(s, "idle") /\ session[s].explicit
  /\ session' = [session EXCEPT ![s] = Idle]
  /\ Discard(s)
  /\ UNCHANGED <<cache, torn>>

\* Mutant: the session forgets its transaction without aborting it.
Rollback_without_abort(s) ==
  /\ At(s, "idle") /\ session[s].explicit
  /\ session' = [session EXCEPT ![s] =
                   [Idle EXCEPT !.step = IF session[s].ddl THEN "reload" ELSE "idle"]]
  /\ UNCHANGED <<rows, entries, txn, cache, torn>>

\* ROLLBACK, expire_stale_transaction, drop: abort, then reload after DDL.
Rollback(s) ==
  /\ At(s, "idle") /\ session[s].explicit
  /\ session' = [session EXCEPT ![s] =
                   [Idle EXCEPT !.step = IF session[s].ddl THEN "reload" ELSE "idle"]]
  /\ Discard(s)
  /\ UNCHANGED <<cache, torn>>

\* in_transaction: a DDL statement starts, with a new snapshot or transaction.
Start(s, first) ==
  /\ At(s, "idle")
  /\ Resume(s, [f \in DOMAIN first \cup {"ddl"} |->
                  IF f = "ddl" THEN session[s].explicit ELSE first[f]])
  /\ IF session[s].explicit THEN UNCHANGED <<rows, entries, txn>> ELSE Change(s, Fresh)
  /\ UNCHANGED <<cache, torn>>

StartCreate(s, name) == Start(s, [step |-> "reserve", name |-> name])

\* DROP TABLE of one name or several.
StartDrop(s, names) == Start(s, [step |-> "lookup", names |-> names])

\* The end of a statement that had a transaction of its own.
Finish(s) ==
  /\ At(s, "finish")
  /\ storage_commit(s)
  /\ UNCHANGED cache
-----------------------------------------------------------------------------
(* CREATE TABLE *)

reserve_id(s) ==
  /\ At(s, "reserve")
  /\ IF session[s].name \in DOMAIN cache.by_name
     THEN Fail(s)
     ELSE /\ cache.next_id <= MaxId
          /\ cache' = [cache EXCEPT !.next_id = @ + 1]
          /\ Resume(s, [step |-> "storage",
                        row |-> [id |-> cache.next_id, name |-> session[s].name]])
          /\ UNCHANGED <<rows, entries, txn, torn>>

\* StorageEngine::create_table.
create_table(s) ==
  LET i == session[s].row.id IN
  /\ At(s, "storage")
  /\ IF HasStorage(s, i) \/ ~Free(s, i)
     THEN Fail(s)
     ELSE /\ Goto(s, "record")
          /\ Change(s, [txn[s] EXCEPT !.made = @ \cup {i}])
          /\ UNCHANGED <<cache, torn>>

record_table(s) ==
  LET row == session[s].row IN
  /\ At(s, "record")
  /\ IF \E r \in Taken(s) : r.id = row.id \/ r.name = row.name
     THEN Fail(s)
     ELSE /\ Goto(s, "insert")
          /\ Change(s, [txn[s] EXCEPT !.new = @ \cup {row}])
          /\ UNCHANGED <<cache, torn>>

InsertTable(s) ==
  /\ At(s, "insert")
  /\ cache' = insert_table(cache, session[s].row)
  /\ Resume(s, Done(s))
  /\ UNCHANGED <<rows, entries, txn, torn>>
-----------------------------------------------------------------------------
(* DROP TABLE *)

\* table_id and check_droppable, for the next name of the statement.
Lookup(s) ==
  LET name == Head(session[s].names) IN
  /\ At(s, "lookup")
  /\ IF name \in DOMAIN cache.by_name /\ cache.by_name[name] \in DOMAIN cache.by_id
     THEN /\ Resume(s, [step |-> "delete", names |-> Tail(session[s].names),
                        id |-> cache.by_name[name]])
          /\ UNCHANGED <<rows, entries, txn, cache, torn>>
     ELSE Fail(s)

\* delete_rows: every visible row with the id, if nobody else has changed it.
delete_rows(s) ==
  LET t == txn[s]
      doomed == {r \in Visible(s) : r.id = session[s].id}
      contested == session[s].id \in session[s].stale
                     \/ \E u \in Others(s) : doomed \cap txn[u].gone # {}
  IN
  /\ At(s, "delete")
  /\ IF contested
     THEN Fail(s)
     ELSE /\ Goto(s, "drop")
          /\ Change(s, [t EXCEPT !.gone = @ \cup (doomed \ t.new),
                                 !.husk = @ \cup (doomed \cap t.new),
                                 !.new = @ \ doomed])
          /\ UNCHANGED <<cache, torn>>

\* StorageEngine::drop_table.
drop_table(s) ==
  LET i == session[s].id IN
  /\ At(s, "drop")
  /\ IF HasStorage(s, i) /\ Free(s, i)
     THEN /\ Goto(s, "remove")
          /\ Change(s, [txn[s] EXCEPT !.made = @ \ {i}, !.unmade = @ \cup {i}])
          /\ UNCHANGED <<cache, torn>>
     ELSE Fail(s)

RemoveTable(s) ==
  /\ At(s, "remove")
  /\ cache' = remove_table(cache, session[s].id)
  /\ Resume(s, IF session[s].names = <<>> THEN Done(s)
               ELSE [step |-> "lookup", names |-> session[s].names, indexed |-> TRUE])
  /\ UNCHANGED <<rows, entries, txn, torn>>
-----------------------------------------------------------------------------
(* Reloading the index *)

\* read_all, in a transaction of its own.
ReadAll(s) ==
  /\ At(s, "reload")
  /\ Resume(s, [step |-> "swap", read |-> rows])
  /\ UNCHANGED <<rows, entries, txn, cache, torn>>

\* What was read replaces the index, whatever happened meanwhile.
Swap(s) ==
  /\ At(s, "swap")
  /\ cache' = Rebuilt(session[s].read)
  /\ session' = [session EXCEPT ![s] = Idle]
  /\ torn' = (torn \/ session[s].read # rows
                   \/ \E u \in Session \ {s} : session[u].indexed)
  /\ UNCHANGED <<rows, entries, txn>>

\* The server stops and starts. The commit bits of the transactions S are in the
\* files; open rebuilds the index.
Restart(S) ==
  /\ rows' = (rows \ UNION {txn[s].gone : s \in S}) \cup UNION {txn[s].new : s \in S}
  /\ entries' = (entries \ UNION {txn[s].unmade : s \in S}) \cup UNION {txn[s].made : s \in S}
  /\ txn' = [s \in Session |-> NoTxn]
  /\ session' = [s \in Session |-> Idle]
  /\ cache' = Rebuilt(rows')
  /\ torn' = FALSE

Init ==
  /\ rows = {} /\ entries = {}
  /\ txn = [s \in Session |-> NoTxn]
  /\ cache = [by_name |-> Empty, by_id |-> Empty, next_id |-> 1]
  /\ session = [s \in Session |-> Idle]
  /\ torn = FALSE

\* DROP TABLE takes a list; one or two names are enough to fail half way.
NameList == {<<m>> : m \in Name} \cup {<<m, n>> : m, n \in Name}

Next ==
  \/ \E S \in SUBSET {s \in Session : At(s, "doubt")} : Restart(S)
  \/ \E s \in Session :
       \/ Begin(s) \/ Commit(s) \/ Rollback(s) \/ Finish(s)
       \/ \E n \in Name : StartCreate(s, n)
       \/ \E l \in NameList : StartDrop(s, l)
       \/ reserve_id(s) \/ create_table(s) \/ record_table(s) \/ InsertTable(s)
       \/ Lookup(s) \/ delete_rows(s) \/ drop_table(s) \/ RemoveTable(s)
       \/ ReadAll(s) \/ Swap(s)

Spec == Init /\ [][Next]_vars
-----------------------------------------------------------------------------
(* Properties *)

\* No statement is running and no session has a transaction open.
AtRest == \A s \in Session : session[s] = Idle \/ At(s, "doubt")

\* The index says what is committed.
IndexIsRight == cache.by_name = Rebuilt(rows).by_name /\ cache.by_id = Rebuilt(rows).by_id

\* "Storage is the source of truth", and an aborted transaction that ran DDL
\* "has to be followed by reload()": with no statement or transaction open,
\* lookups find exactly the committed tables.
IndexAtRest == AtRest => IndexIsRight

\* The index goes wrong in three ways only: an autocommitted statement that
\* fails after it changed the index; a commit that fails, of a transaction that
\* changed it; and a reload that overwrites the changes of another session. A
\* restart repairs it, and settles the commit.
IndexFaultsHaveThreeOrigins == AtRest /\ ~torn => IndexIsRight

\* A table that is listed has its storage, whichever statement failed half way
\* inside a transaction that was committed nevertheless, and no two listed
\* tables share an id or a name, even when a reload makes reserve_id hand out
\* an id twice (create_table_in, drop_table_in).
ListedTablesAreSound ==
  /\ Ids(rows) \subseteq entries
  /\ \A r, q \in rows : r # q => r.id # q.id /\ r.name # q.name

\* Every component has its type; a session with no transaction is idle or
\* reloads (SessionState, Cache).
TypeOK ==
  /\ rows \subseteq Row /\ entries \subseteq TableId
  /\ cache.by_name \in [DOMAIN cache.by_name -> TableId] /\ DOMAIN cache.by_name \subseteq Name
  /\ cache.by_id \in [DOMAIN cache.by_id -> Name] /\ DOMAIN cache.by_id \subseteq TableId
  /\ cache.next_id \in 1 .. MaxId + 1
  /\ \A s \in Session :
       txn[s].open = (session[s].explicit \/ session[s].step \notin {"idle", "reload", "swap"})
=============================================================================
