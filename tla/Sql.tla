-------------------------------- MODULE Sql --------------------------------
(***************************************************************************)
(* One session sends texts of SQL statements while another changes the     *)
(* definition of a table: SessionHandle::run of ferrite-server's engine.rs *)
(* (parse, then for each statement plan and execute inside a transaction)  *)
(* with the row loops of ferrite-exec's executor.rs and the permissions    *)
(* and triggers of ferrite-proc.                                           *)
(*                                                                         *)
(* The storage engine is what the session's transaction sees: `committed`  *)
(* is what other transactions see, `tables` the same with the session's    *)
(* own writes, and `doubt` the rows of its transactions whose commit       *)
(* failed, which storage keeps among the running ones until a restart (in  *)
(* Mvcc and Catalog).  Concurrent writers of rows are in Mvcc and          *)
(* UniqueKeys, saturated filters and colliding hashes in UniqueKeys.       *)
(* The catalog changes for everybody as soon as a definition runs;         *)
(* definitions come from the other session only, and a definition in a     *)
(* block that rolls back is in Catalog.                                    *)
(***************************************************************************)
EXTENDS SqlMeaning, SqlExec

\* The sessions explored: the token texts sent, what the first one means (an
\* expression, if given), the bound parameters, the caller's roles, the
\* triggers, the CREATE statements that made the tables, their rows, and the
\* definitions of the other session.
CONSTANT Inputs     \* [texts, meant, params, roles, triggers, creates, rows, ddl]

VARIABLES
  input,       \* the chosen member of Inputs
  stage,       \* "plan", "start", "rows" within a text, "done" or "failed" between texts
  texts,       \* the texts still to send
  todo,        \* the statements still to run; the first is the current one
  open,        \* SessionState.txn: a transaction block is open
  plan,        \* the plan of the current statement
  work,        \* the rows it has still to write
  result,      \* [rows, affected] of the last statement, or of the one running
  error,       \* why the text failed, "" if it did not
  cat,         \* the catalog
  tables,      \* table id to its rows, in row-id order, as the session sees them
  committed,   \* the same as other transactions see them
  nextRow,     \* table id to the next row id
  deleted,     \* table id to the versions the session's transaction has deleted, by row id
  doubt,       \* table id to the rows of failed commits: the version left, and what is seen instead
  filters,     \* table id to the filters built: the columns of a key to the keys it may contain
  pending,     \* what the other session has still to do
  before,      \* history: the rows at the last statement boundary and the catalog it was planned with
  raced,       \* history: a definition changed between a plan and its end, or inside a block
  missed       \* history: the keys, as <<table id, columns>>, whose checks may have missed a row

rowVars == <<tables, committed, nextRow, deleted, doubt>>

filterVars == <<filters, missed>>

vars == <<input, stage, texts, todo, open, plan, work, result, error, cat, rowVars, filterVars, pending, before, raced>>

data == <<cat, rowVars>>

----------------------------------------------------------------------------
(* Roles, triggers and procedures.                                         *)

\* Roles are sets of permissions; "Admin" implies all of them.
HasPermission(roles, p) == \E role \in roles : role \cap {p, "Admin"} # {}

Authorize(roles, p) == IF HasPermission(roles, p) THEN Ok(p) ELSE Err("denied")

\* A trigger body of the model: it acts on rows whose first value is `on`,
\* and allows the others.
TriggerCall(trigger, row) ==
  IF row = <<>> \/ row[1] # trigger.on THEN Ok(<<"Allow">>)
  ELSE CASE trigger.does = "skip" -> Ok(<<"Skip">>)
         [] trigger.does = "refuse" -> Err("denied")
         [] trigger.does = "replace" -> Ok(<<"Replace", trigger.row>>)

\* fire_before: in order; a replacement is seen by the triggers after it.
FireBefore(triggers, row) ==
  LET RECURSIVE fire(_, _)
      fire(i, replaced) ==
        IF i > Len(triggers)
        THEN Ok(IF replaced = None THEN <<"Allow">> ELSE <<"Replace", replaced[1]>>)
        ELSE Then(TriggerCall(triggers[i], IF replaced = None THEN row ELSE replaced[1]), LAMBDA d :
               CASE d[1] = "Allow" -> fire(i + 1, replaced)
                 [] d[1] = "Skip" -> Ok(d)
                 [] d[1] = "Replace" -> fire(i + 1, Some(d[2])))
  IN  fire(1, None)

TriggersFor(id, event) == SelectSeq(input.triggers, LAMBDA t : t.table = id /\ t.event = event)

\* The one procedure of the model doubles its argument; it needs Execute.
CallProcedure(name, args, roles) ==
  IF name # "twice" THEN Err("exec")
  ELSE Then(Authorize(roles, "Execute"), LAMBDA p :
         IF Len(args) = 1 THEN Arithmetic("Plus", args[1], args[1]) ELSE Err("exec"))

----------------------------------------------------------------------------
(* One row.  A row operation takes a table as storage keeps it, that is    *)
(* [rows, deleted, doubt, filters], and gives an error of the statement or *)
(* what it did: the table, the rows counted and the error of storage.      *)

Did(t, n) == Ok([table |-> t, n |-> n, error |-> ""])

Refused(t, kind) == Ok([table |-> t, n |-> 0, error |-> kind])

RowAt(rows, rid) ==
  LET at == SelectSeq(rows, LAMBDA r : r.rid = rid) IN IF at = <<>> THEN None ELSE Some(at[1].row)

Widen(v, t) ==
  CASE TypeOf(v) = "Int4" /\ t = "Int8" -> Ok(Int8(v[2]))
    [] TypeOf(v) \in {"Int4", "Int8"} /\ t = "Float8" -> Ok(Float8(v[2], 1))
    [] OTHER -> Err("type")

\* conform_row: width, nullability and type, widening where it may.
ConformRow(schema, row) ==
  LET conformed(i) == CASE IsNullValue(row[i]) -> IF schema[i].nullable THEN Ok(Null) ELSE Err("null")
                        [] TypeOf(row[i]) = schema[i].type -> Ok(row[i])
                        [] OTHER -> Widen(row[i], schema[i].type)
  IN  IF Len(row) # Len(schema) THEN Err("width") ELSE MapR([i \in DOMAIN row |-> i], conformed)

\* UniqueKey::extract: absent when a value is NULL, or missing from a row
\* written before the column was added.
ExtractKey(row, key) ==
  IF \E i \in DOMAIN key : key[i] > Len(row) \/ IsNullValue(row[key[i]]) THEN None
  ELSE Some([i \in DOMAIN key |-> row[key[i]]])

\* walk_for_constraints: the rows of the table as a unique constraint sees
\* them.  Of a row a failed commit wrote, that is the version it left, even
\* if it deleted it: its transaction counts as running (constraint_version).
WalkForConstraints(t) ==
  {r \in ToSet(t.rows) : r.rid \notin DOMAIN t.doubt}
    \cup {[rid |-> x, row |-> t.doubt[x].row] : x \in DOMAIN t.doubt}

\* Mutant: only the first key of the table is checked.
EnforceUnique_first(t, row, uniques, exclude) ==
  LET key == uniques[1]
      found == {ExtractKey(r.row, key) : r \in {x \in WalkForConstraints(t) : x.rid # exclude}} \ {None}
  IN  [filters |-> t.filters, clash |-> uniques # <<>> /\ ExtractKey(row, key) \in found]

\* enforce_unique: for each key that the row has whole, build the filter if
\* there is none, walk the table if the filter may contain the key, and note
\* it there.  Filters change even when the row is refused.  A write without
\* keys to check drops the filters of the table (invalidate).
EnforceUnique(t, row, uniques, exclude) ==
  LET walked == WalkForConstraints(t)
      one(acc, key) ==
        LET wanted == ExtractKey(row, key)
            found == {ExtractKey(r.row, key) : r \in walked} \ {None}
            filter == IF key \in DOMAIN acc.filters THEN acc.filters[key] ELSE found
            taken == wanted \in filter /\ \E r \in walked : r.rid # exclude /\ ExtractKey(r.row, key) = wanted
        IN  IF acc.clash \/ wanted = None THEN acc
            ELSE [filters |-> (key :> (filter \cup {wanted})) @@ acc.filters, clash |-> taken]
  IN  FoldLeft(one, [filters |-> IF uniques = <<>> THEN <<>> ELSE t.filters, clash |-> FALSE], uniques)

\* Mutant: row ids are counted, not issued.
InsertUnique_by_count(t, rid, row, uniques) ==
  LET checked == EnforceUnique(t, row, uniques, 0)
      noted == [t EXCEPT !.filters = checked.filters]
  IN  IF checked.clash THEN Refused(noted, "unique")
      ELSE Did([noted EXCEPT !.rows = Append(@, [rid |-> Len(@) + 1, row |-> row])], 1)

\* insert_unique of the storage engine.
InsertUnique(t, rid, row, uniques) ==
  LET checked == EnforceUnique(t, row, uniques, 0)
      noted == [t EXCEPT !.filters = checked.filters]
  IN  IF checked.clash THEN Refused(noted, "unique")
      ELSE Did([noted EXCEPT !.rows = Append(@, [rid |-> rid, row |-> row])], 1)

Rewritten(rows, rid, row) == [i \in DOMAIN rows |-> IF rows[i].rid = rid THEN [rid |-> rid, row |-> row] ELSE rows[i]]

\* writable_version for the one writer: a row of a failed commit is written by a running transaction.
Writable(t, rid) == rid \notin DOMAIN t.doubt

\* update_unique: the keys are checked before the row's own versions.
UpdateUnique(t, rid, row, uniques) ==
  LET checked == EnforceUnique(t, row, uniques, rid)
      noted == [t EXCEPT !.filters = checked.filters]
  IN  IF checked.clash THEN Refused(noted, "unique")
      ELSE IF ~Writable(t, rid) THEN Refused(noted, "serialization")
      ELSE Did([noted EXCEPT !.rows = Rewritten(@, rid, row)], 1)

\* delete of the storage engine.
DeleteVersion(t, rid) ==
  IF ~Writable(t, rid) THEN Refused(t, "serialization")
  ELSE Did([t EXCEPT !.rows = SelectSeq(@, LAMBDA r : r.rid # rid),
                     !.deleted = (rid :> RowAt(t.rows, rid)[1]) @@ @], 1)

\* Run the BEFORE triggers on a candidate; unless skipped, conform it and go on with F.
Admitted(triggers, schema, candidate, t, F(_)) ==
  Then(FireBefore(triggers, candidate), LAMBDA d :
    IF d[1] = "Skip" THEN Did(t, 0)
    ELSE Then(ConformRow(schema, IF d[1] = "Replace" THEN d[2] ELSE candidate), F))

\* Mutant: an assignment reads what the ones before it wrote.
Assigned_in_turn(row, sets, from) ==
  FoldLeft(LAMBDA acc, s : Then(acc, LAMBDA x : Then(Eval(s.expr, IF from = row THEN x ELSE from), LAMBDA v :
             Ok([x EXCEPT ![s.pos] = v]))), Ok(row), sets)

\* The SET clause of an UPDATE or of DO UPDATE: values come from `from`.
Assigned(row, sets, from) ==
  Then(MapR(sets, LAMBDA s : Eval(s.expr, from)), LAMBDA vs :
    LET at(i) == {j \in DOMAIN sets : sets[j].pos = i}
    IN  Ok([i \in DOMAIN row |-> IF at(i) = {} THEN row[i]
                                 ELSE vs[CHOOSE j \in at(i) : \A k \in at(i) : k <= j]]))

\* conflicting_row: the first visible row with the candidate's target values.
ConflictingRow(rows, schema, target, row) ==
  LET key(r) == [i \in DOMAIN target |-> r[target[i]]]
      same == SelectSeq(rows, LAMBDA t : key(FillAddedColumns(schema, t.row)) = key(row))
  IN  IF same = <<>> \/ \E i \in DOMAIN target : IsNullValue(key(row)[i]) THEN None ELSE Some(same[1])

\* resolve_conflict: DO NOTHING, or DO UPDATE of the row that is there.
ResolveConflict(source, clause, uniques, found, excluded, t) ==
  LET existing == FillAddedColumns(source.schema, found.row)
      combined == existing \o excluded
      selected(u) == IF u.where = None THEN Ok(TRUE) ELSE EvalPredicate(u.where[1], combined)
      updated(u) == Then(Assigned(existing, u.sets, combined), LAMBDA candidate :
                      Admitted(TriggersFor(source.id, "Update"), source.schema, candidate, t, LAMBDA row :
                        UpdateUnique(t, found.rid, row, uniques)))
  IN  IF clause.update = None THEN Did(t, 0)
      ELSE Then(selected(clause.update[1]), LAMBDA hit : IF hit THEN updated(clause.update[1]) ELSE Did(t, 0))

\* One turn of the loop of run_insert, run_update, run_delete.
InsertRow(op, exprs, t, rid) ==
  LET source == op[2]
      insert(row) ==
        LET found == IF op[4] = None THEN None ELSE ConflictingRow(t.rows, source.schema, op[4][1].target, row)
        IN  IF found # None THEN ResolveConflict(source, op[4][1], op[5], found[1], row, t)
            ELSE InsertUnique(t, rid, row, op[5])
  IN  Then(MapR(exprs, LAMBDA e : Eval(e, <<>>)), LAMBDA values :
        Admitted(TriggersFor(source.id, "Insert"), source.schema, values, t, insert))

UpdateRow(op, target, t) ==
  Then(Assigned(target.row, op[3], target.row), LAMBDA candidate :
    Admitted(TriggersFor(op[2].id, "Update"), op[2].schema, candidate, t, LAMBDA row :
      UpdateUnique(t, target.rid[1], row, op[4])))

DeleteRow(op, target, t) ==
  Then(FireBefore(TriggersFor(op[2].id, "Delete"), target.row), LAMBDA d :
    CASE d[1] = "Skip" -> Did(t, 0)
      [] d[1] = "Replace" -> Err("exec")
      [] OTHER -> DeleteVersion(t, target.rid[1]))

WriteRow(op, item, t, rid) ==
  CASE op[1] = "Insert" -> InsertRow(op, item, t, rid)
    [] op[1] = "Update" -> UpdateRow(op, item, t)
    [] op[1] = "Delete" -> DeleteRow(op, item, t)

\* The keys a write checks.
CheckedKeys(op) == CASE op[1] = "Insert" -> op[5] [] op[1] = "Update" -> op[4] [] op[1] = "Delete" -> <<>>

----------------------------------------------------------------------------
(* A statement.                                                            *)

Env == [rows |-> tables, schemas |-> [id \in DOMAIN tables |->
          LET name == CHOOSE n \in DOMAIN cat.tables : cat.tables[n].id = id IN cat.tables[name].schema]]

\* Mutant: DO UPDATE asks for no permission of its own.
Needed_one(p) ==
  CASE PKind(p) \in {"Insert", "Update", "Delete"} -> <<PKind(p)>>
    [] PKind(p) = "CallProcedure" -> <<>>
    [] OTHER -> <<"Select">>

\* The permissions execute_resolved asks for.
Needed(p) ==
  CASE PKind(p) = "Insert" -> IF p.op[4] # None /\ p.op[4][1].update # None THEN <<"Insert", "Update">> ELSE <<"Insert">>
    [] PKind(p) \in {"Update", "Delete"} -> <<PKind(p)>>
    [] PKind(p) = "CallProcedure" -> <<>>
    [] OTHER -> <<"Select">>

WriteNodes == {"Insert", "Update", "Delete"}

\* The rows of a query, or those a write will go through, read before the first of them is written.
Targets(p, env) ==
  IF PKind(p) = "Insert" THEN Ok(p.op[3])
  ELSE Stream(IF PKind(p) \in WriteNodes THEN p.kids[1] ELSE p, env)

\* The stale-plan check of a write, then the whole of a query or a call.
Run(p, env, roles) ==
  LET begun(rows, items) == Ok([rows |-> rows, work |-> items, plan |-> p])
  IN  IF PKind(p) = "CallProcedure"
      THEN Then(MapR(p.op[3], LAMBDA e : Eval(e, <<>>)), LAMBDA vs :
             Then(CallProcedure(p.op[2], vs, roles), LAMBDA v : begun(<<<<v>>>>, <<>>)))
      ELSE IF PKind(p) \in WriteNodes /\ ~CheckSchema(p.op[2], env).ok THEN CheckSchema(p.op[2], env)
      ELSE Then(Targets(p, env), LAMBDA ts :
             IF PKind(p) \in WriteNodes THEN begun(<<>>, ts) ELSE begun([i \in DOMAIN ts |-> ts[i].row], <<>>))

\* Session::execute up to the first row written: subqueries, then permissions.
Start(p0, env, roles) ==
  LET granted(p) == Then(MapR(Needed(p), LAMBDA x : Authorize(roles, x)), LAMBDA xs : Ok(p))
  IN  Then(Then(IF ~PresentIn(p0) THEN Ok(p0)
                ELSE Then(Authorize(roles, "Select"), LAMBDA x : ResolveSubqueries(p0, env)), granted),
           LAMBDA p : Run(p, env, roles))

\* Mutant: the rows written before the error stay.
Fail_without_abort(kind) ==
  /\ stage' = "failed" /\ error' = kind
  /\ UNCHANGED <<todo, open, plan, work, result, data, before, raced>>

NoRows == [id \in DOMAIN tables |-> <<>>]

\* in_transaction on an error: autocommit aborts, a block stays open.
Fail(kind) ==
  /\ stage' = "failed" /\ error' = kind
  /\ tables' = (IF open THEN tables ELSE committed) /\ deleted' = (IF open THEN deleted ELSE NoRows)
  /\ UNCHANGED <<todo, open, plan, work, result, cat, committed, nextRow, doubt, before, raced>>

\* The session's transaction is published.
Publish == committed' = tables /\ deleted' = NoRows /\ UNCHANGED <<tables, nextRow, doubt>>

\* The session's transaction is given up.
Undo == tables' = committed /\ deleted' = NoRows /\ UNCHANGED <<committed, nextRow, doubt>>

\* What a transaction whose commit failed leaves of a table: of each row it
\* wrote the version a unique constraint goes on seeing, and what readers see.
Doubted(id) ==
  LET wrote == {x \in 1 .. nextRow[id] - 1 :
                  x \in DOMAIN deleted[id] \/ RowAt(tables[id], x) # RowAt(committed[id], x)}
  IN  [x \in wrote |-> [row |-> IF x \in DOMAIN deleted[id] THEN deleted[id][x] ELSE RowAt(tables[id], x)[1],
                        seen |-> RowAt(committed[id], x)]]

\* mark_committed or commit_to_journal failed: the transaction stays among the
\* running ones, so nobody sees its rows and nobody may write them.
InDoubt ==
  /\ doubt' = [id \in DOMAIN doubt |-> Doubted(id) @@ doubt[id]]
  /\ tables' = committed /\ deleted' = NoRows /\ UNCHANGED <<committed, nextRow>>

\* The commit returns an error, which neither in_transaction nor COMMIT follows
\* up; the checkpoint and the reclaiming of dropped tables come after the
\* transaction is published.
CommitFails ==
  /\ InDoubt \/ Publish
  /\ stage' = "failed" /\ error' = "commit" /\ open' = FALSE
  /\ before' = [before EXCEPT !.tables = committed]
  /\ UNCHANGED <<input, texts, todo, plan, work, result, cat, filterVars, pending, raced>>

NextStage(rest) == IF rest = <<>> THEN "done" ELSE "plan"

\* SessionHandle::run: nothing runs unless the whole text parses.
ParseText ==
  /\ stage \in {"done", "failed"} /\ texts # <<>>
  /\ texts' = Tail(texts)
  /\ \E r \in {ParseSql(Head(texts))} :
         IF ~r.ok THEN Fail(r.val)
         ELSE /\ todo' = r.val /\ stage' = NextStage(r.val) /\ error' = ""
              /\ before' = [before EXCEPT !.tables = tables]
              /\ UNCHANGED <<open, plan, work, result, data, raced>>
  /\ UNCHANGED <<input, filterVars, pending>>

ControlTags == {"Begin", "Commit", "Rollback"}

\* BEGIN in a block, COMMIT and ROLLBACK outside one change nothing.
Control ==
  /\ stage = "plan" /\ Head(todo)[1] \in ControlTags
  /\ LET what == Head(todo)[1]
     IN  /\ open' = (what = "Begin")
         /\ CASE what = "Begin" -> UNCHANGED rowVars
              [] what = "Commit" -> Publish
              [] what = "Rollback" -> Undo
  /\ todo' = Tail(todo) /\ stage' = NextStage(Tail(todo))
  /\ before' = [before EXCEPT !.tables = tables']
  /\ UNCHANGED <<input, texts, plan, work, result, error, cat, filterVars, pending, raced>>

\* COMMIT when storage fails: the block is over.
ControlFails == stage = "plan" /\ open /\ Head(todo)[1] = "Commit" /\ CommitFails

\* expire_stale_transaction: the block has been open for too long.
Expire ==
  /\ stage = "plan" /\ open /\ Head(todo)[1] \notin ControlTags
  /\ Undo /\ open' = FALSE /\ stage' = "failed" /\ error' = "timeout"
  /\ before' = [before EXCEPT !.tables = committed]
  /\ UNCHANGED <<input, texts, todo, plan, work, result, cat, filterVars, pending, raced>>

PlanStep ==
  /\ stage = "plan" /\ Head(todo)[1] \notin ControlTags
  /\ \E r \in {PlanStatement(Head(todo), cat, input.params)} :
         IF ~r.ok THEN Fail(r.val)
         ELSE /\ plan' = r.val /\ stage' = "start"
              /\ before' = [before EXCEPT !.cat = cat]
              /\ UNCHANGED <<todo, open, work, result, error, data, raced>>
  /\ UNCHANGED <<input, texts, filterVars, pending>>

StartStep ==
  /\ stage = "start"
  /\ \E r \in {Start(plan, Env, input.roles)} :
         IF ~r.ok THEN Fail(r.val)
         ELSE /\ plan' = r.val.plan /\ work' = r.val.work /\ stage' = "rows"
              /\ result' = [rows |-> r.val.rows, affected |-> 0]
              /\ UNCHANGED <<todo, open, error, data, before, raced>>
  /\ UNCHANGED <<input, texts, filterVars, pending>>

TableOf(id) == [rows |-> tables[id], deleted |-> deleted[id], doubt |-> doubt[id], filters |-> filters[id]]

\* History only: the filters that a write builds without the rows its
\* transaction has deleted, and those of keys that a write did not check.
Missing(id, op, was, now) ==
  {<<id, key>> : key \in {k \in DOMAIN now.filters :
     \/ k \notin DOMAIN was.filters /\ was.deleted # <<>>
     \/ op[1] # "Delete" /\ k \notin ToSet(CheckedKeys(op)) /\ now.rows # was.rows}}

RowStep ==
  /\ stage = "rows" /\ work # <<>>
  /\ LET id == plan.op[2].id
         t == TableOf(id)
     IN  \E r \in {WriteRow(plan.op, Head(work), t, nextRow[id])} :
           IF ~r.ok THEN Fail(r.val) /\ UNCHANGED filterVars
           ELSE LET now == r.val.table
                IN  /\ filters' = [filters EXCEPT ![id] = now.filters]
                    /\ missed' = missed \cup Missing(id, plan.op, t, now)
                    /\ IF r.val.error # "" THEN Fail(r.val.error)
                       ELSE /\ tables' = [tables EXCEPT ![id] = now.rows]
                            /\ deleted' = [deleted EXCEPT ![id] = now.deleted]
                            /\ nextRow' = [nextRow EXCEPT ![id] = IF Len(now.rows) > Len(t.rows) THEN @ + 1 ELSE @]
                            /\ work' = Tail(work)
                            /\ result' = [result EXCEPT !.affected = @ + r.val.n]
                            /\ UNCHANGED <<stage, todo, open, plan, error, cat, committed, doubt, before, raced>>
  /\ UNCHANGED <<input, texts, pending>>

\* tick: the statement may run past its deadline at any row read or written.
Timeout ==
  /\ stage = "start" \/ (stage = "rows" /\ work # <<>>)
  /\ Fail("timeout")
  /\ UNCHANGED <<input, texts, filterVars, pending>>

\* The statement is complete; autocommit commits.
Finish ==
  /\ stage = "rows" /\ work = <<>>
  /\ IF open THEN UNCHANGED rowVars ELSE Publish
  /\ todo' = Tail(todo) /\ stage' = NextStage(Tail(todo))
  /\ before' = [before EXCEPT !.tables = tables]
  /\ UNCHANGED <<input, texts, open, plan, work, result, error, cat, filterVars, pending, raced>>

\* The statement is complete, but its commit fails.
FinishFails == stage = "rows" /\ work = <<>> /\ ~open /\ CommitFails

----------------------------------------------------------------------------
(* The other session's definition, in a transaction of its own.            *)

\* Mutant: the rows there are not looked at.
CheckAddable_always(column, rows) == Ok(column)

\* check_addable: a NOT NULL column without a default needs an empty table.
CheckAddable(column, rows) ==
  IF column.nullable \/ column.default # None \/ rows = <<>> THEN Ok(column) ELSE Err("definition")

\* check_unique_holds: no two rows seen share the key.
CheckUniqueHolds(rows, key) ==
  IF \E i, j \in DOMAIN rows : i # j /\ ExtractKey(rows[i].row, key) # None
                                /\ ExtractKey(rows[i].row, key) = ExtractKey(rows[j].row, key)
  THEN Err("unique") ELSE Ok(key)

\* ALTER TABLE ADD COLUMN.
AddColumn(alter, c, rows) ==
  LET table == c.tables[alter.name]
  IN  CASE alter.name \notin DOMAIN c.tables -> IF alter.ifExists THEN Ok(c) ELSE Err("table")
        [] ColumnIndex(table.schema, alter.spec.name).ok -> IF alter.ifNotExists THEN Ok(c) ELSE Err("exists")
        [] OTHER -> Then(ToColumnDef(alter.spec, FALSE), LAMBDA col0 :
                    Then(TypecheckDefaults(<<col0>>), LAMBDA cols :
                    Then(CheckAddable(cols[1], rows[table.id]), LAMBDA col :
                      Ok([c EXCEPT !.tables[alter.name].schema = Append(@, col)]))))

IndexNamed(c, name) == \E id \in DOMAIN c.indexes : \E i \in DOMAIN c.indexes[id] : c.indexes[id][i].name = name

\* CREATE [UNIQUE] INDEX.
CreateIndex(create, c, rows) ==
  IF create.table \notin DOMAIN c.tables THEN Err("table")
  ELSE LET table == c.tables[create.table]
           index == [name |-> create.name, cols |-> create.cols, unique |-> create.unique]
           checked == Then(MapR(create.cols, LAMBDA n : ColumnIndex(table.schema, n)), LAMBDA key :
                        IF ~IsInjective(key) THEN Err("exec")
                        ELSE IF create.unique THEN CheckUniqueHolds(rows[table.id], key) ELSE Ok(key))
       IN  IF IndexNamed(c, create.name) THEN IF create.ifNotExists THEN Ok(c) ELSE Err("exists")
           ELSE Then(checked, LAMBDA key : Ok([c EXCEPT !.indexes[table.id] = Append(@, index)]))

\* DROP INDEX: of a declared key too.
DropIndex(drop, c) ==
  IF ~IndexNamed(c, drop.name) THEN IF drop.ifExists THEN Ok(c) ELSE Err("table")
  ELSE Ok([c EXCEPT !.indexes = [id \in DOMAIN @ |-> SelectSeq(@[id], LAMBDA ix : ix.name # drop.name)]])

\* CREATE TABLE: its schema, and a unique index <table>_key<n> for each
\* declared key, unless an index of that name exists already.
CreateTable(create, c) ==
  LET id == Cardinality(DOMAIN c.tables) + 1
      keys == DeclaredKeys(create)
      index(k) == [name |-> create.name \o "_key" \o ToString(k - 1), cols |-> keys[k], unique |-> TRUE]
      free == SelectSeq([k \in DOMAIN keys |-> index(k)], LAMBDA ix : ~IndexNamed(c, ix.name))
  IN  IF create.name \in DOMAIN c.tables THEN IF create.ifNotExists THEN Ok(c) ELSE Err("exists")
      ELSE Then(ToSchema(create), LAMBDA s0 : Then(TypecheckDefaults(s0), LAMBDA schema :
             Ok([tables |-> c.tables @@ (create.name :> [id |-> id, schema |-> schema]),
                 indexes |-> Append(c.indexes, free)])))

Define(stmt, c, rows) ==
  CASE stmt[1] = "CreateTable" -> CreateTable(stmt[2], c)
    [] stmt[1] = "AlterTable" -> AddColumn(stmt[2], c, rows)
    [] stmt[1] = "CreateIndex" -> CreateIndex(stmt[2], c, rows)
    [] stmt[1] = "DropIndex" -> DropIndex(stmt[2], c)

\* The columns of the unique indexes of a table, as positions.
IndexedKeys(c, name) == ToSet(UniqueKeysOf(c.tables[name], c))

\* History only: the unique indexes that c adds while rows of a failed commit are not seen.
CreatedBlind(c) ==
  UNION {{cat.tables[n].id} \X (IndexedKeys(c, n) \ IndexedKeys(cat, n)) :
           n \in {m \in DOMAIN cat.tables : doubt[cat.tables[m].id] # <<>>}}

OtherDdl ==
  /\ pending # <<>>
  /\ \E r \in {Then(ParseSql(Head(pending)), LAMBDA ss : Define(ss[1], cat, committed))} :
       cat' = IF r.ok THEN r.val ELSE cat
  /\ missed' = missed \cup CreatedBlind(cat')
  /\ pending' = Tail(pending)
  /\ raced' = (raced \/ (cat' # cat /\ (stage \in {"start", "rows"} \/ open)))
  /\ UNCHANGED <<input, stage, texts, todo, open, plan, work, result, error, rowVars, filters, before>>

Stop == stage \in {"done", "failed"} /\ texts = <<>> /\ UNCHANGED vars

----------------------------------------------------------------------------

\* The catalog the CREATE TABLE statements of an input make.
CatalogOf(creates) ==
  FoldLeft(LAMBDA c, text : Then(c, LAMBDA x : Then(ParseSql(text), LAMBDA ss :
             Define(ss[1], x, [id \in DOMAIN x.indexes |-> <<>>]))),
           Ok([tables |-> <<>>, indexes |-> <<>>]), creates).val

Init ==
  /\ input \in Inputs
  /\ cat = CatalogOf(input.creates)
  /\ committed = [id \in DOMAIN cat.indexes |-> [i \in DOMAIN input.rows[id] |-> [rid |-> i, row |-> input.rows[id][i]]]]
  /\ tables = committed
  /\ nextRow = [id \in DOMAIN committed |-> Len(committed[id]) + 1]
  /\ deleted = NoRows /\ doubt = NoRows /\ filters = NoRows /\ missed = {}
  /\ stage = "done" /\ texts = input.texts /\ todo = <<>> /\ open = FALSE /\ plan = P(<<"None">>, <<>>) /\ work = <<>>
  /\ result = [rows |-> <<>>, affected |-> 0] /\ error = "" /\ pending = input.ddl
  /\ before = [tables |-> tables, cat |-> cat] /\ raced = FALSE

Next ==
  \/ ParseText \/ Control \/ ControlFails \/ Expire
  \/ PlanStep \/ StartStep \/ RowStep \/ Timeout \/ Finish \/ FinishFails
  \/ OtherDdl \/ Stop

Spec == Init /\ [][Next]_vars

----------------------------------------------------------------------------
(* Properties.                                                             *)

\* The world the current statement was planned in.
World == [cat |-> before.cat, rows |-> before.tables, params |-> input.params]

\* The current statement has done all its work.
Complete == stage = "rows" /\ work = <<>>

Statement == Head(todo)

Is(tags) == todo # <<>> /\ Statement[1] \in tags

\* The type invariant: stored rows have row ids of their own, below the next one.
TypeOK ==
  /\ stage \in {"plan", "start", "rows", "done", "failed"} /\ open \in BOOLEAN /\ raced \in BOOLEAN
  /\ result.affected \in Nat
  /\ DOMAIN tables = DOMAIN cat.indexes
  /\ {DOMAIN committed, DOMAIN deleted, DOMAIN doubt, DOMAIN filters} = {DOMAIN tables}
  /\ \A id \in DOMAIN tables :
       /\ \A i \in DOMAIN tables[id] : tables[id][i].rid \in 1 .. nextRow[id] - 1
       /\ IsInjective([i \in DOMAIN tables[id] |-> tables[id][i].rid])
  /\ ~open => stage = "rows" \/ (committed = tables /\ deleted = NoRows)

\* A condition written with only the parentheses its operators need is parsed
\* back as that condition (parse_subexpr and parse_infix), up to the way
\* chains of AND and of OR associate.
ParsedAsMeant ==
  input.meant # None =>
    /\ error \notin {"syntax", "depth"}
    /\ stage = "plan" => Flattened(Statement[2].body[2].where[1]) = Flattened(input.meant[1])

RECURSIVE Log2(_)
Log2(n) == IF n <= 1 THEN 0 ELSE 1 + Log2((n + 1) \div 2)

\* The height of a condition written without parentheses: what the nesting of
\* the parser allows, and the logarithm of the text for its runs of OR and AND.
TextHeight == MaxDepth + 2 * Log2(Len(input.texts[1]))

OneFlatText == Len(input.texts) = 1 /\ Sym("(") \notin ToSet(input.texts[1])

\* However many terms a condition has, its tree stays low (parse_subexpr: "What
\* has to stay bounded is the height of the tree"; parse_boolean_run: "a
\* thousand terms are ten levels rather than a thousand").
HeightIsBounded ==
  stage = "plan" /\ Is({"Query"}) /\ OneFlatText /\ Statement[2].body[1] = "Select" =>
    \A i \in DOMAIN Statement[2].body[2].where : Height(Statement[2].body[2].where[i]) <= TextHeight

RECURSIVE NodesOf(_)
NodesOf(p) == {p} \cup UNION {NodesOf(p.kids[i]) : i \in DOMAIN p.kids}

\* An outer join one of whose inputs has no row pads with rows of width 0.
PadsFromNothing ==
  \E p \in NodesOf(plan) :
    /\ PKind(p) = "NestedLoopJoin"
    /\ \E i \in {1, 2} : /\ IF i = 1 THEN PreservesRight(p.op[2]) ELSE PreservesLeft(p.op[2])
                        /\ Stream(p.kids[i], Env) = Ok(<<>>)

\* A parenthesised query whose own ORDER BY, LIMIT or OFFSET single_select drops.
DropsClauses(q) == q.body[1] = "Query" /\ LET inner == q.body[2]
                                          IN  inner.order # <<>> \/ inner.limit # None \/ inner.offset # None

\* A query on one table failed while it ran, and not by an overflow.
FailedWhileRunning ==
  /\ stage = "failed" /\ error \in {"type", "div0", "cast", "range", "exec"}
  /\ LET from == Statement[2].body[2].from IN Len(from) = 1 /\ from[1].joins = <<>>

\* A query that completes gives the rows it means, in the order it means:
\* pushing predicates below joins, index probes, positions instead of names,
\* accumulators and subqueries run ahead change nothing (rules.rs, planner.rs,
\* executor.rs).  And on one table, a query that has a meaning does not fail
\* while it runs, except by an intermediate overflow.
QueryMeetsReference ==
  Is({"Query"}) /\ ~DropsClauses(Statement[2]) /\ (Complete \/ FailedWhileRunning) =>
    \A meaning \in {MeaningOfQuery(Statement[2], World)} :
      meaning.ok => Complete /\ (result.rows = meaning.val \/ PadsFromNothing)

\* Every row of a result has the shape its plan announces (output_schema), the
\* one RowDescription sends ahead of the rows: as many values, each of its
\* column's type, NULL only where the column may be (a NOT NULL column added
\* while a row was being written is NULL in it).
FitsShape(row, schema) ==
  /\ Len(row) = Len(schema)
  /\ \A i \in DOMAIN schema : IF IsNullValue(row[i]) THEN schema[i].nullable ELSE TypeOf(row[i]) = schema[i].type

RowsFitSchema ==
  Complete /\ Is({"Query"}) /\ ~PadsFromNothing /\ ~raced =>
    \A i \in DOMAIN result.rows : FitsShape(result.rows[i], OutputSchema(plan))

\* The same for every outer join (nested_loop_join: "a preserved row with no
\* match is padded with nulls").
JoinedRowsAreWhole ==
  Complete /\ Is({"Query"}) => \A i \in DOMAIN result.rows : Len(result.rows[i]) = Len(OutputSchema(plan))

\* A write that completes leaves the rows it means and counts them right: an
\* UPDATE reads only old values, however its rows are rewritten one by one, an
\* INSERT resolves each conflict against the rows before it, triggers see the
\* row they decide on, and no other table changes (run_insert, run_update,
\* run_delete, resolve_conflict).
WriteMeetsReference ==
  Complete /\ Is({"Insert", "Update", "Delete"}) =>
    LET s == Statement[2]
        id == plan.op[2].id
        fire(table, event, row) == FireBefore(TriggersFor(table, event), row)
        inserted == Cardinality({i \in DOMAIN tables[id] : \A j \in DOMAIN before.tables[id] :
                                   before.tables[id][j].rid # tables[id][i].rid})
    IN  \A meaning \in {CASE Is({"Insert"}) -> MeaningOfInsert(s, World, nextRow[id] - inserted, fire)
                           [] Is({"Update"}) -> MeaningOfUpdate(s, World, fire)
                           [] Is({"Delete"}) -> MeaningOfDelete(s, World, fire)} :
        meaning.ok => /\ tables = [before.tables EXCEPT ![id] = meaning.val.stored]
                      /\ result.affected = meaning.val.affected

\* Until a restart decides on a commit that failed, its rows stay as they were.
DoubtStands ==
  \A id \in DOMAIN doubt : \A x \in DOMAIN doubt[id] :
    RowAt(tables[id], x) = doubt[id][x].seen /\ RowAt(committed[id], x) = doubt[id][x].seen

\* A statement that fails outside a block leaves no trace, although its first
\* rows were written; in a block at most the rows it counted have changed
\* (in_transaction: abort or stay open). The one exception is a commit that
\* fails, which nothing aborts: then everything its transaction wrote is seen,
\* or nothing is and all of it stays in doubt, never some of each; and no later
\* statement, in a block or not, rewrites or deletes a row in doubt
\* (writable_version), so that publishing it later overwrites nobody's work.
OnlyFailedCommitsLeaveTraces ==
  /\ stage = "failed" =>
       LET rowsOf(t, id) == ToSet(t[id])
           changed == UNION {{<<id, r.rid>> : r \in (rowsOf(tables, id) \ rowsOf(before.tables, id))
                                                       \cup (rowsOf(before.tables, id) \ rowsOf(tables, id))}
                             : id \in DOMAIN tables}
       IN  IF open THEN Cardinality(changed) <= result.affected
           ELSE /\ committed = tables
                /\ changed = {} \/ error = "commit"
                /\ \A c \in changed : c[2] \notin DOMAIN doubt[c[1]]
  /\ DoubtStands

\* A stored row reads back as a row of its table's schema, however the schema
\* grew since (conform_row, check_addable), unless a column was added while the
\* row was being written.
StoredRowsConform ==
  \A name \in DOMAIN cat.tables :
    LET schema == cat.tables[name].schema
        rows == tables[cat.tables[name].id]
    IN  \A i \in DOMAIN rows :
          /\ Len(rows[i].row) <= Len(schema)
          /\ \/ FitsShape(FillAddedColumns(schema, rows[i].row), schema)
             \/ raced /\ \A j \in DOMAIN rows[i].row : FitsShape(<<rows[i].row[j]>>, <<schema[j]>>)

\* Two of the rows share a key, as they read back.
ShareKey(rows, schema, key) ==
  LET read(r) == ExtractKey(FillAddedColumns(schema, r.row), key)
  IN  \E r, s \in rows : r.rid # s.rid /\ read(r) # None /\ read(r) = read(s)

\* The rows that are as long as the key asks for: none of its columns was added after them.
LongEnough(rows, key) == {r \in rows : \A i \in DOMAIN key : key[i] <= Len(r.row)}

\* As constraints see the table, failed commits included, no two rows share
\* the key of a unique index (enforce_unique, check_unique_holds), but for
\* three reasons, in one session without concurrent writers: one of the rows
\* is older than a column of the key, so that no key is extracted from it,
\* though it reads back with the default; the index was created or dropped
\* while a statement or a block was under way; a check missed a key, because
\* the filter was built by a transaction with deletions of its own, because
\* rows were written while the index of the filter did not exist, or because
\* the index was created over rows of a failed commit.
DuplicatesHaveThreeOrigins ==
  \A name \in DOMAIN cat.tables : \A key \in IndexedKeys(cat, name) :
    LET id == cat.tables[name].id
    IN  \/ raced \/ <<id, key>> \in missed
        \/ ~ShareKey(LongEnough(WalkForConstraints(TableOf(id)), key), cat.tables[name].schema, key)

RECURSIVE HasSubquery(_)
HasSubquery(e) == Kind(e) = "InSubquery" \/ \E i \in DOMAIN e.args : HasSubquery(e.args[i])

\* A statement completes only for a caller who holds every permission it
\* needs, an upsert's second one and a subquery's included (authorize).
CompletedIsPermitted ==
  Complete =>
    LET s == Statement[2]
        holds(p) == HasPermission(input.roles, p)
        reads(where) == \A i \in DOMAIN where : HasSubquery(where[i]) => holds("Select")
    IN  CASE Is({"Query"}) -> holds("Select")
          [] Is({"Insert"}) -> /\ holds("Insert")
                               /\ \A i \in DOMAIN s.conflict : s.conflict[i].action[1] = "Update" => holds("Update")
          [] Is({"Update", "Delete"}) -> holds(Statement[1]) /\ reads(s.where)
          [] Is({"Call"}) -> holds("Execute")
============================================================================
