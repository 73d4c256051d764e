------------------------------ MODULE SqlExec ------------------------------
(***************************************************************************)
(* ferrite-exec's evaluation of a physical plan: expressions (eval.rs),    *)
(* grouping (aggregate.rs), uncorrelated subqueries (subquery.rs) and the  *)
(* row-producing nodes of executor.rs.                                     *)
(*                                                                         *)
(* A node's rows are tuples [rid, row]; rid is None once the row no longer *)
(* is a row of a table.  `env` is what a statement sees: [rows: table id   *)
(* to the tuples its snapshot shows in row-id order, schemas: table id to  *)
(* schema].  No index provider is wired by the server, so an index scan is *)
(* the sequential scan it degrades to.  The statement deadline is left out *)
(* here (a statement may fail at any row, see Sql).                        *)
(***************************************************************************)
EXTENDS SqlPlanner

CONSTANT MaxRows    \* Limits::max_rows: the rows one node may hold

ASSUME MaxRowsAssumption == MaxRows \in Nat

Tuple(rid, row) == [rid |-> rid, row |-> row]

\* eval: expression `e` over the values of `row`.
RECURSIVE Eval(_, _)
Eval(e, row) ==
  LET k == Kind(e)
      arg(i) == Eval(e.args[i], row)
      args(F(_)) == Then(MapR(e.args, LAMBDA a : Eval(a, row)), F)
      truth(i) == Then(arg(i), AsBool)
      \* A left operand equal to `settles` decides; the right one is not evaluated.
      logical(settles) ==
        Then(truth(1), LAMBDA l :
          IF l = Bool(settles) THEN Ok(l)
          ELSE Then(truth(2), LAMBDA r :
                 Ok(IF r = Bool(settles) THEN r
                    ELSE IF IsNullValue(l) \/ IsNullValue(r) THEN Null ELSE Bool(~settles))))
      first == IF k = "Case" /\ e.op[2] THEN 2 ELSE 1
      last == IF k = "Case" /\ e.op[3] THEN Len(e.args) - 1 ELSE Len(e.args)
      RECURSIVE branch(_, _)
      branch(i, operand) ==
        IF i > last THEN IF e.op[3] THEN arg(Len(e.args)) ELSE Ok(Null)
        ELSE Then(arg(i), LAMBDA w :
             Then(IF operand = None THEN Ok(w = Bool(TRUE))
                  ELSE Then(Compare(operand[1], w), LAMBDA c : Ok(c = Some(0))),
                  LAMBDA hit : IF hit THEN arg(i + 1) ELSE branch(i + 2, operand)))
  IN  CASE k = "Slot" -> IF e.op[2] \in DOMAIN row THEN Ok(row[e.op[2]]) ELSE Err("range")
        [] k = "Literal" -> Ok(e.op[2])
        [] k = "IsNull" -> Then(arg(1), LAMBDA v : Ok(Bool(IsNullValue(v))))
        [] k = "Not" -> Then(truth(1), LAMBDA v : Ok(IF IsNullValue(v) THEN Null ELSE Bool(~v[2])))
        [] k = "Like" -> args(LAMBDA vs : LikeValue(vs[1], vs[2], e.op[2], e.op[3]))
        [] k \in ArithmeticOps -> args(LAMBDA vs : Arithmetic(k, vs[1], vs[2]))
        [] k = "And" -> logical(FALSE)
        [] k = "Or" -> logical(TRUE)
        [] k \in ComparisonOps ->
             args(LAMBDA vs : Then(Compare(vs[1], vs[2]), LAMBDA c :
                    Ok(IF c = None THEN Null ELSE Bool(Matches(k, c[1])))))
        [] k = "Cast" -> Then(arg(1), LAMBDA v : Cast(v, e.op[2]))
        [] k = "Function" -> args(LAMBDA vs : CallScalar(e.op[2], vs))
        [] k = "Case" -> IF e.op[2] THEN Then(arg(1), LAMBDA v : branch(first, Some(v)))
                         ELSE branch(first, None)
        [] k = "InSubquery" -> Err("exec")

\* NULL is not true, and neither is a value that is no boolean.
EvalPredicate(e, row) == Then(Eval(e, row), LAMBDA v : Ok(v = Bool(TRUE)))

\* The tuples a predicate (if any) keeps, in order.
Keep(tuples, predicate) ==
  IF predicate = None THEN Ok(tuples)
  ELSE Then(MapR(tuples, LAMBDA t : EvalPredicate(predicate[1], t.row)), LAMBDA keeps :
         LET kept == SelectSeq([i \in DOMAIN tuples |-> i], LAMBDA i : keeps[i])
         IN  Ok([i \in DOMAIN kept |-> tuples[kept[i]]]))

\* The first occurrence of each value of F over a sequence, as indices.
FirstIndices(s, F(_)) ==
  SelectSeq([i \in DOMAIN s |-> i], LAMBDA i : \A j \in 1 .. i - 1 : F(s[j]) # F(s[i]))

----------------------------------------------------------------------------
(* Grouping.                                                               *)

NewAccumulator == [seen |-> {}, count |-> 0, integral |-> 0, fractional |-> <<0, 1>>,
                   isFloat |-> FALSE, any |-> FALSE, extreme |-> None]

\* Accumulator::push; an absent value is the * of count(*).
PushValue(acc, call, value) ==
  LET v == value[1]
      noted == [acc EXCEPT !.count = @ + 1, !.any = TRUE,
                           !.seen = IF call.distinct THEN @ \cup {v} ELSE @]
      added == noted.integral + v[2]
      replaced == [noted EXCEPT !.extreme = Some(v)]
  IN  CASE value = None -> Ok([acc EXCEPT !.count = @ + 1])
        [] IsNullValue(v) \/ (call.distinct /\ v \in acc.seen) -> Ok(acc)
        [] call.func = "count" -> Ok(noted)
        [] call.func \in {"sum", "avg"} ->
            (CASE TypeOf(v) \in {"Int4", "Int8"} ->
                    IF Fits(Int8Bits, added) THEN Ok([noted EXCEPT !.integral = added]) ELSE Err("overflow")
               [] TypeOf(v) = "Float8" ->
                    Then(FloatOp("Plus", acc.fractional, v[2]), LAMBDA f :
                      Ok([noted EXCEPT !.isFloat = TRUE, !.fractional = f]))
               [] OTHER -> Err("type"))
        [] call.func \in {"min", "max"} ->
             IF acc.extreme = None THEN Ok(replaced)
             ELSE Then(Compare(v, acc.extreme[1]), LAMBDA c :
                    Ok(IF c = Some(IF call.func = "min" THEN -1 ELSE 1) THEN replaced ELSE noted))

FinishAccumulator(acc, func) ==
  LET total == FloatOp("Plus", <<acc.integral, 1>>, acc.fractional).val
  IN  CASE func = "count" -> Int8(acc.count)
        [] ~acc.any -> Null
        [] func = "sum" -> IF acc.isFloat THEN <<"Float8", total>> ELSE Int8(acc.integral)
        [] func = "avg" -> <<"Float8", FloatOp("Divide", total, <<acc.count, 1>>).val>>
        [] OTHER -> acc.extreme[1]

\* aggregate::run: one row per group in order of first appearance, and one
\* row for no input at all when there is no GROUP BY.
RunAggregate(tuples, keys, calls) ==
  LET keyed == MapR(tuples, LAMBDA t : MapR(keys, LAMBDA k : Eval(k, t.row)))
      folded(members, call) ==
        LET step(acc, t) == Then(acc, LAMBDA a :
              Then(OptR(call.arg, LAMBDA e : Eval(e, t.row)), LAMBDA v : PushValue(a, call, v)))
        IN  Then(FoldLeft(step, Ok(NewAccumulator), members), LAMBDA a :
              Ok(FinishAccumulator(a, call.func)))
      group(key, members) == Then(MapR(calls, LAMBDA c : folded(members, c)), LAMBDA vs :
                               Ok(Tuple(None, key \o vs)))
  IN  Then(keyed, LAMBDA ks :
        LET heads == FirstIndices(ks, LAMBDA x : x)
            membersOf(key) == LET at == SelectSeq([i \in DOMAIN ks |-> i], LAMBDA i : ks[i] = key)
                              IN  [i \in DOMAIN at |-> tuples[at[i]]]
        IN  IF tuples = <<>> /\ keys = <<>> THEN Then(group(<<>>, <<>>), LAMBDA t : Ok(<<t>>))
            ELSE MapR(heads, LAMBDA i : group(ks[i], membersOf(ks[i]))))

----------------------------------------------------------------------------
(* Joining and sorting.                                                    *)

Nulls(n) == [i \in 1 .. n |-> Null]

\* nested_loop_join.  The null padding of an unmatched row is as wide as the
\* first row of the other input, hence empty when that input is.
NestedLoopJoin(outer, inner, jt, predicate) ==
  LET width(side) == IF side = <<>> THEN 0 ELSE Len(side[1].row)
      joined(i, j) == outer[i].row \o inner[j].row
      keeps(i, j) == IF predicate = None THEN Ok(TRUE) ELSE EvalPredicate(predicate[1], joined(i, j))
      matches == MapR([i \in DOMAIN outer |-> i], LAMBDA i : MapR([j \in DOMAIN inner |-> j], LAMBDA j : keeps(i, j)))
  IN  Then(matches, LAMBDA m :
        LET hits(i) == SelectSeq([j \in DOMAIN inner |-> j], LAMBDA j : m[i][j])
            rowsOf(i) == IF hits(i) = <<>> /\ PreservesLeft(jt)
                         THEN <<Tuple(None, outer[i].row \o Nulls(width(inner)))>>
                         ELSE [h \in DOMAIN hits(i) |-> Tuple(None, joined(i, hits(i)[h]))]
            missed == SelectSeq([j \in DOMAIN inner |-> j],
                                LAMBDA j : PreservesRight(jt) /\ \A i \in DOMAIN outer : ~m[i][j])
        IN  Ok(FlattenSeq([i \in DOMAIN outer |-> rowsOf(i)])
                 \o [h \in DOMAIN missed |-> Tuple(None, Nulls(width(outer)) \o inner[missed[h]].row)]))

\* compare_keys: the first key that differs decides.
RECURSIVE CompareKeys(_, _, _)
CompareKeys(l, r, keys) ==
  IF keys = <<>> THEN Ok(0)
  ELSE LET nulls == CASE IsNullValue(Head(l)) /\ IsNullValue(Head(r)) -> 0
                      [] IsNullValue(Head(l)) -> IF Head(keys).nullsFirst THEN -1 ELSE 1
                      [] OTHER -> IF Head(keys).nullsFirst THEN 1 ELSE -1
           ordering == IF IsNullValue(Head(l)) \/ IsNullValue(Head(r)) THEN Ok(nulls)
                       ELSE Then(Compare(Head(l), Head(r)), LAMBDA c : Ok(IF Head(keys).asc THEN c[1] ELSE -c[1]))
       IN  Then(ordering, LAMBDA o : IF o # 0 THEN Ok(o) ELSE CompareKeys(Tail(l), Tail(r), Tail(keys)))

\* A stable sort.
SortTuples(tuples, keys) ==
  Then(MapR(tuples, LAMBDA t : MapR(keys, LAMBDA k : Eval(k.expr, t.row))), LAMBDA ks :
  Then(MapR([i \in DOMAIN ks |-> i], LAMBDA i : MapR(ks, LAMBDA other : CompareKeys(other, ks[i], keys))), LAMBDA cmp :
    LET before(i) == {j \in DOMAIN ks : cmp[i][j] = -1 \/ (cmp[i][j] = 0 /\ j < i)}
    IN  Ok([n \in DOMAIN ks |-> tuples[CHOOSE i \in DOMAIN ks : Cardinality(before(i)) = n - 1]])))

----------------------------------------------------------------------------
(* Rows of a plan.                                                         *)

\* Rows written before a column was added are short: fill in the column's
\* constant default, or NULL.
FillAddedColumns(schema, row) ==
  [i \in 1 .. (IF Len(row) > Len(schema) THEN Len(row) ELSE Len(schema)) |->
     IF i <= Len(row) THEN row[i] ELSE IF schema[i].default = None THEN Null ELSE schema[i].default[1]]

\* The plan was built for this schema.
CheckSchema(source, env) ==
  IF env.schemas[source.id] = source.schema THEN Ok(source) ELSE Err("stale")

\* A node may not hold more than MaxRows rows; 0 is no limit.
Admit(tuples) == IF MaxRows = 0 \/ Len(tuples) <= MaxRows THEN Ok(tuples) ELSE Err("limit")

SeqScan(source, filter, env) ==
  LET rows == env.rows[source.id]
  IN  Keep([i \in DOMAIN rows |-> Tuple(Some(rows[i].rid), FillAddedColumns(source.schema, rows[i].row))], filter)

\* index_scan without a provider: an equality filter, then the residual one.
IndexScan(source, pos, key, residual, env) ==
  Then(SeqScan(source, Some(Bin("Eq", Slot(pos), key)), env), LAMBDA ts : Then(Admit(ts), LAMBDA us : Keep(us, residual)))

\* What a node makes of the rows of its input.
Apply(plan, ts) ==
  LET op == plan.op
      skip == IF op[3] < Len(ts) THEN op[3] ELSE Len(ts)
      left == SubSeq(ts, skip + 1, Len(ts))
      distinct == FirstIndices(ts, LAMBDA t : t.row)
      project(t) == Then(MapR(op[2], LAMBDA e : Eval(e, t.row)), LAMBDA vs : Ok(Tuple(None, vs)))
  IN  CASE PKind(plan) = "Filter" -> Keep(ts, Some(op[2]))
        [] PKind(plan) = "Projection" -> MapR(ts, project)
        [] PKind(plan) = "Aggregate" -> RunAggregate(ts, op[2], op[3])
        [] PKind(plan) = "Sort" -> SortTuples(ts, op[2])
        [] PKind(plan) = "Distinct" -> Ok([i \in DOMAIN distinct |-> ts[distinct[i]]])
        [] PKind(plan) = "Limit" ->
             Ok(IF op[2] = None \/ op[2][1] >= Len(left) THEN left ELSE SubSeq(left, 1, op[2][1]))

RECURSIVE Stream(_, _)
Stream(plan, env) ==
  LET op == plan.op
  IN  Then(CASE PKind(plan) = "SeqScan" -> Then(CheckSchema(op[2], env), LAMBDA s : SeqScan(s, op[3], env))
             [] PKind(plan) = "IndexScan" ->
                  Then(CheckSchema(op[2], env), LAMBDA s : IndexScan(s, op[3], op[4], op[5], env))
             [] PKind(plan) = "NestedLoopJoin" ->
                  Then(Stream(plan.kids[1], env), LAMBDA l : Then(Stream(plan.kids[2], env), LAMBDA r :
                    NestedLoopJoin(l, r, op[2], op[3])))
             [] PKind(plan) \in {"Filter", "Projection", "Aggregate", "Sort", "Distinct", "Limit"} ->
                  Then(Stream(plan.kids[1], env), LAMBDA ts : Apply(plan, ts))
             [] OTHER -> Err("exec"), Admit)

\* output_schema: the shape of the rows a node produces.
RECURSIVE OutputSchema(_)
OutputSchema(plan) ==
  CASE PKind(plan) \in {"SeqScan", "IndexScan"} -> plan.op[2].schema
    [] PKind(plan) = "NestedLoopJoin" -> plan.op[4]
    [] PKind(plan) = "Aggregate" -> plan.op[4]
    [] PKind(plan) = "Projection" -> plan.op[3]
    [] OTHER -> OutputSchema(plan.kids[1])

----------------------------------------------------------------------------
(* IN (SELECT ...): each subplan runs once, before the statement, and the  *)
(* test becomes one equality per value.                                    *)

ValueTest(tested, values, negated) ==
  IF values = <<>> THEN Lit(Bool(negated))
  ELSE LET any == BalancedOr([i \in DOMAIN values |-> Bin("Eq", tested, Lit(values[i]))])
       IN  IF negated THEN Not(any) ELSE any

RECURSIVE InExpr(_), PresentIn(_), ResolveExpr(_, _), ResolveSubqueries(_, _)
InExpr(e) == Kind(e) = "InSubquery" \/ \E i \in DOMAIN e.args : InExpr(e.args[i])

RowsOfSubquery(resolved, env) == IF resolved.ok THEN Stream(resolved.val, env) ELSE resolved

ResolveExpr(e, env) ==
  LET args == MapR(e.args, LAMBDA a : ResolveExpr(a, env))
  IN  IF Kind(e) # "InSubquery" THEN Then(args, LAMBDA as : Ok([e EXCEPT !.args = as]))
      ELSE Then(Collect(<<args, RowsOfSubquery(ResolveSubqueries(e.op[2], env), env)>>), LAMBDA x :
             Ok(ValueTest(x[1][1], [i \in DOMAIN x[2] |-> x[2][i].row[1]], e.op[3])))

\* The expressions of a plan node.  The key of an index scan is a literal;
\* those of INSERT, SET and CALL hold no subquery, binding refuses one there.
NodeExprs(plan) ==
  LET op == plan.op
  IN  CASE PKind(plan) \in {"SeqScan", "NestedLoopJoin"} -> op[3]
        [] PKind(plan) = "IndexScan" -> op[5]
        [] PKind(plan) = "Filter" -> <<op[2]>>
        [] PKind(plan) = "Projection" -> op[2]
        [] PKind(plan) = "Sort" -> [i \in DOMAIN op[2] |-> op[2][i].expr]
        [] PKind(plan) = "Aggregate" -> op[2] \o FlattenSeq([i \in DOMAIN op[3] |-> op[3][i].arg])
        [] OTHER -> <<>>

PresentIn(plan) ==
  \/ \E i \in DOMAIN NodeExprs(plan) : InExpr(NodeExprs(plan)[i])
  \/ \E i \in DOMAIN plan.kids : PresentIn(plan.kids[i])

\* The node with its expressions replaced.
WithExprs(plan, es) ==
  LET op == plan.op
      groups == Len(op[2])
      argAt(i) == groups + Cardinality({j \in 1 .. i : op[3][j].arg # None})
  IN  CASE PKind(plan) \in {"SeqScan", "NestedLoopJoin"} -> [plan EXCEPT !.op[3] = es]
        [] PKind(plan) = "IndexScan" -> [plan EXCEPT !.op[5] = es]
        [] PKind(plan) = "Filter" -> [plan EXCEPT !.op[2] = es[1]]
        [] PKind(plan) = "Projection" -> [plan EXCEPT !.op[2] = es]
        [] PKind(plan) = "Sort" -> [plan EXCEPT !.op[2] = [i \in DOMAIN es |-> [op[2][i] EXCEPT !.expr = es[i]]]]
        [] PKind(plan) = "Aggregate" ->
             [plan EXCEPT !.op[2] = SubSeq(es, 1, groups),
                          !.op[3] = [i \in DOMAIN op[3] |->
                             IF op[3][i].arg = None THEN op[3][i] ELSE [op[3][i] EXCEPT !.arg = Some(es[argAt(i)])]]]
        [] OTHER -> plan

ResolveSubqueries(plan, env) ==
  Then(MapR(NodeExprs(plan), LAMBDA e : ResolveExpr(e, env)), LAMBDA es :
  Then(MapR(plan.kids, LAMBDA k : ResolveSubqueries(k, env)), LAMBDA kids :
    Ok([WithExprs(plan, es) EXCEPT !.kids = kids])))
============================================================================
