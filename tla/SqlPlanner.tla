---------------------------- MODULE SqlPlanner ----------------------------
(***************************************************************************)
(* The planner's three passes over the structures of SqlPlan: build the    *)
(* logical plan of a parsed statement, push its predicates down, and lower *)
(* it to a physical plan.                                                  *)
(*                                                                         *)
(* A parsed query is [with, body, order, limit, offset], its body          *)
(* <<"Select", s>>, <<"Query", q>> (parenthesised) or <<"SetOp", ...>>; a  *)
(* select is [distinct, items, from, where, group, having].  The lowering  *)
(* context is [cat, params, quals, aggs, subs]: the catalog, the bound     *)
(* parameters, the relation names in scope, the aggregate slots (if any)   *)
(* and whether a subquery is legal here.                                   *)
(***************************************************************************)
EXTENDS SqlPlan

Context(cat, params, quals, subs) ==
  [cat |-> cat, params |-> params, quals |-> quals, aggs |-> None, subs |-> subs]

RECURSIVE LowerExpr(_, _), BuildLogical(_, _, _)

\* Lowerer::expr.
LowerExpr(e, c) ==
  LET k == Kind(e)
      lowered(F(_)) == Then(MapR(e.args, LAMBDA a : LowerExpr(a, c)), F)
      same(as) == Ok(E(e.op, as))
      negatedBy(flag, x) == Ok(IF flag THEN Not(x) ELSE x)
      minus(as) == IF Kind(as[1]) = "Literal"
                   THEN Then(Negate(as[1].op[2]), LAMBDA v : Ok(Lit(v)))
                   ELSE Ok(Bin("Minus", Lit(Int4(0)), as[1]))
      compared(as) == IF FoldsCase(e.args[1]) \/ FoldsCase(e.args[2])
                      THEN Ok(Bin(k, FoldCase(as[1]), FoldCase(as[2])))
                      ELSE same(as)
      between(as) == negatedBy(e.op[2], Bin("And", Bin("GtEq", as[1], as[2]), Bin("LtEq", as[1], as[3])))
      inList(as) == negatedBy(e.op[2], BalancedOr([i \in 1 .. Len(as) - 1 |-> Bin("Eq", as[1], as[i + 1])]))
      like(as) == Ok(E(<<"Like", e.op[2], e.op[3] \/ FoldsCase(e.args[1]) \/ FoldsCase(e.args[2])>>, as))
      aggregateSlot == LET calls == c.aggs[1].calls
                       IN  Ok(Slot(c.aggs[1].offset + CHOOSE i \in DOMAIN calls : calls[i] = e))
      subquery(as) == Then(BuildLogical(<<"Query", e.op[2]>>, c.cat, c.params),
                           LAMBDA p : Ok(E(<<"InSubquery", p, e.op[3]>>, as)))
  IN  CASE k = "Literal" -> Ok(Lit(ValueOf(e.op[2])))
        [] k = "Column" -> IF \A i \in DOMAIN e.op[2] : e.op[2][i] \in c.quals THEN Ok(e) ELSE Err("plan")
        [] k = "Parameter" -> IF e.op[2] \in DOMAIN c.params THEN Ok(Lit(c.params[e.op[2]])) ELSE Err("plan")
        [] k = "UnaryPlus" -> lowered(LAMBDA as : Ok(as[1]))
        [] k = "UnaryMinus" -> lowered(minus)
        [] k \in ComparisonOps -> lowered(compared)
        [] k \in ArithmeticOps \cup {"And", "Or", "Not", "Cast", "Case"} -> lowered(same)
        [] k = "IsNull" -> lowered(LAMBDA as : negatedBy(e.op[2], E(<<"IsNull">>, as)))
        [] k = "Between" -> lowered(between)
        [] k = "InList" -> IF Len(e.args) = 1 THEN Err("plan") ELSE lowered(inList)
        [] k = "Like" -> lowered(like)
        [] k = "Collate" -> IF e.op[2] \notin Collations THEN Err("plan")
                            ELSE lowered(LAMBDA as : Ok(IF FoldsCase(e) THEN E(<<"Function", "nocase">>, as)
                                                        ELSE as[1]))
        [] k = "Call" /\ e.op[2] \in AggregateFuncs -> IF c.aggs = None THEN Err("plan") ELSE aggregateSlot
        [] k = "Call" -> IF e.op[2] \notin ScalarFuncs \/ e.op[3] \/ e.op[4] \/ ~ArityFits(e.op[2], Len(e.args))
                         THEN Err("plan")
                         ELSE lowered(LAMBDA as : Ok(E(<<"Function", e.op[2]>>, as)))
        [] k = "InSubquery" -> IF c.subs THEN lowered(subquery) ELSE Err("plan")
        [] OTHER -> Err("plan")

----------------------------------------------------------------------------
(* FROM.                                                                   *)

\* USING (a, b): equalities between positions of the joined row.
UsingPredicate(cols, left, right) ==
  LET pair(n) == Then(Resolve(left, <<"Column", None, n>>), LAMBDA i :
                   Then(Resolve(right, <<"Column", None, n>>), LAMBDA j :
                     Ok(Bin("Eq", Slot(i), Slot(Len(left) + j)))))
  IN  Then(MapR(cols, pair), LAMBDA eqs :
        IF eqs = <<>> THEN Err("plan") ELSE Ok(CombineConjunction(eqs)))

TableFactor(factor, cat) ==
  IF factor[1] = "Derived" THEN Err("plan")
  ELSE Then(ResolveTable(cat, factor[2], factor[3]), LAMBDA s :
         Ok([plan |-> P(<<"Scan", s, None>>, <<>>), quals |-> Qualifiers(s)]))

\* One relation of a FROM list and the joins that follow it.
BuildJoins(item, cat, params) ==
  LET step(acc, join) ==
        Then(acc, LAMBDA l : Then(TableFactor(join.rel, cat), LAMBDA r :
          LET quals == l.quals \cup r.quals
              on == CASE join.on[1] = "None" -> Ok(None)
                      [] join.on[1] = "Using" -> UsingPredicate(join.on[2], PlanScope(l.plan), PlanScope(r.plan))
                      [] join.on[1] = "On" ->
                           IF ContainsAggregate(join.on[2]) THEN Err("plan")
                           ELSE Then(LowerExpr(join.on[2], Context(cat, params, quals, FALSE)),
                                     LAMBDA x : Ok(Some(x)))
          IN  Then(on, LAMBDA o : Ok([plan |-> P(<<"Join", join.type, o>>, <<l.plan, r.plan>>),
                                      quals |-> quals]))))
  IN  FoldLeft(step, TableFactor(item.rel, cat), item.joins)

\* A comma-separated FROM list is a cross join.
BuildFrom(from, cat, params) ==
  LET step(acc, item) ==
        Then(acc, LAMBDA l : Then(BuildJoins(item, cat, params), LAMBDA r :
          Ok([plan |-> P(<<"Join", "Cross", None>>, <<l.plan, r.plan>>), quals |-> l.quals \cup r.quals])))
  IN  IF from = <<>> THEN Err("plan")
      ELSE FoldLeft(step, BuildJoins(from[1], cat, params), Tail(from))

----------------------------------------------------------------------------
(* SELECT.                                                                 *)

\* The one SELECT of a query.  The clauses of a parenthesised query around
\* it apply; the clauses inside the parentheses are dropped.
RECURSIVE SingleSelect(_)
SingleSelect(q) ==
  CASE q.with -> Err("plan")
    [] q.body[1] = "Select" -> Ok(q.body[2])
    [] q.body[1] = "Query" -> SingleSelect(q.body[2])
    [] q.body[1] = "SetOp" -> Err("plan")

LowerAggregate(call, c) ==
  LET agg(arg) == Ok([func |-> call.op[2], arg |-> arg, distinct |-> call.op[3]])
  IN  IF call.op[4]
      THEN IF call.op[2] = "count" THEN agg(None) ELSE Err("plan")
      ELSE IF Len(call.args) # 1 THEN Err("plan")
      ELSE Then(LowerExpr(call.args[1], c), LAMBDA x : agg(Some(x)))

\* A GROUP BY key may name a select-list alias the FROM clause does not provide.
GroupKey(key, items, scope, c) ==
  LET named == SelectSeq(items, LAMBDA it : it[1] = "Expr" /\ it[3] = Some(key.op[3]))
  IN  IF /\ Kind(key) = "Column" /\ key.op[2] = None
         /\ ~CanResolve(scope, key.op) /\ named # <<>>
      THEN LowerExpr(named[1][2], c)
      ELSE LowerExpr(key, c)

OutputName(e) ==
  CASE Kind(e) = "Column" -> e.op[3]
    [] Kind(e) \in {"Call", "Cast"} -> e.op[2]
    [] OTHER -> "?column?"

\* The select list, or None for a bare SELECT *.
ProjectionItems(items, scope, grouped, Rewrite(_)) ==
  LET expand(positions) == Ok([i \in DOMAIN positions |->
                                 [expr |-> Slot(positions[i]), name |-> scope[positions[i]].col.name]])
      item(it) ==
        CASE it[1] # "Expr" /\ grouped -> Err("plan")
          [] it[1] = "Star" -> expand([i \in DOMAIN scope |-> i])
          [] it[1] = "QualStar" -> IF PositionsFor(scope, it[2]) = <<>> THEN Err("plan")
                                   ELSE expand(PositionsFor(scope, it[2]))
          [] it[1] = "Expr" -> Then(Rewrite(it[2]), LAMBDA x :
               Ok(<<[expr |-> x, name |-> IF it[3] = None THEN OutputName(it[2]) ELSE it[3][1]]>>))
  IN  CASE items = <<>> -> Err("plan")
        [] Len(items) = 1 /\ items[1][1] = "Star" /\ ~grouped -> Ok(None)
        [] OTHER -> Then(MapR(items, item), LAMBDA xs : Ok(Some(FlattenSeq(xs))))

\* ORDER BY takes an ordinal or a select-list name from the projection, and
\* anything else from the row the projection reads.
SortKeys(order, items, Rewrite(_)) ==
  LET list == IF items = None THEN <<>> ELSE items[1]
      named(n) == SelectSeq(list, LAMBDA it : it.name = n)
      ordinal(n) == IF n \in DOMAIN list THEN Ok(list[n].expr) ELSE Err("plan")
      keyExpr(e) ==
        CASE Kind(e) = "Literal" /\ e.op[2][1] = "Int" -> ordinal(e.op[2][2])
          [] Kind(e) = "Column" /\ e.op[2] = None /\ named(e.op[3]) # <<>> -> Ok(named(e.op[3])[1].expr)
          [] OTHER -> Rewrite(e)
      key(o) == Then(keyExpr(o.expr), LAMBDA x :
                  Ok([expr |-> x, asc |-> o.asc,
                      nullsFirst |-> IF o.nulls = None THEN ~o.asc ELSE o.nulls[1]]))
  IN  MapR(order, key)

\* LIMIT and OFFSET: a constant, None when absent or NULL.
RowCount(opt, c) ==
  IF opt = None THEN Ok(None)
  ELSE Then(LowerExpr(opt[1], c), LAMBDA x :
         IF Kind(x) # "Literal" THEN Err("plan")
         ELSE LET v == x.op[2]
              IN  CASE IsNullValue(v) -> Ok(None)
                    [] TypeOf(v) \in {"Int4", "Int8"} -> IF v[2] >= 0 THEN Ok(Some(v[2])) ELSE Err("plan")
                    [] OTHER -> Err("plan"))

\* Planner::build_select: FROM, WHERE, grouping, HAVING, ORDER BY, projection,
\* DISTINCT and LIMIT, in that order.
BuildSelect(q, cat, params) ==
  Then(SingleSelect(q), LAMBDA sel :
  Then(BuildFrom(sel.from, cat, params), LAMBDA from :
  LET scope0 == PlanScope(from.plan)
      c == Context(cat, params, from.quals, TRUE)
      whereExpr == IF \E i \in DOMAIN sel.where : ContainsAggregate(sel.where[i]) THEN Err("plan")
                   ELSE OptR(sel.where, LAMBDA e : LowerExpr(e, c))
      listed == SelectSeq(sel.items, LAMBDA it : it[1] = "Expr")
      calls0 == CollectAggregates([i \in DOMAIN listed |-> listed[i][2]] \o sel.having
                                    \o [i \in DOMAIN q.order |-> q.order[i].expr])
  IN  Then(Collect(<<whereExpr, calls0>>), LAMBDA first :
  LET where == first[1]
      calls == first[2]
      grouped == sel.group # <<>> \/ calls # <<>> \/ sel.having # None
      plan1 == IF where = None THEN from.plan ELSE P(<<"Filter", where[1]>>, <<from.plan>>)
  IN  Then(Collect(<<MapR(sel.group, LAMBDA k : GroupKey(k, sel.items, scope0, c)),
                     MapR(calls, LAMBDA a : LowerAggregate(a, c))>>), LAMBDA lowered :
      Then(IF grouped THEN AggregateSchema(lowered[1], lowered[2], scope0) ELSE Ok(<<>>), LAMBDA schema :
  LET keys == lowered[1]
      aggs == lowered[2]
      scope == IF grouped THEN ForRelation(schema, {}) ELSE scope0
      plan2 == IF grouped THEN P(<<"Aggregate", keys, aggs>>, <<plan1>>) ELSE plan1
      upper == [c EXCEPT !.aggs = Some([calls |-> calls, offset |-> Len(keys)])]
      rewrite(e) == Then(LowerExpr(e, upper), LAMBDA x :
                      IF grouped THEN RejectUngrouped(SubstituteGroupKeys(x, keys)) ELSE Ok(x))
  IN  Then(Collect(<<OptR(sel.having, rewrite), ProjectionItems(sel.items, scope, grouped, rewrite),
                     RowCount(q.limit, c), RowCount(q.offset, c)>>), LAMBDA last :
      Then(SortKeys(q.order, last[2], rewrite), LAMBDA sorts :
  LET having == last[1]
      items == last[2]
      count == last[3]
      offset == last[4]
      plan3 == IF having = None THEN plan2 ELSE P(<<"Filter", having[1]>>, <<plan2>>)
      plan4 == IF sorts = <<>> THEN plan3 ELSE P(<<"Sort", sorts>>, <<plan3>>)
      plan5 == IF items = None THEN plan4 ELSE P(<<"Projection", items[1]>>, <<plan4>>)
      plan6 == IF sel.distinct THEN P(<<"Distinct">>, <<plan5>>) ELSE plan5
      skip == IF offset = None THEN 0 ELSE offset[1]
  IN  Ok(IF count # None \/ skip > 0 THEN P(<<"Limit", count, skip>>, <<plan6>>) ELSE plan6))))))))

----------------------------------------------------------------------------
(* INSERT, UPDATE, DELETE and CALL.                                        *)

\* The value of a column a write does not supply; CURRENT_TIMESTAMP is left out.
DefaultExpr(column) == Lit(IF column.default = None THEN Null ELSE column.default[1])

\* <<position, value>> for each SET col = expr.
Assignments(sets, schema, c) ==
  MapR(sets, LAMBDA s : Then(ColumnIndex(schema, s.col), LAMBDA i :
    Then(LowerExpr(s.value, c), LAMBDA x : Ok([pos |-> i, expr |-> Coerce(x, schema[i].type)]))))

\* The scope of an ON CONFLICT clause: the existing row, then the excluded one.
ConflictScope(source) ==
  ForRelation(source.schema, {source.name}) \o ForRelation(source.schema, {"excluded"})

RECURSIVE BindExpr(_, _, _), LowerPlan(_, _)

\* With no target the first unique index of the table, by name, decides.
BuildOnConflict(source, clause, cat, params) ==
  LET unique == SelectSeq(IndexesFor(cat, source.id), LAMBDA ix : ix.unique)
      names == IF clause.target # <<>> THEN Ok(clause.target)
               ELSE IF unique = <<>> THEN Err("plan") ELSE Ok(unique[1].cols)
      target == Then(names, LAMBDA ns : MapR(ns, LAMBDA n : ColumnIndex(source.schema, n)))
      c == Context(cat, params, {source.name, "excluded"}, FALSE)
      sets == Assignments(clause.action[2], source.schema, c)
  IN  IF clause.action[1] = "Nothing" THEN Then(target, LAMBDA t : Ok([target |-> t, update |-> None]))
      ELSE Then(Collect(<<target, sets, OptR(clause.action[3], LAMBDA e : LowerExpr(e, c)),
                          Then(sets, LAMBDA ss : MapR(ss, LAMBDA s : BindExpr(s.expr, ConflictScope(source), None)))>>),
                LAMBDA r : Ok([target |-> r[1], update |-> Some([sets |-> r[2], where |-> r[3]])]))

BuildInsert(ins, cat, params) ==
  IF ins.returning \/ ins.source[1] # "Values" THEN Err("plan")
  ELSE Then(ResolveTable(cat, ins.table, None), LAMBDA source :
  LET schema == source.schema
      c == Context(cat, params, {}, FALSE)
      targets == IF ins.cols = <<>> THEN Ok([i \in DOMAIN schema |-> i])
                 ELSE MapR(ins.cols, LAMBDA n : ColumnIndex(schema, n))
      row(exprs) ==
        IF Len(exprs) # Len(targets.val) THEN Err("plan")
        ELSE Then(MapR(exprs, LAMBDA e : LowerExpr(e, c)), LAMBDA xs :
               Ok([i \in DOMAIN schema |->
                     LET at == {j \in DOMAIN targets.val : targets.val[j] = i}
                     IN  IF at = {} THEN DefaultExpr(schema[i])
                         ELSE Coerce(xs[CHOOSE j \in at : \A k \in at : k <= j], schema[i].type)]))
  IN  IF ~targets.ok THEN targets
      ELSE Then(Collect(<<MapR(ins.source[2], row),
                          OptR(ins.conflict, LAMBDA cl : BuildOnConflict(source, cl, cat, params))>>), LAMBDA r :
             Ok(P(<<"Insert", source, r[1], r[2]>>, <<>>))))

\* The scan UPDATE and DELETE read their rows from.
FilteredScan(source, where, c) ==
  Then(OptR(where, LAMBDA e : LowerExpr(e, c)), LAMBDA w :
    LET scan == P(<<"Scan", source, None>>, <<>>)
    IN  Ok(IF w = None THEN scan ELSE P(<<"Filter", w[1]>>, <<scan>>)))

BuildUpdate(upd, cat, params) ==
  IF upd.returning THEN Err("plan")
  ELSE Then(ResolveTable(cat, upd.table, upd.alias), LAMBDA source :
  LET c == Context(cat, params, Qualifiers(source), TRUE)
  IN  Then(Assignments(upd.sets, source.schema, c), LAMBDA sets :
      Then(FilteredScan(source, upd.where, c), LAMBDA input :
        Ok(P(<<"Update", source, sets>>, <<input>>)))))

BuildDelete(del, cat, params) ==
  IF del.returning THEN Err("plan")
  ELSE Then(ResolveTable(cat, del.table, del.alias), LAMBDA source :
       Then(FilteredScan(source, del.where, Context(cat, params, Qualifiers(source), TRUE)), LAMBDA input :
         Ok(P(<<"Delete", source>>, <<input>>))))

BuildCall(call, params) ==
  Then(MapR(call.args, LAMBDA e : LowerExpr(e, Context(<<>>, params, {}, FALSE))), LAMBDA args :
    Ok(P(<<"CallProcedure", call.name, args>>, <<>>)))

\* Planner::build_logical: DDL and transaction control never reach a plan.
BuildLogical(stmt, cat, params) ==
  CASE stmt[1] = "Query" -> BuildSelect(stmt[2], cat, params)
    [] stmt[1] = "Insert" -> BuildInsert(stmt[2], cat, params)
    [] stmt[1] = "Update" -> BuildUpdate(stmt[2], cat, params)
    [] stmt[1] = "Delete" -> BuildDelete(stmt[2], cat, params)
    [] stmt[1] = "Call" -> BuildCall(stmt[2], params)
    [] OTHER -> Err("plan")

----------------------------------------------------------------------------
(* Predicate pushdown.  `pending` holds the conjuncts of the filters above. *)

Materialize(plan, pending) ==
  LET p == CombineConjunction(pending)
  IN  IF p = None THEN plan ELSE P(<<"Filter", p[1]>>, <<plan>>)

\* The side of a join a conjunct belongs to, when it belongs to exactly one.
Side(e, left, right) ==
  LET refs == ToSet(ReferencedColumns(e))
      only(here, there) == /\ \A r \in refs : CanResolve(here, r)
                           /\ \A r \in refs : ~CanResolve(there, r)
  IN  CASE refs = {} -> "Neither"
        [] only(left, right) -> "Left"
        [] only(right, left) -> "Right"
        [] OTHER -> "Neither"

\* Mutant: a conjunct goes to its side although the other side is preserved.
WhereTarget_by_side(side, jt) ==
  IF side \in {"Left", "Right"} THEN side ELSE IF jt \in {"Inner", "Cross"} THEN "On" ELSE "Above"

\* Where a WHERE conjunct above a join of type jt goes, and an ON conjunct.
WhereTarget(side, jt) ==
  CASE side = "Left" /\ ~PreservesRight(jt) -> "Left"
    [] side = "Right" /\ ~PreservesLeft(jt) -> "Right"
    [] jt \in {"Inner", "Cross"} -> "On"
    [] OTHER -> "Above"

OnTarget(side, jt) ==
  CASE side = "Left" /\ ~PreservesLeft(jt) -> "Left"
    [] side = "Right" /\ ~PreservesRight(jt) -> "Right"
    [] OTHER -> "On"

IsTransparent(items) == \A i \in DOMAIN items : Kind(items[i].expr) = "Column"

RECURSIVE PushPredicates(_, _)
PushPredicates(plan, pending) ==
  LET k == PKind(plan)
      into(p) == [plan EXCEPT !.kids = <<PushPredicates(plan.kids[1], p)>>]
      pushJoin ==
        LET l == plan.kids[1]
            r == plan.kids[2]
            jt == plan.op[2]
            on == IF plan.op[3] = None THEN <<>> ELSE SplitConjunction(plan.op[3][1])
            side(e) == Side(e, PlanScope(l), PlanScope(r))
            goes(where) == SelectSeq(pending, LAMBDA e : WhereTarget(side(e), jt) = where)
                             \o SelectSeq(on, LAMBDA e : OnTarget(side(e), jt) = where)
        IN  Materialize(P(<<"Join", jt, CombineConjunction(goes("On"))>>,
                          <<PushPredicates(l, goes("Left")), PushPredicates(r, goes("Right"))>>),
                        goes("Above"))
      barred == Materialize([plan EXCEPT !.kids = <<PushPredicates(plan.kids[1], <<>>),
                                                    PushPredicates(plan.kids[2], <<>>)>>], pending)
  IN  CASE k = "Filter" -> PushPredicates(plan.kids[1], pending \o SplitConjunction(plan.op[2]))
        [] k = "Scan" ->
             LET own == IF plan.op[3] = None THEN <<>> ELSE SplitConjunction(plan.op[3][1])
             IN  P(<<"Scan", plan.op[2], CombineConjunction(own \o pending)>>, <<>>)
        [] k = "Join" -> IF HasScope(plan.kids[1]) /\ HasScope(plan.kids[2]) THEN pushJoin ELSE barred
        [] k = "Projection" -> IF IsTransparent(plan.op[2]) THEN into(pending) ELSE Materialize(into(<<>>), pending)
        [] k \in {"Sort", "Update", "Delete"} -> into(pending)
        [] k \in {"Aggregate", "Distinct", "Limit"} -> Materialize(into(<<>>), pending)
        [] OTHER -> Materialize(plan, pending)

Optimize(plan) == PushPredicates(plan, <<>>)

----------------------------------------------------------------------------
(* Physical plans.                                                         *)

\* Column names become positions; a literal compared with a column takes the
\* column's type.  `cat` is None where a subquery is not allowed.
BindExpr(e, scope, cat) ==
  LET k == Kind(e)
      bound(F(_)) == Then(MapR(e.args, LAMBDA a : BindExpr(a, scope, cat)), F)
      aligned(as) ==
        LET column == CASE Kind(e.args[1]) = "Column" /\ Kind(e.args[2]) = "Literal" -> Some(e.args[1])
                        [] Kind(e.args[1]) = "Literal" /\ Kind(e.args[2]) = "Column" -> Some(e.args[2])
                        [] OTHER -> None
        IN  IF column = None THEN Ok(E(e.op, as))
            ELSE Then(Infer(column[1], scope), LAMBDA t :
                   Ok(E(e.op, <<Coerce(as[1], t.type), Coerce(as[2], t.type)>>)))
      position(i) == Ok(Slot(i))
      subquery(as) == Then(LowerPlan(e.op[2], cat[1]), LAMBDA sub :
        IF Len(sub.scope) # 1 THEN Err("plan") ELSE Ok(E(<<"InSubquery", sub.plan, e.op[3]>>, as)))
  IN  CASE k = "Column" -> Then(Resolve(scope, e.op), position)
        [] k = "Slot" -> IF e.op[2] \in DOMAIN scope THEN Ok(e) ELSE Err("plan")
        [] k = "Literal" -> Ok(e)
        [] k \in ComparisonOps -> bound(aligned)
        [] k = "InSubquery" -> IF cat = None THEN Err("plan") ELSE bound(subquery)
        [] OTHER -> bound(LAMBDA as : Ok(E(e.op, as)))

\* `col = literal` in either order, with the key in the column's type.
IndexEquality(e, scope) ==
  LET sides == IF Kind(e) # "Eq" THEN <<>>
               ELSE IF Kind(e.args[1]) = "Column" /\ Kind(e.args[2]) = "Literal" THEN e.args
               ELSE IF Kind(e.args[1]) = "Literal" /\ Kind(e.args[2]) = "Column" THEN Reverse(e.args)
               ELSE <<>>
  IN  IF sides = <<>> \/ ~CanResolve(scope, sides[1].op) \/ IsNullValue(sides[2].op[2]) THEN None
      ELSE LET i == Resolve(scope, sides[1].op).val
           IN  Some([pos |-> i, key |-> Coerce(sides[2], scope[i].col.type)])

\* A single-column index, the last unique one if there is one, else the last.
PickIndex(indexes, name) ==
  LET usable == SelectSeq(indexes, LAMBDA ix : ix.cols = <<name>>)
      unique == SelectSeq(usable, LAMBDA ix : ix.unique)
  IN  IF unique # <<>> THEN Some(Last(unique)) ELSE IF usable # <<>> THEN Some(Last(usable)) ELSE None

\* The first conjunct an index answers becomes the probe, the others stay a filter.
AccessPath(source, filter, scope, cat) ==
  LET conjuncts == IF filter = None THEN <<>> ELSE SplitConjunction(filter[1])
      probe(i) == IndexEquality(conjuncts[i], scope)
      answers(i) == /\ probe(i) # None
                    /\ PickIndex(IndexesFor(cat, source.id), source.schema[probe(i)[1].pos].name) # None
      hits == SelectSeq([i \in DOMAIN conjuncts |-> i], answers)
      rest == IF hits = <<>> THEN conjuncts ELSE RemoveAt(conjuncts, hits[1])
  IN  Then(OptR(CombineConjunction(rest), LAMBDA e : BindExpr(e, scope, Some(cat))), LAMBDA f :
        Ok(IF hits = <<>> THEN P(<<"SeqScan", source, f>>, <<>>)
           ELSE P(<<"IndexScan", source, probe(hits[1])[1].pos, probe(hits[1])[1].key, f>>, <<>>)))

\* The unique keys a write must respect, as column positions; an index naming
\* a column the table does not have is skipped.
UniqueKeysOf(source, cat) ==
  LET unique == SelectSeq(IndexesFor(cat, source.id), LAMBDA ix : ix.unique)
      cols(ix) == MapR(ix.cols, LAMBDA n : ColumnIndex(source.schema, n))
      known == SelectSeq(unique, LAMBDA ix : cols(ix).ok /\ ix.cols # <<>>)
  IN  [i \in DOMAIN known |-> cols(known[i]).val]

PreservesRowIdentity(p) ==
  LET RECURSIVE scan(_)
      scan(x) == PKind(x) \in {"SeqScan", "IndexScan"} \/ (PKind(x) = "Filter" /\ scan(x.kids[1]))
  IN  scan(p)

\* Planner::lower_plan: the physical plan and the scope of the rows it produces.
LowerPlan(plan, cat) ==
  LET k == PKind(plan)
      done(p, s) == Ok([plan |-> p, scope |-> s])
      lowered(F(_)) == Then(LowerPlan(plan.kids[1], cat), F)
      bindIn(scope, e) == BindExpr(e, scope, Some(cat))
      join(l, r) ==
        LET jt == plan.op[2]
            scope == (IF PreservesRight(jt) THEN Nullable(l.scope) ELSE l.scope)
                       \o (IF PreservesLeft(jt) THEN Nullable(r.scope) ELSE r.scope)
        IN  Then(OptR(plan.op[3], LAMBDA e : bindIn(scope, e)), LAMBDA on :
              done(P(<<"NestedLoopJoin", jt, on, ScopeSchema(scope)>>, <<l.plan, r.plan>>), scope))
      aggregate(in) ==
        LET arg(a) == Then(OptR(a.arg, LAMBDA e : bindIn(in.scope, e)), LAMBDA x : Ok([a EXCEPT !.arg = x]))
        IN  Then(AggregateSchema(plan.op[2], plan.op[3], in.scope), LAMBDA out :
            Then(MapR(plan.op[2], LAMBDA e : bindIn(in.scope, e)), LAMBDA keys :
            Then(MapR(plan.op[3], arg), LAMBDA aggs :
              done(P(<<"Aggregate", keys, aggs, out>>, <<in.plan>>), ForRelation(out, {})))))
      projection(in) ==
        LET item(it) == Then(bindIn(in.scope, it.expr), LAMBDA x : Then(Infer(it.expr, in.scope), LAMBDA t :
                          Ok([expr |-> x, col |-> Column(it.name, t.type, t.nullable)])))
        IN  Then(MapR(plan.op[2], item), LAMBDA xs :
              LET out == [i \in DOMAIN xs |-> xs[i].col]
              IN  done(P(<<"Projection", [i \in DOMAIN xs |-> xs[i].expr], out>>, <<in.plan>>),
                       ForRelation(out, {})))
      sort(in) == Then(MapR(plan.op[2], LAMBDA key : Then(bindIn(in.scope, key.expr), LAMBDA x :
                         Ok([key EXCEPT !.expr = x]))), LAMBDA keys :
                    done(P(<<"Sort", keys>>, <<in.plan>>), in.scope))
      \* bind_on_conflict: the expressions over the existing and the excluded row.
      conflict(source, cl) ==
        LET bindAll(u) ==
              Then(MapR(u.sets, LAMBDA s : Then(BindExpr(s.expr, ConflictScope(source), None), LAMBDA x :
                          Ok([s EXCEPT !.expr = x]))), LAMBDA sets :
              Then(OptR(u.where, LAMBDA e : BindExpr(e, ConflictScope(source), None)), LAMBDA w :
                Ok([sets |-> sets, where |-> w])))
        IN  Then(OptR(cl.update, bindAll), LAMBDA u : Ok([cl EXCEPT !.update = u]))
      insert(source) ==
        Then(MapR(plan.op[3], LAMBDA row : MapR(row, LAMBDA e : BindExpr(e, <<>>, None))), LAMBDA rows :
        Then(OptR(plan.op[4], LAMBDA cl : conflict(source, cl)), LAMBDA oc :
          done(P(<<"Insert", source, rows, oc, UniqueKeysOf(source, cat)>>, <<>>), <<>>)))
      identified(in, F(_)) == IF PreservesRowIdentity(in.plan) THEN F(in) ELSE Err("plan")
      update(in) ==
        LET source == plan.op[2]
            scope == ForRelation(source.schema, Qualifiers(source))
        IN  Then(MapR(plan.op[3], LAMBDA s : Then(BindExpr(s.expr, scope, None), LAMBDA x :
                        Ok([s EXCEPT !.expr = x]))), LAMBDA sets :
              done(P(<<"Update", source, sets, UniqueKeysOf(source, cat)>>, <<in.plan>>), <<>>))
  IN  CASE k = "Scan" ->
             LET scope == ForRelation(plan.op[2].schema, Qualifiers(plan.op[2]))
             IN  Then(AccessPath(plan.op[2], plan.op[3], scope, cat), LAMBDA p : done(p, scope))
        [] k = "Join" -> lowered(LAMBDA l : Then(LowerPlan(plan.kids[2], cat), LAMBDA r : join(l, r)))
        [] k = "Filter" -> lowered(LAMBDA in : Then(bindIn(in.scope, plan.op[2]), LAMBDA x :
                             done(P(<<"Filter", x>>, <<in.plan>>), in.scope)))
        [] k = "Aggregate" -> lowered(aggregate)
        [] k = "Projection" -> lowered(projection)
        [] k = "Sort" -> lowered(sort)
        [] k \in {"Distinct", "Limit"} -> lowered(LAMBDA in : done(P(plan.op, <<in.plan>>), in.scope))
        [] k = "Insert" -> insert(plan.op[2])
        [] k = "Update" -> lowered(LAMBDA in : identified(in, update))
        [] k = "Delete" -> lowered(LAMBDA in : identified(in, LAMBDA x : done(P(plan.op, <<x.plan>>), <<>>)))
        [] k = "CallProcedure" -> Then(MapR(plan.op[3], LAMBDA e : BindExpr(e, <<>>, None)), LAMBDA args :
                                    done(P(<<"CallProcedure", plan.op[2], args>>, <<>>), <<>>))

\* Planner::plan: build, optimize, lower.
PlanStatement(stmt, cat, params) ==
  Then(BuildLogical(stmt, cat, params), LAMBDA logical :
    Then(LowerPlan(Optimize(logical), cat), LAMBDA p : Ok(p.plan)))
============================================================================
