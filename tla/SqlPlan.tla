------------------------------ MODULE SqlPlan ------------------------------
(***************************************************************************)
(* ferrite-planner: from a parsed statement to an executable plan.         *)
(*   lower.rs    parsed expressions to the planner's own (LowerExpr)       *)
(*   planner.rs  statement to logical plan (Build...), logical plan to     *)
(*               physical plan (LowerPlan, AccessPath)                     *)
(*   rules.rs    predicate pushdown (Optimize)                             *)
(*   physical.rs column references to positions (BindExpr) and the type    *)
(*               of an expression (Infer)                                  *)
(*                                                                         *)
(* Expressions of all three stages are [op |-> <<tag, ...>>, args |-> the  *)
(* operand expressions in evaluation order], plans are [op |-> <<tag,      *)
(* ...>>, kids |-> the input plans]; an absent option is <<>>.  Positions  *)
(* count from 1.                                                           *)
(***************************************************************************)
EXTENDS SqlValues, FiniteSets

E(op, args) == [op |-> op, args |-> args]

Kind(e) == e.op[1]

Lit(v) == E(<<"Literal", v>>, <<>>)

Col(q, n) == E(<<"Column", q, n>>, <<>>)

Slot(i) == E(<<"Slot", i>>, <<>>)

Bin(op, l, r) == E(<<op>>, <<l, r>>)

Not(e) == E(<<"Not">>, <<e>>)

P(op, kids) == [op |-> op, kids |-> kids]

PKind(p) == p.op[1]

\* A sequence of results, one per element.
MapR(s, F(_)) == Collect([i \in DOMAIN s |-> F(s[i])])

OptR(o, F(_)) == Collect([i \in DOMAIN o |-> F(o[i])])

ComparisonOps == {"Eq", "NotEq", "Lt", "LtEq", "Gt", "GtEq"}

ArithmeticOps == {"Plus", "Minus", "Multiply", "Divide", "Modulo", "Concat"}

AggregateFuncs == {"count", "sum", "avg", "min", "max"}

----------------------------------------------------------------------------
(* Scopes: the columns of a row in order, with the relation names each     *)
(* answers to.                                                             *)

ForRelation(schema, quals) == [i \in DOMAIN schema |-> [quals |-> quals, col |-> schema[i]]]

\* Mutant: the padded side of an outer join keeps its NOT NULL.
Nullable_unchanged(scope) == scope

Nullable(scope) == [i \in DOMAIN scope |-> [scope[i] EXCEPT !.col.nullable = TRUE]]

ScopeSchema(scope) == [i \in DOMAIN scope |-> scope[i].col]

\* The positions a reference <<"Column", qualifier, name>> could bind to.
Candidates(scope, ref) ==
  {i \in DOMAIN scope : /\ scope[i].col.name = ref[3]
                        /\ \A j \in DOMAIN ref[2] : ref[2][j] \in scope[i].quals}

CanResolve(scope, ref) == Cardinality(Candidates(scope, ref)) = 1

Resolve(scope, ref) ==
  CASE CanResolve(scope, ref) -> Ok(CHOOSE i \in Candidates(scope, ref) : TRUE)
    [] Candidates(scope, ref) = {} -> Err("column")
    [] OTHER -> Err("plan")

\* What `t.*` expands to.
PositionsFor(scope, q) == SelectSeq([i \in DOMAIN scope |-> i], LAMBDA i : q \in scope[i].quals)

----------------------------------------------------------------------------
(* Expressions.                                                            *)

\* Every column reference in an expression, in order.
RECURSIVE ReferencedColumns(_)
ReferencedColumns(e) ==
  IF Kind(e) = "Column" THEN <<e.op>>
  ELSE FlattenSeq([i \in DOMAIN e.args |-> ReferencedColumns(e.args[i])])

RECURSIVE SplitConjunction(_)
SplitConjunction(e) ==
  IF Kind(e) = "And" THEN SplitConjunction(e.args[1]) \o SplitConjunction(e.args[2]) ELSE <<e>>

\* None for no predicate at all, else the predicates chained with AND.
CombineConjunction(preds) ==
  IF preds = <<>> THEN None
  ELSE Some(FoldLeft(LAMBDA acc, p : Bin("And", acc, p), Head(preds), Tail(preds)))

\* Mutant: one level for each operand.
Balanced_as_chain(op, operands) == FoldLeft(LAMBDA l, r : Bin(op, l, r), Head(operands), Tail(operands))

\* Pair up neighbours until one is left: n operands make a tree of height log n.
RECURSIVE Balanced(_, _)
Balanced(op, operands) ==
  IF Len(operands) = 1 THEN operands[1]
  ELSE Balanced(op, [i \in 1 .. (Len(operands) + 1) \div 2 |->
                       IF 2 * i <= Len(operands) THEN Bin(op, operands[2 * i - 1], operands[2 * i])
                       ELSE operands[2 * i - 1]])

BalancedOr(tests) == Balanced("Or", tests)

\* Literal::Int takes the narrowest type that fits.
ValueOf(literal) ==
  IF literal[1] = "Int"
  THEN IF Fits(Int4Bits, literal[2]) THEN Int4(literal[2]) ELSE Int8(literal[2])
  ELSE literal

\* Unary minus on a literal: -i32::MIN and -i64::MIN do not fit, and the
\* code negates without a check.
Negate(v) ==
  CASE TypeOf(v) \in {"Int4", "Int8"} ->
         IF Fits(IF TypeOf(v) = "Int4" THEN Int4Bits ELSE Int8Bits, -v[2])
         THEN Ok(<<v[1], -v[2]>>) ELSE Ok(v)
    [] TypeOf(v) = "Float8" -> Ok(Float8(-v[2][1], v[2][2]))
    [] OTHER -> Err("plan")

\* Coerce a literal to the type of the column it meets; anything else is left alone.
Coerce(e, target) ==
  IF Kind(e) # "Literal" THEN e
  ELSE LET v == e.op[2]
       IN  CASE TypeOf(v) = "Text" /\ target = "Json" -> Lit(Json(v[2]))
             [] TypeOf(v) = "Int4" /\ target = "Int8" -> Lit(Int8(v[2]))
             [] TypeOf(v) \in {"Int4", "Int8"} /\ target = "Float8" -> Lit(Float8(v[2], 1))
             [] OTHER -> e

\* An explicit COLLATE NOCASE on a parsed operand.
FoldsCase(e) == Kind(e) = "Collate" /\ e.op[2] = "nocase"

FoldCase(e) == IF e.op = <<"Function", "nocase">> THEN e ELSE E(<<"Function", "nocase">>, <<e>>)

Collations == {"nocase", "binary"}

\* Every aggregate call in a parsed expression, in pre-order; subqueries are not entered.
RECURSIVE AggregateCalls(_)
AggregateCalls(e) ==
  (IF Kind(e) = "Call" /\ e.op[2] \in AggregateFuncs THEN <<e>> ELSE <<>>)
    \o FlattenSeq([i \in DOMAIN e.args |-> AggregateCalls(e.args[i])])

ContainsAggregate(e) == AggregateCalls(e) # <<>>

\* collect_aggregates over several expressions: each distinct call once, in
\* order of appearance; an aggregate inside an aggregate is refused.
CollectAggregates(es) ==
  LET calls == FlattenSeq([i \in DOMAIN es |-> AggregateCalls(es[i])])
      nested == \E i \in DOMAIN calls : \E j \in DOMAIN calls[i].args :
                  ContainsAggregate(calls[i].args[j])
      firsts == SelectSeq([i \in DOMAIN calls |-> i],
                          LAMBDA i : \A j \in 1 .. i - 1 : calls[j] # calls[i])
  IN  IF nested THEN Err("plan") ELSE Ok([i \in DOMAIN firsts |-> calls[firsts[i]]])

\* Replace every subtree equal to a group key by the slot that holds it.
RECURSIVE SubstituteGroupKeys(_, _)
SubstituteGroupKeys(e, keys) ==
  IF \E i \in DOMAIN keys : keys[i] = e
  THEN Slot(CHOOSE i \in DOMAIN keys : keys[i] = e /\ \A j \in 1 .. i - 1 : keys[j] # e)
  ELSE IF Kind(e) = "InSubquery" THEN e
  ELSE [e EXCEPT !.args = [i \in DOMAIN e.args |-> SubstituteGroupKeys(e.args[i], keys)]]

RejectUngrouped(e) == IF ReferencedColumns(e) = <<>> THEN Ok(e) ELSE Err("plan")

----------------------------------------------------------------------------
(* Types.  Infer gives the column type and nullability of an expression.   *)

Rank(t) == CASE t = "Int4" -> 0 [] t = "Int8" -> 1 [] t = "Float8" -> 2 [] OTHER -> -1

NumericResult(l, r) ==
  IF Rank(l) < 0 \/ Rank(r) < 0 THEN Err("plan") ELSE Ok(IF Rank(l) >= Rank(r) THEN l ELSE r)

Typed(t, nullable) == [type |-> t, nullable |-> nullable]

\* The results of a CASE: the THEN operands, and the ELSE operand if any.
CaseThens(e) ==
  LET first == IF e.op[2] THEN 2 ELSE 1
      last == IF e.op[3] THEN Len(e.args) - 1 ELSE Len(e.args)
  IN  SelectSeq([i \in DOMAIN e.args |-> i],
                LAMBDA i : i \in first .. last /\ (i - first) % 2 = 1)

RECURSIVE Infer(_, _)
Infer(e, scope) ==
  LET at(i) == IF i \in DOMAIN scope THEN Ok(Typed(scope[i].col.type, scope[i].col.nullable))
               ELSE Err("plan")
      all == MapR(e.args, LAMBDA a : Infer(a, scope))
      call(ts) ==
        Typed(IF e.op[2] \in {"coalesce", "nocase"} THEN ts[1].type ELSE "Text",
              IF e.op[2] = "coalesce" THEN \A i \in DOMAIN ts : ts[i].nullable
              ELSE \E i \in DOMAIN ts : ts[i].nullable)
      arith(ts) ==
        IF Kind(e) = "Concat" THEN Ok(Typed("Text", ts[1].nullable \/ ts[2].nullable))
        ELSE Then(NumericResult(ts[1].type, ts[2].type),
                  LAMBDA t : Ok(Typed(t, ts[1].nullable \/ ts[2].nullable)))
      caseType ==
        LET thens == MapR(CaseThens(e), LAMBDA i : Infer(e.args[i], scope))
            other == IF e.op[3] THEN Infer(Last(e.args), scope) ELSE Ok(Typed("Text", TRUE))
        IN  Then(thens, LAMBDA ts : Then(other, LAMBDA o :
              Ok(Typed(ts[1].type, o.nullable \/ \E i \in DOMAIN ts : ts[i].nullable))))
  IN  CASE Kind(e) = "Column" -> Then(Resolve(scope, e.op), at)
        [] Kind(e) = "Slot" -> at(e.op[2])
        [] Kind(e) = "Literal" ->
             Ok(Typed(IF IsNullValue(e.op[2]) THEN "Text" ELSE TypeOf(e.op[2]), IsNullValue(e.op[2])))
        [] Kind(e) = "Cast" -> Ok(Typed(e.op[2], TRUE))
        [] Kind(e) = "Function" -> Then(all, LAMBDA ts : Ok(call(ts)))
        [] Kind(e) = "Case" -> caseType
        [] Kind(e) \in ArithmeticOps -> Then(all, arith)
        [] OTHER -> Ok(Typed("Boolean", TRUE))

Column(name, t, nullable) == [name |-> name, type |-> t, nullable |-> nullable, default |-> None]

\* The column an aggregate [func, arg, distinct] produces over its argument's type.
AggregateColumn(func, arg) ==
  CASE func = "count" -> Ok(Column(func, "Int8", FALSE))
    [] func = "avg" /\ arg # None /\ Rank(arg[1].type) >= 0 -> Ok(Column(func, "Float8", TRUE))
    [] func = "sum" /\ arg # None /\ arg[1].type \in {"Int4", "Int8"} -> Ok(Column(func, "Int8", TRUE))
    [] func = "sum" /\ arg # None /\ arg[1].type = "Float8" -> Ok(Column(func, "Float8", TRUE))
    [] func \in {"min", "max"} /\ arg # None -> Ok(Column(func, arg[1].type, TRUE))
    [] OTHER -> Err("plan")

\* The row an Aggregate node produces: the group keys, then the aggregates.
AggregateSchema(keys, aggs, scope) ==
  LET key(k) == Then(Infer(k, scope), LAMBDA t :
                  Ok(Column(IF Kind(k) = "Column" THEN k.op[3] ELSE "?column?", t.type, t.nullable)))
      agg(a) == Then(OptR(a.arg, LAMBDA x : Infer(x, scope)), LAMBDA t : AggregateColumn(a.func, t))
  IN  Then(MapR(keys, key), LAMBDA ks : Then(MapR(aggs, agg), LAMBDA as : Ok(ks \o as)))

----------------------------------------------------------------------------
(* Logical plans.                                                          *)

PreservesLeft(jt) == jt \in {"Left", "Full"}

PreservesRight(jt) == jt \in {"Right", "Full"}

Qualifiers(source) == {source.name} \cup ToSet(source.alias)

\* The names a predicate directly above a FROM tree may use.
RECURSIVE PlanScope(_)
PlanScope(p) ==
  CASE PKind(p) = "Scan" -> ForRelation(p.op[2].schema, Qualifiers(p.op[2]))
    [] PKind(p) = "Join" ->
         (IF PreservesRight(p.op[2]) THEN Nullable(PlanScope(p.kids[1])) ELSE PlanScope(p.kids[1]))
           \o (IF PreservesLeft(p.op[2]) THEN Nullable(PlanScope(p.kids[2])) ELSE PlanScope(p.kids[2]))
    [] PKind(p) \in {"Filter", "Sort", "Distinct", "Limit"} -> PlanScope(p.kids[1])

\* The FROM trees, which are the plans that have a scope.
HasScope(p) == PKind(p) \in {"Scan", "Join", "Filter", "Sort", "Distinct", "Limit"}

\* Parsed table names resolve in the catalog `cat`.
ResolveTable(cat, name, alias) ==
  IF name \in DOMAIN cat.tables
  THEN Ok([id |-> cat.tables[name].id, name |-> name, alias |-> alias,
           schema |-> cat.tables[name].schema])
  ELSE Err("table")

ColumnIndex(schema, name) ==
  IF \E i \in DOMAIN schema : schema[i].name = name
  THEN Ok(CHOOSE i \in DOMAIN schema : schema[i].name = name)
  ELSE Err("column")

\* The collating order of the index names used.
IndexNames == <<"a1", "a_key0", "as1", "aw", "c_key0">>

\* Every index on a table, sorted by name.
IndexesFor(cat, id) ==
  LET rank(ix) == CHOOSE i \in DOMAIN IndexNames : IndexNames[i] = ix.name
  IN  SortSeq(cat.indexes[id], LAMBDA x, y : rank(x) < rank(y))
============================================================================
