---------------------------- MODULE SqlMeaning ----------------------------
(***************************************************************************)
(* What a statement means, read off the parsed statement: the reference    *)
(* the planner and the executor are checked against.  Nothing of it is     *)
(* taken from them.  Names are looked up in the row they belong to, a FROM *)
(* clause is a product of tables, WHERE selects from all of it, IN is      *)
(* membership, an aggregate is a function of the values of its group, and  *)
(* a row padded by an outer join has a NULL for every column of the table  *)
(* that is missing.                                                        *)
(*                                                                         *)
(* A row is a sequence of cells [quals, name, val].  `w`, the world, is    *)
(* [cat, rows, params].  Operands are all evaluated (only CASE is lazy),   *)
(* so a statement that may fail has no meaning here and none is checked.   *)
(***************************************************************************)
EXTENDS SqlParser

----------------------------------------------------------------------------
(* How an expression is written: parentheses only where the precedence of  *)
(* the operators needs them.                                               *)

Strength(e) ==
  LET k == Kind(e)
  IN  CASE k = "Or" -> 1
        [] k = "And" -> 2
        [] k = "Not" -> 3
        [] k \in {"IsNull", "Between", "InList", "Like"} -> 4
        [] k \in ComparisonOps -> 5
        [] k = "Concat" -> 6
        [] k \in {"Plus", "Minus"} -> 7
        [] k \in {"Multiply", "Divide", "Modulo", "UnaryMinus"} -> 8
        [] k = "Collate" -> 9
        [] OTHER -> 10

SymbolOf(k) == CHOOSE s \in DOMAIN BinarySymbols : BinarySymbols[s] = k

\* The tokens of e where only operators stronger than `min` may stand bare.
RECURSIVE Written(_, _)
Written(e, min) ==
  LET k == Kind(e)
      p == Strength(e)
      a(i, m) == Written(e.args[i], m)
      no(flag) == IF flag THEN <<K("not")>> ELSE <<>>
      listed == FlattenSeq([i \in 1 .. Len(e.args) - 1 |->
                  (IF i > 1 THEN <<Sym(",")>> ELSE <<>>) \o Written(e.args[i + 1], 0)])
      bare ==
        CASE k = "Literal" ->
              (CASE e.op[2] = Null -> <<K("null")>>
                 [] e.op[2][1] = "Boolean" -> <<K(IF e.op[2][2] THEN "true" ELSE "false")>>
                 [] e.op[2][1] = "Int" -> <<Number(e.op[2][2])>>
                 [] e.op[2][1] = "Text" -> <<StringLit(e.op[2][2])>>)
          [] k = "Column" -> FlattenSeq([i \in DOMAIN e.op[2] |-> <<Ident(e.op[2][i]), Sym(".")>>]) \o <<Ident(e.op[3])>>
          [] k \in {"And", "Or"} -> a(1, p - 1) \o <<K(IF k = "And" THEN "and" ELSE "or")>> \o a(2, p)
          [] k = "Not" -> <<K("not")>> \o a(1, p)
          [] k = "UnaryMinus" -> <<Sym("-")>> \o a(1, p)
          [] k = "IsNull" -> a(1, p - 1) \o <<K("is")>> \o no(e.op[2]) \o <<K("null")>>
          [] k = "Between" -> a(1, p - 1) \o no(e.op[2]) \o <<K("between")>> \o a(2, 5) \o <<K("and")>> \o a(3, 5)
          [] k = "InList" -> a(1, p - 1) \o no(e.op[2]) \o <<K("in"), Sym("(")>> \o listed \o <<Sym(")")>>
          [] k = "Like" -> a(1, p - 1) \o no(e.op[2]) \o <<K(IF e.op[3] THEN "ilike" ELSE "like")>> \o a(2, p)
          [] k = "Collate" -> a(1, p - 1) \o <<K("collate"), Ident(e.op[2])>>
          [] OTHER -> a(1, p - 1) \o <<Sym(SymbolOf(k))>> \o a(2, p)
  IN  IF p <= min THEN <<Sym("(")>> \o bare \o <<Sym(")")>> ELSE bare

\* Chains of AND and of OR are the same however they associate.
RECURSIVE Flattened(_)
Flattened(e) ==
  LET parts == [i \in DOMAIN e.args |-> Flattened(e.args[i])]
      spread(x) == IF x.op = e.op THEN x.args ELSE <<x>>
  IN  IF Kind(e) \in {"And", "Or"} THEN E(e.op, spread(parts[1]) \o spread(parts[2])) ELSE E(e.op, parts)

RECURSIVE Height(_)
Height(e) ==
  LET hs == {Height(e.args[i]) : i \in DOMAIN e.args}
  IN  IF hs = {} THEN 1 ELSE 1 + CHOOSE h \in hs : \A g \in hs : g <= h

----------------------------------------------------------------------------
(* Conditions and values.                                                  *)

\* % is any text, _ any character, \ takes the next character literally (at
\* the end of the pattern it matches nothing).
RECURSIVE LikeMeans(_, _)
LikeMeans(text, pattern) ==
  IF pattern = <<>> THEN text = <<>>
  ELSE CASE pattern[1] = "%" -> \E n \in 0 .. Len(text) : LikeMeans(Drop(text, n), Tail(pattern))
         [] pattern[1] = "_" -> text # <<>> /\ LikeMeans(Tail(text), Tail(pattern))
         [] pattern[1] = "\\" -> /\ Len(pattern) > 1 /\ text # <<>> /\ text[1] = pattern[2]
                                 /\ LikeMeans(Tail(text), Drop(pattern, 2))
         [] OTHER -> text # <<>> /\ text[1] = pattern[1] /\ LikeMeans(Tail(text), Tail(pattern))

Truths == <<Bool(FALSE), Null, Bool(TRUE)>>

TruthRank(v) == CHOOSE i \in DOMAIN Truths : Truths[i] = v

\* AND is the lesser and OR the greater of FALSE < NULL < TRUE.
Conjunction(vs) == Truths[CHOOSE r \in 1 .. 3 : /\ \E i \in DOMAIN vs : TruthRank(vs[i]) = r
                                                /\ \A i \in DOMAIN vs : TruthRank(vs[i]) >= r]

Opposite(v) == Truths[4 - TruthRank(v)]

Disjunction(vs) == Opposite(Conjunction([i \in DOMAIN vs |-> Opposite(vs[i])]))

Negated(flag, v) == IF flag THEN Opposite(v) ELSE v

Relates(op, l, r) == Then(Compare(l, r), LAMBDA c : Ok(IF c = None THEN Null ELSE Bool(Matches(op, c[1]))))

Member(v, others) ==
  IF others = <<>> THEN Ok(Bool(FALSE))
  ELSE Then(MapR(others, LAMBDA o : Relates("Eq", v, o)), LAMBDA ts : Ok(Disjunction(ts)))

Cells(row, q, n) == {i \in DOMAIN row : row[i].name = n /\ \A j \in DOMAIN q : q[j] \in row[i].quals}

\* An aggregate of the values its argument takes in the group; count(*) counts rows.
AggregateOf(func, distinct, values) ==
  LET present == SelectSeq(values, LAMBDA v : ~IsNullValue(v))
      firsts == SelectSeq([i \in DOMAIN present |-> i], LAMBDA i : \A j \in 1 .. i - 1 : present[j] # present[i])
      vs == IF distinct THEN [i \in DOMAIN firsts |-> present[firsts[i]]] ELSE present
      isFloat == \E i \in DOMAIN vs : TypeOf(vs[i]) = "Float8"
      total == FoldLeft(LAMBDA acc, v : FloatOp("Plus", acc, AsFloat(v)).val, <<0, 1>>, vs)
      beats(v, u) == Compare(v, u).val[1] = (IF func = "min" THEN -1 ELSE 1)
  IN  CASE func = "count" -> Ok(Int8(Len(vs)))
        [] vs = <<>> -> Ok(Null)
        [] func \in {"min", "max"} ->
             Ok(vs[CHOOSE i \in DOMAIN vs : /\ \A j \in DOMAIN vs : ~beats(vs[j], vs[i])
                                            /\ \A j \in 1 .. i - 1 : beats(vs[i], vs[j])])
        [] \E i \in DOMAIN vs : ~IsNumber(vs[i]) -> Err("type")
        [] func = "sum" -> IF isFloat THEN Ok(<<"Float8", total>>)
                           ELSE IF Fits(Int8Bits, total[1]) THEN Ok(Int8(total[1])) ELSE Err("overflow")
        [] func = "avg" -> Ok(<<"Float8", FloatOp("Divide", total, <<Len(vs), 1>>).val>>)

\* Expressions and queries contain each other: Means gives the value of an
\* expression, and the rows of a query made into one.
RECURSIVE Means(_, _, _, _)

MeaningOfQuery(q, w) == Means(E(<<"Query", q>>, <<>>), <<>>, None, w)

\* The rows for which a condition, if there is one, is true.
Where(rows, condition, w) ==
  IF condition = None THEN Ok(rows)
  ELSE Then(MapR(rows, LAMBDA r : Means(condition[1], r, None, w)), LAMBDA vs :
         LET at == SelectSeq([i \in DOMAIN rows |-> i], LAMBDA i : vs[i] = Bool(TRUE))
         IN  Ok([i \in DOMAIN at |-> rows[at[i]]]))

----------------------------------------------------------------------------
(* Queries.                                                                *)

\* The cells of a stored row; a column added after it was written has its default.
Row(schema, stored, quals) ==
  [i \in DOMAIN schema |->
     [quals |-> quals, name |-> schema[i].name,
      val |-> IF i <= Len(stored) THEN stored[i] ELSE IF schema[i].default = None THEN Null ELSE schema[i].default[1]]]

\* A relation is [shape: a row of NULLs, rows].
Relation(factor, w) ==
  IF factor[1] # "Table" \/ factor[2] \notin DOMAIN w.cat.tables THEN Err("plan")
  ELSE LET table == w.cat.tables[factor[2]]
           quals == {factor[2]} \cup ToSet(factor[3])
           stored == w.rows[table.id]
       IN  Ok([shape |-> Row([i \in DOMAIN table.schema |-> [table.schema[i] EXCEPT !.default = None]], <<>>, quals),
               rows |-> [i \in DOMAIN stored |-> Row(table.schema, stored[i].row, quals)]])

\* The pairs of rows that meet the condition, and the preserved rows that meet none.
Joined(l, r, join, w) ==
  LET equal(n, a, b) == Means(Bin("Eq", Col(Some("l"), n), Col(Some("r"), n)),
                              [i \in DOMAIN a |-> [a[i] EXCEPT !.quals = {"l"}]]
                                \o [i \in DOMAIN b |-> [b[i] EXCEPT !.quals = {"r"}]], None, w)
      condition(a, b) ==
        CASE join.on[1] = "None" -> Ok(Bool(TRUE))
          [] join.on[1] = "On" -> Means(join.on[2], a \o b, None, w)
          [] join.on[1] = "Using" -> Then(MapR(join.on[2], LAMBDA n : equal(n, a, b)), LAMBDA ts : Ok(Conjunction(ts)))
  IN  Then(MapR(l.rows, LAMBDA a : MapR(r.rows, LAMBDA b : condition(a, b))), LAMBDA m :
        LET meets(i) == SelectSeq([j \in DOMAIN r.rows |-> j], LAMBDA j : m[i][j] = Bool(TRUE))
            pairs(i) == IF meets(i) = <<>> /\ join.type \in {"Left", "Full"} THEN <<l.rows[i] \o r.shape>>
                        ELSE [h \in DOMAIN meets(i) |-> l.rows[i] \o r.rows[meets(i)[h]]]
            alone == SelectSeq([j \in DOMAIN r.rows |-> j], LAMBDA j :
                       join.type \in {"Right", "Full"} /\ \A i \in DOMAIN l.rows : m[i][j] # Bool(TRUE))
        IN  Ok([shape |-> l.shape \o r.shape,
                rows |-> FlattenSeq([i \in DOMAIN l.rows |-> pairs(i)])
                           \o [h \in DOMAIN alone |-> l.shape \o r.rows[alone[h]]]]))

Source(from, w) ==
  LET cross == [type |-> "Cross", on |-> <<"None">>]
      step(acc, join) == Then(acc, LAMBDA l : Then(Relation(join.rel, w), LAMBDA r : Joined(l, r, join, w)))
      item(it) == FoldLeft(step, Relation(it.rel, w), it.joins)
      unit == [shape |-> <<>>, rows |-> <<<<>>>>]
  IN  IF from = <<>> THEN Err("plan")
      ELSE FoldLeft(LAMBDA acc, it : Then(acc, LAMBDA l : Then(item(it), LAMBDA r : Joined(l, r, cross, w))),
                    Ok(unit), from)

\* Whether key sequence a sorts before b: the first key that differs decides.
Before(a, b, order) ==
  LET nullsFirst(i) == IF order[i].nulls = None THEN ~order[i].asc ELSE order[i].nulls[1]
      earlier(i, u, v) == CASE IsNullValue(u) -> nullsFirst(i)
                            [] IsNullValue(v) -> ~nullsFirst(i)
                            [] OTHER -> Compare(u, v).val = Some(IF order[i].asc THEN -1 ELSE 1)
      differ == {i \in DOMAIN order : a[i] # b[i]}
  IN  /\ differ # {}
      /\ LET i == CHOOSE x \in differ : \A y \in differ : x <= y IN earlier(i, a[i], b[i])

\* Repeatedly the first of the least.
RECURSIVE Sorted(_, _)
Sorted(items, order) ==
  IF items = <<>> THEN <<>>
  ELSE LET least == CHOOSE i \in DOMAIN items :
                      /\ \A j \in DOMAIN items : ~Before(items[j].keys, items[i].keys, order)
                      /\ \A j \in 1 .. i - 1 : Before(items[i].keys, items[j].keys, order)
       IN  <<items[least]>> \o Sorted(RemoveAt(items, least), order)

Sliced(rows, limit, offset, w) ==
  LET count(opt, default) == IF opt = None THEN Ok(default)
                             ELSE Then(Means(opt[1], <<>>, None, w), LAMBDA v :
                                    IF IsNullValue(v) THEN Ok(default) ELSE IF v[2] < 0 THEN Err("plan") ELSE Ok(v[2]))
  IN  Then(count(offset, 0), LAMBDA skip : Then(count(limit, Len(rows)), LAMBDA n :
        Ok(SelectSeq([i \in DOMAIN rows |-> [at |-> i, row |-> rows[i]]],
                     LAMBDA x : x.at > skip /\ x.at <= skip + n))))

\* One row per group, then HAVING, ORDER BY, the select list, DISTINCT and LIMIT.
MeaningOfSelect(sel, q, w) ==
  LET listed == SelectSeq(sel.items, LAMBDA it : it[1] = "Expr")
      aliased(n) == SelectSeq(listed, LAMBDA it : it[3] = Some(n) \/ (it[3] = None /\ Kind(it[2]) = "Column" /\ it[2].op[3] = n))
      aggregated == \/ sel.group # <<>> \/ sel.having # None
                    \/ \E i \in DOMAIN listed : ContainsAggregate(listed[i][2])
                    \/ \E i \in DOMAIN q.order : ContainsAggregate(q.order[i].expr)
      \* A name in GROUP BY that is no column of the tables, and any name or
      \* ordinal in ORDER BY that the select list has, stands for the listed expression.
      groupKey(e, shape) == IF Kind(e) = "Column" /\ e.op[2] = None /\ Cells(shape, <<>>, e.op[3]) = {} /\ aliased(e.op[3]) # <<>>
                            THEN aliased(e.op[3])[1][2] ELSE e
      orderKey(e) == CASE Kind(e) = "Literal" /\ e.op[2][1] = "Int" ->
                            IF e.op[2][2] \in DOMAIN listed /\ listed = sel.items THEN listed[e.op[2][2]][2] ELSE e
                       [] Kind(e) = "Column" /\ e.op[2] = None /\ aliased(e.op[3]) # <<>> -> aliased(e.op[3])[1][2]
                       [] OTHER -> e
      groups(src) ==
        IF ~aggregated THEN Ok([i \in DOMAIN src.rows |-> [row |-> src.rows[i], members |-> None]])
        ELSE Then(MapR(src.rows, LAMBDA r : MapR(sel.group, LAMBDA e : Means(groupKey(e, src.shape), r, None, w))), LAMBDA ks :
               LET heads == SelectSeq([i \in DOMAIN ks |-> i], LAMBDA i : \A j \in 1 .. i - 1 : ks[j] # ks[i])
                   of(i) == LET at == SelectSeq([j \in DOMAIN ks |-> j], LAMBDA j : ks[j] = ks[i])
                            IN  [j \in DOMAIN at |-> src.rows[at[j]]]
               IN  Ok(IF src.rows = <<>> /\ sel.group = <<>> THEN <<[row |-> src.shape, members |-> Some(<<>>)]>>
                      ELSE [h \in DOMAIN heads |-> [row |-> src.rows[heads[h]], members |-> Some(of(heads[h]))]]))
      foldKey(e, v) == IF FoldsCase(e) /\ TypeOf(v) = "Text" THEN Text(ToLowercase(v[2])) ELSE v
      cells(it, g) ==
        CASE it[1] = "Star" -> Ok([i \in DOMAIN g.row |-> g.row[i].val])
          [] it[1] = "QualStar" -> LET mine == SelectSeq(g.row, LAMBDA x : it[2] \in x.quals)
                                   IN  Ok([i \in DOMAIN mine |-> mine[i].val])
          [] it[1] = "Expr" -> Then(Means(it[2], g.row, g.members, w), LAMBDA v : Ok(<<v>>))
      output(g) == Then(MapR(q.order, LAMBDA o : Then(Means(orderKey(o.expr), g.row, g.members, w), LAMBDA v :
                               Ok(foldKey(orderKey(o.expr), v)))), LAMBDA keys :
                   Then(MapR(sel.items, LAMBDA it : cells(it, g)), LAMBDA vs :
                     Ok([keys |-> keys, row |-> FlattenSeq(vs)])))
      having(gs) == IF sel.having = None THEN Ok(gs)
                    ELSE Then(MapR(gs, LAMBDA g : Means(sel.having[1], g.row, g.members, w)), LAMBDA ts :
                           LET at == SelectSeq([i \in DOMAIN gs |-> i], LAMBDA i : ts[i] = Bool(TRUE))
                           IN  Ok([i \in DOMAIN at |-> gs[at[i]]]))
      distinct(rows) == IF ~sel.distinct THEN rows
                        ELSE LET at == SelectSeq([i \in DOMAIN rows |-> i], LAMBDA i : \A j \in 1 .. i - 1 : rows[j] # rows[i])
                             IN  [i \in DOMAIN at |-> rows[at[i]]]
      rowsOf(items) == [i \in DOMAIN items |-> items[i].row]
  IN  Then(Source(sel.from, w), LAMBDA src :
      Then(Where(src.rows, sel.where, w), LAMBDA kept :
      Then(groups([src EXCEPT !.rows = kept]), LAMBDA gs :
      Then(having(gs), LAMBDA hs :
      Then(MapR(hs, output), LAMBDA items :
      Then(Sliced(distinct(rowsOf(Sorted(items, q.order))), q.limit, q.offset, w), LAMBDA slice :
        Ok(rowsOf(slice))))))))

\* A parenthesised query keeps the clauses inside its parentheses.
RowsOfQuery(q, w) ==
  CASE q.with \/ q.body[1] = "SetOp" -> Err("plan")
    [] q.body[1] = "Select" -> MeaningOfSelect(q.body[2], q, w)
    [] q.body[1] = "Query" ->
         IF q.order # <<>> THEN Err("plan")
         ELSE Then(MeaningOfQuery(q.body[2], w), LAMBDA rows : Then(Sliced(rows, q.limit, q.offset, w), LAMBDA slice :
                Ok([i \in DOMAIN slice |-> slice[i].row])))

\* The value of an expression in a row; `group` holds the rows of its group, if any.
Means(e, row, group, w) ==
  LET k == Kind(e)
      value(i) == Means(e.args[i], row, group, w)
      values(F(_)) == Then(MapR(e.args, LAMBDA a : Means(a, row, group, w)), F)
      truths(F(_)) == values(LAMBDA vs : Then(MapR(vs, AsBool), F))
      folded == \E i \in DOMAIN e.args : FoldsCase(e.args[i])
      fold(v) == IF folded /\ TypeOf(v) = "Text" THEN Text(ToLowercase(v[2])) ELSE v
      like(vs) == IF IsNullValue(vs[1]) \/ IsNullValue(vs[2]) THEN Ok(Null)
                  ELSE IF TypeOf(vs[1]) # "Text" \/ TypeOf(vs[2]) # "Text" THEN Err("type")
                  ELSE LET s(v) == IF folded \/ e.op[3] THEN ToLowercase(v[2]) ELSE v[2]
                       IN  Ok(Bool(LikeMeans(s(vs[1]), s(vs[2])) # e.op[2]))
      first == IF k = "Case" /\ e.op[2] THEN 2 ELSE 1
      last == IF k = "Case" /\ e.op[3] THEN Len(e.args) - 1 ELSE Len(e.args)
      RECURSIVE chosen(_, _)
      chosen(i, holds) ==
        IF i > last THEN IF e.op[3] THEN value(Len(e.args)) ELSE Ok(Null)
        ELSE Then(value(i), LAMBDA v : Then(IF holds = None THEN Ok(v) ELSE Relates("Eq", holds[1], v), LAMBDA t :
               IF t = Bool(TRUE) THEN value(i + 1) ELSE chosen(i + 2, holds)))
      aggregate == IF e.op[4] THEN Ok(Int8(Len(group[1])))
                   ELSE Then(MapR(group[1], LAMBDA m : Means(e.args[1], m, None, w)), LAMBDA vs :
                          AggregateOf(e.op[2], e.op[3], vs))
      cells == Cells(row, e.op[2], e.op[3])
  IN  CASE k = "Literal" -> Ok(ValueOf(e.op[2]))
        [] k = "Parameter" -> IF e.op[2] \in DOMAIN w.params THEN Ok(w.params[e.op[2]]) ELSE Err("plan")
        [] k = "Column" -> IF Cardinality(cells) = 1 THEN Ok(row[CHOOSE i \in cells : TRUE].val) ELSE Err("plan")
        [] k \in {"UnaryPlus", "Collate"} -> value(1)
        [] k = "UnaryMinus" -> Then(value(1), LAMBDA v : Arithmetic("Minus", Int4(0), v))
        [] k = "Not" -> truths(LAMBDA ts : Ok(Opposite(ts[1])))
        [] k = "And" -> truths(LAMBDA ts : Ok(Conjunction(ts)))
        [] k = "Or" -> truths(LAMBDA ts : Ok(Disjunction(ts)))
        [] k \in ComparisonOps -> values(LAMBDA vs : Relates(k, fold(vs[1]), fold(vs[2])))
        [] k \in ArithmeticOps -> values(LAMBDA vs : Arithmetic(k, vs[1], vs[2]))
        [] k = "IsNull" -> values(LAMBDA vs : Ok(Bool(IsNullValue(vs[1]) # e.op[2])))
        [] k = "Between" -> values(LAMBDA vs : Then(Relates("LtEq", vs[2], vs[1]), LAMBDA lo :
                              Then(Relates("LtEq", vs[1], vs[3]), LAMBDA hi : Ok(Negated(e.op[2], Conjunction(<<lo, hi>>))))))
        [] k = "InList" -> values(LAMBDA vs : Then(Member(vs[1], Tail(vs)), LAMBDA t : Ok(Negated(e.op[2], t))))
        [] k = "InSubquery" -> values(LAMBDA vs : Then(MeaningOfQuery(e.op[2], w), LAMBDA rs :
                                 Then(Member(vs[1], [i \in DOMAIN rs |-> rs[i][1]]), LAMBDA t : Ok(Negated(e.op[3], t)))))
        [] k = "Query" -> RowsOfQuery(e.op[2], w)
        [] k = "Like" -> values(like)
        [] k = "Cast" -> values(LAMBDA vs : Cast(vs[1], e.op[2]))
        [] k = "Case" -> IF e.op[2] THEN Then(value(1), LAMBDA v : chosen(first, Some(v))) ELSE chosen(first, None)
        [] k = "Call" /\ e.op[2] \in AggregateFuncs -> IF group = None THEN Err("plan") ELSE aggregate
        [] k = "Call" /\ e.op[2] \in ScalarFuncs -> values(LAMBDA vs : CallScalar(e.op[2], vs))
        [] OTHER -> Err("plan")

----------------------------------------------------------------------------
(* Writes.  Fire(table id, event, row) is what the BEFORE triggers decide. *)
(* A write gives the stored rows and the number of rows it counts.         *)

\* A value as a column holds it: of the column's type, or widened to it.
Held(v, column) ==
  CASE IsNullValue(v) -> IF column.nullable THEN Ok(v) ELSE Err("null")
    [] TypeOf(v) = column.type -> Ok(v)
    [] TypeOf(v) = "Int4" /\ column.type = "Int8" -> Ok(Int8(v[2]))
    [] IsNumber(v) /\ column.type = "Float8" -> Ok(<<"Float8", AsFloat(v)>>)
    [] OTHER -> Err("type")

HeldRow(row, schema) ==
  IF Len(row) # Len(schema) THEN Err("width")
  ELSE MapR([i \in DOMAIN row |-> i], LAMBDA i : Held(row[i], schema[i]))

\* The row the triggers leave of a candidate, as an option.
Decided(decision, candidate, schema) ==
  Then(decision, LAMBDA d :
    CASE d[1] = "Skip" -> Ok(None)
      [] d[1] = "Allow" -> Then(HeldRow(candidate, schema), LAMBDA r : Ok(Some(r)))
      [] d[1] = "Replace" -> Then(HeldRow(d[2], schema), LAMBDA r : Ok(Some(r))))

\* The row with the SET clause applied; its expressions read `from`.
SetIn(values, schema, sets, from, w) ==
  Then(MapR(sets, LAMBDA s : Means(s.value, from, None, w)), LAMBDA vs :
    Ok([i \in DOMAIN schema |->
          LET at == {j \in DOMAIN sets : sets[j].col = schema[i].name}
          IN  IF at = {} THEN values[i] ELSE vs[CHOOSE j \in at : TRUE]]))

Values(row) == [i \in DOMAIN row |-> row[i].val]

\* Every selected row changes by its own old values, all at once.
MeaningOfUpdate(upd, w, Fire(_, _, _)) ==
  LET table == w.cat.tables[upd.table]
      stored == w.rows[table.id]
      row(i) == Row(table.schema, stored[i].row, {upd.table} \cup ToSet(upd.alias))
      changed(i) ==
        Then(Where(<<row(i)>>, upd.where, w), LAMBDA hit :
          IF hit = <<>> THEN Ok(None)
          ELSE Then(SetIn(Values(row(i)), table.schema, upd.sets, row(i), w), LAMBDA candidate :
                 Decided(Fire(table.id, "Update", candidate), candidate, table.schema)))
  IN  Then(MapR([i \in DOMAIN stored |-> i], changed), LAMBDA cs :
        Ok([stored |-> [i \in DOMAIN stored |-> IF cs[i] = None THEN stored[i] ELSE [stored[i] EXCEPT !.row = cs[i][1]]],
            affected |-> Cardinality({i \in DOMAIN cs : cs[i] # None})]))

MeaningOfDelete(del, w, Fire(_, _, _)) ==
  LET table == w.cat.tables[del.table]
      stored == w.rows[table.id]
      row(i) == Row(table.schema, stored[i].row, {del.table} \cup ToSet(del.alias))
      goes(i) == Then(Where(<<row(i)>>, del.where, w), LAMBDA hit :
                   IF hit = <<>> THEN Ok(FALSE)
                   ELSE Then(Fire(table.id, "Delete", Values(row(i))), LAMBDA d :
                          IF d[1] = "Replace" THEN Err("exec") ELSE Ok(d[1] = "Allow")))
  IN  Then(MapR([i \in DOMAIN stored |-> i], goes), LAMBDA gs :
        LET left == SelectSeq([i \in DOMAIN stored |-> i], LAMBDA i : ~gs[i])
        IN  Ok([stored |-> [i \in DOMAIN left |-> stored[left[i]]], affected |-> Len(stored) - Len(left)]))

\* One row after the other; the next one sees the rows before it.
MeaningOfInsert(ins, w, nextRid, Fire(_, _, _)) ==
  LET table == w.cat.tables[ins.table]
      schema == table.schema
      names == IF ins.cols = <<>> THEN [i \in DOMAIN schema |-> schema[i].name] ELSE ins.cols
      unique == SelectSeq(IndexesFor(w.cat, table.id), LAMBDA ix : ix.unique)
      given(vs) == [i \in DOMAIN schema |->
                      LET at == {j \in DOMAIN names : names[j] = schema[i].name}
                      IN  IF at # {} THEN vs[CHOOSE j \in at : TRUE]
                          ELSE IF schema[i].default = None THEN Null ELSE schema[i].default[1]]
      clause == ins.conflict[1]
      target == ToSet(IF clause.target # <<>> THEN clause.target ELSE unique[1].cols)
      clash(acc, row) ==
        LET keys == {i \in DOMAIN schema : schema[i].name \in target}
            same(t) == \A i \in keys : ~IsNullValue(row[i]) /\ Row(schema, t.row, {})[i].val = row[i]
        IN  SelectSeq([i \in DOMAIN acc.stored |-> i], LAMBDA i : same(acc.stored[i]))
      added(acc, row) == Ok([stored |-> Append(acc.stored, [rid |-> acc.next, row |-> row]),
                             affected |-> acc.affected + 1, next |-> acc.next + 1])
      resolved(acc, at, row) ==
        LET old == Row(schema, acc.stored[at].row, {ins.table})
            both == old \o Row(schema, row, {"excluded"})
            write(r) == IF r = None THEN Ok(acc)
                        ELSE Ok([acc EXCEPT !.stored[at].row = r[1], !.affected = @ + 1])
        IN  IF clause.action[1] = "Nothing" THEN Ok(acc)
            ELSE Then(Where(<<both>>, clause.action[3], w), LAMBDA hit :
                   IF hit = <<>> THEN Ok(acc)
                   ELSE Then(SetIn(Values(old), schema, clause.action[2], both, w), LAMBDA candidate :
                        Then(Decided(Fire(table.id, "Update", candidate), candidate, schema), write)))
      step(acc0, vs) ==
        Then(acc0, LAMBDA acc :
        Then(Decided(Fire(table.id, "Insert", given(vs)), given(vs), schema), LAMBDA decided :
          IF decided = None THEN Ok(acc)
          ELSE IF ins.conflict # None /\ clash(acc, decided[1]) # <<>>
          THEN resolved(acc, clash(acc, decided[1])[1], decided[1])
          ELSE added(acc, decided[1])))
  IN  Then(MapR(ins.source[2], LAMBDA exprs : MapR(exprs, LAMBDA e : Means(e, <<>>, None, w))), LAMBDA rows :
        FoldLeft(step, Ok([stored |-> w.rows[table.id], affected |-> 0, next |-> nextRid]), rows))
============================================================================
