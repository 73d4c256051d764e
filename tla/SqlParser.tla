----------------------------- MODULE SqlParser -----------------------------
(***************************************************************************)
(* ferrite-sql's parser: from tokens to the statements of SqlPlan and      *)
(* SqlPlanner, by recursive descent with precedence climbing.              *)
(*                                                                         *)
(* Tokens are pairs <<kind, content>>.  A parser takes the tokens left     *)
(* and gives Ok([node, rest]) or an error; messages and offsets are left   *)
(* out.  Parser.depth is the argument d, the nesting entered so far: an    *)
(* error ends the parse, so enter and leave are balanced on every path     *)
(* that goes on.  A WITH list and a RETURNING list are kept only as        *)
(* whether there is one, which is all the planner asks; a table's          *)
(* namespace is left out.                                                  *)
(***************************************************************************)
EXTENDS SqlPlan

CONSTANT MaxDepth    \* MAX_DEPTH: the nesting the parser accepts

ASSUME MaxDepthAssumption == MaxDepth \in Nat

K(word) == <<"Keyword", word>>

Sym(s) == <<"Symbol", s>>

Ident(name) == <<"Ident", name>>

Number(n) == <<"Number", n>>

Decimals(n, d) == <<"Decimal", <<n, d>>>>

StringLit(s) == <<"String", s>>

Param(n) == <<"Param", n>>

Eof == <<"Eof", "">>

\* The keywords that may also be names.
NonReserved ==
  {"add", "bigint", "bool", "boolean", "cascade", "column", "conflict", "do", "double", "each",
   "first", "float8", "function", "index", "int", "int4", "int8", "integer", "json", "jsonb", "key",
   "last", "nulls", "nothing", "precision", "procedure", "replace", "restrict", "row", "statement",
   "text", "timestamp", "timestamptz", "transaction", "trigger", "uuid", "varchar", "work"}

----------------------------------------------------------------------------
(* Reading tokens.                                                         *)

Peek(ts) == IF ts = <<>> THEN Eof ELSE Head(ts)

PeekAt(ts, ahead) == IF ahead < Len(ts) THEN ts[ahead + 1] ELSE Eof

Advance(ts) == IF ts = <<>> THEN ts ELSE Tail(ts)

Syntax == Err("syntax")

Node(x, rest) == Ok([node |-> x, rest |-> rest])

Enter(d, r) == IF d + 1 > MaxDepth THEN Err("depth") ELSE r

\* eat_keywords: all the words, or none.
Starts(ts, words) == \A i \in DOMAIN words : PeekAt(ts, i - 1) = K(words[i])

Drop(ts, n) == SubSeq(ts, n + 1, Len(ts))

Expect(ts, t, F(_)) == IF Peek(ts) = t THEN F(Advance(ts)) ELSE Syntax

Parsed(r, F(_, _)) == Then(r, LAMBDA x : F(x.node, x.rest))

\* A clause that may be absent: what follows `words` by parser G, as an option.
Clause(ts, words, G(_), F(_, _)) ==
  IF Starts(ts, words) THEN Parsed(G(Drop(ts, Len(words))), LAMBDA x, r : F(Some(x), r)) ELSE F(None, ts)

\* A flag: whether the words are there.
Flag(ts, words, F(_, _)) == IF Starts(ts, words) THEN F(TRUE, Drop(ts, Len(words))) ELSE F(FALSE, ts)

\* One or more G, separated by commas.
CommaList(ts, G(_)) ==
  LET RECURSIVE more(_, _)
      more(seen, rest) ==
        Parsed(G(rest), LAMBDA x, r :
          IF Peek(r) = Sym(",") THEN more(Append(seen, x), Advance(r)) ELSE Node(Append(seen, x), r))
  IN  more(<<>>, ts)

\* ( G )
Parens(ts, G(_)) ==
  Expect(ts, Sym("("), LAMBDA r : Parsed(G(r), LAMBDA x, r2 : Expect(r2, Sym(")"), LAMBDA r3 : Node(x, r3))))

\* A list of G up to a closing parenthesis, possibly empty.
ListOrNone(ts, G(_)) == IF Peek(ts) = Sym(")") THEN Node(<<>>, ts) ELSE CommaList(ts, G)

IsIdentifier(t) == t[1] = "Ident" \/ (t[1] = "Keyword" /\ t[2] \in NonReserved)

ParseIdentifier(ts) == IF IsIdentifier(Peek(ts)) THEN Node(Peek(ts)[2], Advance(ts)) ELSE Syntax

ParseOptionalAlias(ts, F(_, _)) ==
  IF Peek(ts) = K("as") THEN Parsed(ParseIdentifier(Advance(ts)), LAMBDA x, r : F(Some(x), r))
  ELSE IF IsIdentifier(Peek(ts)) THEN F(Some(Peek(ts)[2]), Advance(ts))
  ELSE F(None, ts)

\* name, or qualifier.name
ParseObjectName(ts) ==
  LET RECURSIVE more(_, _)
      more(parts, rest) ==
        IF Peek(rest) = Sym(".") /\ IsIdentifier(PeekAt(rest, 1))
        THEN more(Append(parts, PeekAt(rest, 1)[2]), Drop(rest, 2))
        ELSE IF Len(parts) > 2 THEN Syntax ELSE Node(parts, rest)
  IN  Parsed(ParseIdentifier(ts), LAMBDA x, r : more(<<x>>, r))

ParseTableName(ts) == Parsed(ParseObjectName(ts), LAMBDA parts, r : Node(Last(parts), r))

ParseColumnList(ts) == Parens(ts, LAMBDA r : CommaList(r, ParseIdentifier))

TypeNames ==
  [bool |-> "Boolean", boolean |-> "Boolean", int |-> "Int4", int4 |-> "Int4", integer |-> "Int4",
   bigint |-> "Int8", int8 |-> "Int8", float8 |-> "Float8", text |-> "Text", timestamp |-> "Timestamp",
   timestamptz |-> "Timestamp", uuid |-> "Uuid", json |-> "Json", jsonb |-> "Json"]

ParseDataType(ts) ==
  LET t == Peek(ts)
  IN  CASE t = K("double") -> Expect(Advance(ts), K("precision"), LAMBDA r : Node("Float8", r))
        [] t = K("varchar") ->
             IF PeekAt(ts, 1) # Sym("(") THEN Node("Text", Advance(ts))
             ELSE IF PeekAt(ts, 2)[1] \notin {"Number", "Decimal"} THEN Syntax
             ELSE Expect(Drop(ts, 3), Sym(")"), LAMBDA r : Node("Text", r))
        [] t[1] = "Keyword" /\ t[2] \in DOMAIN TypeNames -> Node(TypeNames[t[2]], Advance(ts))
        [] OTHER -> Syntax

----------------------------------------------------------------------------
(* Expressions.                                                            *)

BinarySymbols ==
  ("=" :> "Eq") @@ ("<>" :> "NotEq") @@ ("<" :> "Lt") @@ ("<=" :> "LtEq") @@ (">" :> "Gt")
    @@ (">=" :> "GtEq") @@ ("||" :> "Concat") @@ ("+" :> "Plus") @@ ("-" :> "Minus")
    @@ ("*" :> "Multiply") @@ ("/" :> "Divide") @@ ("%" :> "Modulo")

\* Mutant: products bind no tighter than sums.
SymbolPrecedence_flat(s) ==
  CASE s \in {"=", "<>", "<", "<=", ">", ">="} -> 5
    [] s = "||" -> 6
    [] s \in {"+", "-", "*", "/", "%"} -> 7
    [] OTHER -> 0

SymbolPrecedence(s) ==
  CASE s \in {"=", "<>", "<", "<=", ">", ">="} -> 5
    [] s = "||" -> 6
    [] s \in {"+", "-"} -> 7
    [] s \in {"*", "/", "%"} -> 8
    [] OTHER -> 0

\* peek_precedence; 0 when no operator starts here.
Precedence(ts) ==
  LET t == Peek(ts)
      tests == {"in", "between", "like", "ilike"}
      word(w) == CASE w = "or" -> 1
                   [] w = "and" -> 2
                   [] w \in tests \cup {"is"} -> 4
                   [] w = "not" -> IF \E x \in tests : PeekAt(ts, 1) = K(x) THEN 4 ELSE 0
                   [] w = "collate" -> 9
                   [] OTHER -> 0
  IN  CASE t[1] = "Keyword" -> word(t[2])
        [] t[1] = "Symbol" -> SymbolPrecedence(t[2])
        [] OTHER -> 0

\* The associative operator a run of operands starts with here, if any.
PeekBooleanRun(ts, min) ==
  CASE Peek(ts) = K("or") /\ min < 1 -> Some("Or")
    [] Peek(ts) = K("and") /\ min < 2 -> Some("And")
    [] OTHER -> None

NumberLiteral(t) ==
  IF t[1] = "Decimal" THEN Ok(E(<<"Literal", <<"Float8", t[2]>>>>, <<>>))
  ELSE IF Fits(Int8Bits, t[2]) THEN Ok(E(<<"Literal", <<"Int", t[2]>>>>, <<>>)) ELSE Syntax

\* The functions of the parser call each other: Parse runs the one a rule names.
RECURSIVE Parse(_, _, _)

ParseExpr(ts, d) == Parse(<<"subexpr", 0>>, ts, d)

IsQueryStart(t) == t \in {K("select"), K("with")}

ParseInfix(left, ts, p, d) ==
  LET negated == Peek(ts) = K("not")
      at == IF negated THEN Advance(ts) ELSE ts
      rest == Advance(at)
      isNull(neg, r) == Expect(r, K("null"), LAMBDA r2 : Node(E(<<"IsNull", neg>>, <<left>>), r2))
      between == Parsed(Parse(<<"subexpr", 5>>, rest, d), LAMBDA low, r :
                   Expect(r, K("and"), LAMBDA r2 : Parsed(Parse(<<"subexpr", 5>>, r2, d), LAMBDA high, r3 :
                     Node(E(<<"Between", negated>>, <<left, low, high>>), r3))))
      like(ci) == Parsed(Parse(<<"subexpr", p>>, rest, d), LAMBDA x, r :
                    Node(E(<<"Like", negated, ci>>, <<left, x>>), r))
      inList == Parens(rest, LAMBDA r :
                  IF IsQueryStart(Peek(r))
                  THEN Parsed(Parse(<<"query">>, r, d), LAMBDA q, r2 :
                         Node(E(<<"InSubquery", q, negated>>, <<left>>), r2))
                  ELSE Parsed(ListOrNone(r, LAMBDA s : ParseExpr(s, d)), LAMBDA xs, r2 :
                         Node(E(<<"InList", negated>>, <<left>> \o xs), r2)))
      symbol == IF Peek(at)[1] = "Symbol" THEN Peek(at)[2] ELSE ""
  IN  CASE Peek(ts) = K("collate") ->
             Parsed(ParseIdentifier(rest), LAMBDA c, r : Node(E(<<"Collate", c>>, <<left>>), r))
        [] Peek(ts) = K("is") -> Flag(rest, <<"not">>, isNull)
        [] Peek(at) = K("between") -> between
        [] Peek(at) = K("like") -> like(FALSE)
        [] Peek(at) = K("ilike") -> like(TRUE)
        [] Peek(at) = K("in") -> inList
        [] ~negated /\ symbol \in DOMAIN BinarySymbols ->
             Parsed(Parse(<<"subexpr", p>>, rest, d), LAMBDA x, r : Node(Bin(BinarySymbols[symbol], left, x), r))
        [] OTHER -> Syntax

ParseFunctionCall(name, ts, d) ==
  LET call(star, distinct, args, r) == Node(E(<<"Call", name, distinct, star>>, args), r)
      list(distinct, r) ==
        Parsed(ListOrNone(r, LAMBDA s : ParseExpr(s, d)), LAMBDA xs, r2 :
          Expect(r2, Sym(")"), LAMBDA r3 :
            IF distinct /\ xs = <<>> THEN Syntax ELSE call(FALSE, distinct, xs, r3)))
  IN  IF PeekAt(ts, 1) = Sym("*") THEN Expect(Drop(ts, 2), Sym(")"), LAMBDA r : call(TRUE, FALSE, <<>>, r))
      ELSE Flag(Advance(ts), <<"distinct">>, list)

ParseCase(ts, d) ==
  LET RECURSIVE branches(_, _)
      branches(seen, rest) ==
        IF Peek(rest) # K("when") THEN IF seen = <<>> THEN Syntax ELSE Node(seen, rest)
        ELSE Parsed(ParseExpr(Advance(rest), d), LAMBDA w, r : Expect(r, K("then"), LAMBDA r2 :
               Parsed(ParseExpr(r2, d), LAMBDA t, r3 : branches(seen \o <<w, t>>, r3))))
      body(operand, rest) ==
        Parsed(branches(<<>>, rest), LAMBDA bs, r : Clause(r, <<"else">>, LAMBDA s : ParseExpr(s, d), LAMBDA other, r2 :
          Expect(r2, K("end"), LAMBDA r3 :
            Node(E(<<"Case", operand # None, other # None>>, operand \o bs \o other), r3))))
  IN  IF Peek(ts) = K("when") THEN body(None, ts)
      ELSE Parsed(ParseExpr(ts, d), LAMBDA x, r : body(Some(x), r))

ParsePrefix(ts, d0) ==
  LET d == d0 + 1
      t == Peek(ts)
      rest == Advance(ts)
      unary(tag, min) == Parsed(Parse(<<"subexpr", min>>, rest, d), LAMBDA x, r : Node(E(<<tag>>, <<x>>), r))
      literal(v) == Node(E(<<"Literal", v>>, <<>>), rest)
      query(tag, r) == Parsed(Parse(<<"query">>, r, d), LAMBDA q, r2 : Node(E(<<tag, q>>, <<>>), r2))
      cast(r) == Parsed(ParseExpr(r, d), LAMBDA x, r2 : Expect(r2, K("as"), LAMBDA r3 :
                   Parsed(ParseDataType(r3), LAMBDA ty, r4 : Node(E(<<"Cast", ty>>, <<x>>), r4))))
      named(parts, r) ==
        IF t[1] = "Ident" /\ Peek(r) = Sym("(")
        THEN IF Len(parts) # 1 THEN Syntax ELSE ParseFunctionCall(parts[1], r, d)
        ELSE Node(Col(IF Len(parts) = 2 THEN Some(parts[1]) ELSE None, Last(parts)), r)
  IN  Enter(d0,
      CASE t = Sym("-") -> unary("UnaryMinus", 8)
        [] t = Sym("+") -> unary("UnaryPlus", 8)
        [] t = K("not") -> unary("Not", 3)
        [] t = K("null") -> literal(Null)
        [] t = K("true") -> literal(Bool(TRUE))
        [] t = K("false") -> literal(Bool(FALSE))
        [] t = K("exists") -> Parens(rest, LAMBDA r : query("Exists", r))
        [] t = K("cast") -> Parens(rest, cast)
        [] t = K("case") -> ParseCase(rest, d)
        [] t[1] = "String" -> literal(Text(t[2]))
        [] t[1] \in {"Number", "Decimal"} -> Then(NumberLiteral(t), LAMBDA x : Node(x, rest))
        [] t[1] = "Param" -> Node(E(<<"Parameter", t[2]>>, <<>>), rest)
        [] t = Sym("(") -> Parens(ts, LAMBDA r : IF IsQueryStart(Peek(r)) THEN query("Subquery", r)
                                                ELSE ParseExpr(r, d))
        [] IsIdentifier(t) -> Parsed(ParseObjectName(ts), named)
        [] OTHER -> Syntax)

\* parse_subexpr: operators binding tighter than `min`.  Each left-deep fold
\* counts one level more; a run of AND or OR does not.
ParseSubexpr(ts, min, d) ==
  LET RECURSIVE climb(_, _, _), run(_, _, _, _, _)
      run(operands, op, word, rest, d1) ==
        IF Peek(rest) = K(word)
        THEN Parsed(Parse(<<"subexpr", Precedence(rest)>>, Advance(rest), d1), LAMBDA x, r :
               run(Append(operands, x), op, word, r, d1))
        ELSE climb(Balanced(op, operands), rest, d1)
      climb(left, rest, d1) ==
        IF Precedence(rest) <= min THEN Node(left, rest)
        ELSE LET boolean == PeekBooleanRun(rest, min)
             IN  IF boolean # None
                 THEN run(<<left>>, boolean[1], IF boolean[1] = "Or" THEN "or" ELSE "and", rest, d1)
                 ELSE Enter(d1, Parsed(ParseInfix(left, rest, Precedence(rest), d1 + 1), LAMBDA x, r :
                                  climb(x, r, d1 + 1)))
  IN  Enter(d, Parsed(ParsePrefix(ts, d + 1), LAMBDA x, r : climb(x, r, d + 1)))

----------------------------------------------------------------------------
(* Queries.                                                                *)

ParseSelectItem(ts, d) ==
  IF Peek(ts) = Sym("*") THEN Node(<<"Star">>, Advance(ts))
  ELSE IF Peek(ts)[1] = "Ident" /\ PeekAt(ts, 1) = Sym(".") /\ PeekAt(ts, 2) = Sym("*")
  THEN Node(<<"QualStar", Peek(ts)[2]>>, Drop(ts, 3))
  ELSE Parsed(ParseExpr(ts, d), LAMBDA x, r :
         ParseOptionalAlias(r, LAMBDA alias, r2 : Node(<<"Expr", x, alias>>, r2)))

ParseTableFactor(ts, d) ==
  IF Peek(ts) = Sym("(")
  THEN Parsed(Parens(ts, LAMBDA r : Parse(<<"query">>, r, d)), LAMBDA q, r :
         ParseOptionalAlias(r, LAMBDA alias, r2 :
           IF alias = None THEN Syntax ELSE Node(<<"Derived", q, alias>>, r2)))
  ELSE Parsed(ParseTableName(ts), LAMBDA name, r :
         ParseOptionalAlias(r, LAMBDA alias, r2 : Node(<<"Table", name, alias>>, r2)))

\* The words that open a join, the longest first, and the type they stand for.
JoinWords ==
  <<[words |-> <<"cross", "join">>, type |-> "Cross"],
    [words |-> <<"inner", "join">>, type |-> "Inner"],
    [words |-> <<"left", "outer", "join">>, type |-> "Left"],
    [words |-> <<"left", "join">>, type |-> "Left"],
    [words |-> <<"right", "outer", "join">>, type |-> "Right"],
    [words |-> <<"right", "join">>, type |-> "Right"],
    [words |-> <<"full", "outer", "join">>, type |-> "Full"],
    [words |-> <<"full", "join">>, type |-> "Full"],
    [words |-> <<"join">>, type |-> "Inner"]>>

ParseTableWithJoins(ts, d) ==
  LET constraint(ts1, F(_, _)) ==
        CASE Peek(ts1) = K("on") -> Parsed(ParseExpr(Advance(ts1), d), LAMBDA x, r : F(<<"On", x>>, r))
          [] Peek(ts1) = K("using") -> Parsed(ParseColumnList(Advance(ts1)), LAMBDA cs, r : F(<<"Using", cs>>, r))
          [] OTHER -> F(<<"None">>, ts1)
      RECURSIVE joins(_, _)
      joins(item, rest) ==
        LET opening == SelectSeq(JoinWords, LAMBDA j : Starts(rest, j.words))
        IN  IF opening = <<>>
            THEN IF \E w \in {"cross", "inner", "left", "right", "full"} : Peek(rest) = K(w) THEN Syntax
                 ELSE Node(item, rest)
            ELSE Parsed(ParseTableFactor(Drop(rest, Len(opening[1].words)), d), LAMBDA rel, r :
                   constraint(r, LAMBDA on, r2 :
                     IF (opening[1].type = "Cross") # (on[1] = "None") THEN Syntax
                     ELSE joins([item EXCEPT !.joins =
                                   Append(@, [type |-> opening[1].type, rel |-> rel, on |-> on])], r2)))
  IN  Parsed(ParseTableFactor(ts, d), LAMBDA rel, r : joins([rel |-> rel, joins |-> <<>>], r))

ParseSelect(ts, d) ==
  LET expr(r) == ParseExpr(r, d)
      from(r) == CommaList(r, LAMBDA s : ParseTableWithJoins(s, d))
      many(o) == IF o = None THEN <<>> ELSE o[1]
  IN  Expect(ts, K("select"), LAMBDA t1 :
      Flag(t1, <<"distinct">>, LAMBDA distinct, t2 :
      Parsed(CommaList(t2, LAMBDA s : ParseSelectItem(s, d)), LAMBDA items, t3 :
      Clause(t3, <<"from">>, from, LAMBDA tables, t4 :
      Clause(t4, <<"where">>, expr, LAMBDA where, t5 :
      Clause(t5, <<"group", "by">>, LAMBDA r : CommaList(r, expr), LAMBDA group, t6 :
      Clause(t6, <<"having">>, expr, LAMBDA having, t7 :
        IF having # None /\ group = None THEN Syntax
        ELSE Node([distinct |-> distinct, items |-> items, from |-> many(tables), where |-> where,
                   group |-> many(group), having |-> having], t7))))))))

ParseSetExpr(ts, d0) ==
  LET d == d0 + 1
      term(r) == IF Peek(r) = Sym("(")
                 THEN Parsed(Parens(r, LAMBDA s : Parse(<<"query">>, s, d)), LAMBDA q, r2 : Node(<<"Query", q>>, r2))
                 ELSE Parsed(ParseSelect(r, d), LAMBDA s, r2 : Node(<<"Select", s>>, r2))
      RECURSIVE more(_, _)
      more(left, rest) ==
        IF \E w \in {"union", "intersect", "except"} : Peek(rest) = K(w)
        THEN Flag(Advance(rest), <<"all">>, LAMBDA all, r : Parsed(term(r), LAMBDA right, r2 :
               more(<<"SetOp", Peek(rest)[2], all, left, right>>, r2)))
        ELSE Node(left, rest)
  IN  Enter(d0, Parsed(term(ts), more))

ParseOrderItem(ts, d) ==
  LET item(x, asc, r) ==
        CASE Starts(r, <<"nulls", "first">>) -> Node([expr |-> x, asc |-> asc, nulls |-> Some(TRUE)], Drop(r, 2))
          [] Starts(r, <<"nulls", "last">>) -> Node([expr |-> x, asc |-> asc, nulls |-> Some(FALSE)], Drop(r, 2))
          [] Peek(r) = K("nulls") -> Syntax
          [] OTHER -> Node([expr |-> x, asc |-> asc, nulls |-> None], r)
  IN  Parsed(ParseExpr(ts, d), LAMBDA x, r :
        CASE Peek(r) = K("desc") -> item(x, FALSE, Advance(r))
          [] Peek(r) = K("asc") -> item(x, TRUE, Advance(r))
          [] OTHER -> item(x, TRUE, r))

ParseQuery(ts, d0) ==
  LET d == d0 + 1
      expr(r) == ParseExpr(r, d)
      cte(r) == Parsed(ParseIdentifier(r), LAMBDA name, r2 :
                Parsed(IF Peek(r2) = Sym("(") THEN ParseColumnList(r2) ELSE Node(<<>>, r2), LAMBDA cs, r3 :
                Expect(r3, K("as"), LAMBDA r4 : Parens(r4, LAMBDA s : Parse(<<"query">>, s, d)))))
      limit(r, F(_, _)) == IF Starts(r, <<"limit", "all">>) THEN F(None, Drop(r, 2))
                           ELSE Clause(r, <<"limit">>, expr, F)
  IN  Enter(d0,
      Clause(ts, <<"with">>, LAMBDA r : CommaList(r, cte), LAMBDA with, t1 :
      Parsed(ParseSetExpr(t1, d), LAMBDA body, t2 :
      Clause(t2, <<"order", "by">>, LAMBDA r : CommaList(r, LAMBDA s : ParseOrderItem(s, d)), LAMBDA order, t3 :
      limit(t3, LAMBDA count, t4 :
      Clause(t4, <<"offset">>, expr, LAMBDA offset, t5 :
        Node([with |-> with # None, body |-> body, order |-> IF order = None THEN <<>> ELSE order[1],
              limit |-> count, offset |-> offset], t5)))))))

----------------------------------------------------------------------------
(* Statements.  They are parsed at depth 0, except in a procedure body.    *)

ParseAssignment(ts, d) ==
  Parsed(ParseIdentifier(ts), LAMBDA col, r : Expect(r, Sym("="), LAMBDA r2 :
    Parsed(ParseExpr(r2, d), LAMBDA x, r3 : Node([col |-> col, value |-> x], r3))))

ParseReturning(ts, d, F(_, _)) ==
  Clause(ts, <<"returning">>, LAMBDA r : CommaList(r, LAMBDA s : ParseSelectItem(s, d)), LAMBDA o, r :
    F(o # None, r))

\* INSERT OR IGNORE and OR REPLACE; the other resolutions are what happens anyway.
ParseConflictPrefix(ts) ==
  LET t == Peek(Advance(ts))
  IN  IF Peek(ts) # K("or") THEN Node(None, ts)
      ELSE CASE t \in {K("replace"), Ident("ignore")} -> Node(Some(t[2]), Drop(ts, 2))
             [] t \in {K("rollback"), Ident("abort"), Ident("fail")} -> Node(None, Drop(ts, 2))
             [] OTHER -> Syntax

\* into_on_conflict: OR REPLACE sets every column the statement names.
IntoOnConflict(prefix, cols) ==
  [target |-> <<>>,
   action |-> IF prefix = "ignore" THEN <<"Nothing">>
              ELSE <<"Update", [i \in DOMAIN cols |-> [col |-> cols[i], value |-> Col(Some("excluded"), cols[i])]],
                     None>>]

ParseOnConflict(ts, d) ==
  LET clause(target, action, r) == Node(Some([target |-> target, action |-> action]), r)
      action(target, r) ==
        IF Starts(r, <<"do", "nothing">>) THEN clause(target, <<"Nothing">>, Drop(r, 2))
        ELSE IF ~Starts(r, <<"do", "update", "set">>) THEN Syntax
        ELSE Parsed(CommaList(Drop(r, 3), LAMBDA s : ParseAssignment(s, d)), LAMBDA sets, r2 :
             Clause(r2, <<"where">>, LAMBDA s : ParseExpr(s, d), LAMBDA w, r3 :
               clause(target, <<"Update", sets, w>>, r3)))
  IN  IF ~Starts(ts, <<"on", "conflict">>) THEN Node(None, ts)
      ELSE Parsed(IF PeekAt(ts, 2) = Sym("(") THEN ParseColumnList(Drop(ts, 2)) ELSE Node(<<>>, Drop(ts, 2)), action)

ParseInsert(ts, d) ==
  LET row(cols, r) == Parsed(Parens(r, LAMBDA s : CommaList(s, LAMBDA u : ParseExpr(u, d))), LAMBDA xs, r2 :
                        IF cols # <<>> /\ Len(xs) # Len(cols) THEN Syntax ELSE Node(xs, r2))
      source(cols, r) ==
        IF Peek(r) = K("values")
        THEN Parsed(CommaList(Advance(r), LAMBDA s : row(cols, s)), LAMBDA rows, r2 : Node(<<"Values", rows>>, r2))
        ELSE Parsed(Parse(<<"query">>, r, d), LAMBDA q, r2 : Node(<<"Query", q>>, r2))
  IN  Parsed(ParseConflictPrefix(Advance(ts)), LAMBDA prefix, t1 : Expect(t1, K("into"), LAMBDA t2 :
      Parsed(ParseTableName(t2), LAMBDA table, t3 :
      Parsed(IF Peek(t3) = Sym("(") /\ ~IsQueryStart(PeekAt(t3, 1)) THEN ParseColumnList(t3) ELSE Node(<<>>, t3),
             LAMBDA cols, t4 :
      Parsed(source(cols, t4), LAMBDA src, t5 :
      Parsed(ParseOnConflict(t5, d), LAMBDA clause, t6 :
      ParseReturning(t6, d, LAMBDA returning, t7 :
        Node(<<"Insert", [table |-> table, cols |-> cols, source |-> src, returning |-> returning,
                          conflict |-> IF clause # None \/ prefix = None THEN clause
                                       ELSE Some(IntoOnConflict(prefix[1], cols))]>>, t7))))))))

ParseUpdate(ts, d) ==
  Parsed(ParseTableName(Advance(ts)), LAMBDA table, t1 :
  ParseOptionalAlias(t1, LAMBDA alias, t2 :
  Expect(t2, K("set"), LAMBDA t3 :
  Parsed(CommaList(t3, LAMBDA s : ParseAssignment(s, d)), LAMBDA sets, t4 :
  Clause(t4, <<"where">>, LAMBDA s : ParseExpr(s, d), LAMBDA where, t5 :
  ParseReturning(t5, d, LAMBDA returning, t6 :
    Node(<<"Update", [table |-> table, alias |-> alias, sets |-> sets, where |-> where,
                      returning |-> returning]>>, t6)))))))

ParseDelete(ts, d) ==
  Expect(Advance(ts), K("from"), LAMBDA t1 :
  Parsed(ParseTableName(t1), LAMBDA table, t2 :
  ParseOptionalAlias(t2, LAMBDA alias, t3 :
  Clause(t3, <<"where">>, LAMBDA s : ParseExpr(s, d), LAMBDA where, t4 :
  ParseReturning(t4, d, LAMBDA returning, t5 :
    Node(<<"Delete", [table |-> table, alias |-> alias, where |-> where, returning |-> returning]>>, t5))))))

ParseArgs(ts, d) == Parens(ts, LAMBDA r : ListOrNone(r, LAMBDA s : ParseExpr(s, d)))

ParseCall(ts, d) ==
  Parsed(ParseTableName(Advance(ts)), LAMBDA name, r :
    Parsed(ParseArgs(r, d), LAMBDA args, r2 : Node(<<"Call", [name |-> name, args |-> args]>>, r2)))

----------------------------------------------------------------------------
(* Definitions.                                                            *)

ParseColumnSpec(ts, d) ==
  LET RECURSIVE more(_, _)
      more(spec, rest) ==
        LET add(c, r) == more([spec EXCEPT !.constraints = Append(@, c)], r)
        IN  CASE Starts(rest, <<"not", "null">>) -> add(<<"NotNull">>, Drop(rest, 2))
              [] Peek(rest) = K("null") -> add(<<"Null">>, Advance(rest))
              [] Starts(rest, <<"primary", "key">>) -> add(<<"PrimaryKey">>, Drop(rest, 2))
              [] Peek(rest) = K("unique") -> add(<<"Unique">>, Advance(rest))
              [] Peek(rest) = K("default") ->
                   Parsed(ParseExpr(Advance(rest), d), LAMBDA x, r : add(<<"Default", x>>, r))
              [] Peek(rest) = K("collate") ->
                   Parsed(ParseIdentifier(Advance(rest)), LAMBDA c, r : add(<<"Collate", c>>, r))
              [] OTHER -> Node(spec, rest)
  IN  Parsed(ParseIdentifier(ts), LAMBDA name, r : Parsed(ParseDataType(r), LAMBDA ty, r2 :
        more([name |-> name, type |-> ty, constraints |-> <<>>], r2)))

\* An element of CREATE TABLE: <<"Key", constraint>> or <<"Column", spec>>.
ParseTableElement(ts, d) ==
  LET key(tag, r) == Parsed(ParseColumnList(r), LAMBDA cs, r2 : Node(<<"Key", <<tag, cs>>>>, r2))
  IN  CASE Starts(ts, <<"primary", "key">>) -> key("PrimaryKey", Drop(ts, 2))
        [] Peek(ts) = K("unique") -> key("Unique", Advance(ts))
        [] OTHER -> Parsed(ParseColumnSpec(ts, d), LAMBDA s, r : Node(<<"Column", s>>, r))

ParseCreateTable(ts, d) ==
  LET of(elements, tag) == LET at == SelectSeq(elements, LAMBDA el : el[1] = tag)
                           IN  [i \in DOMAIN at |-> at[i][2]]
  IN  Flag(Advance(ts), <<"if", "not", "exists">>, LAMBDA ine, t1 :
      Parsed(ParseTableName(t1), LAMBDA name, t2 :
      Parsed(Parens(t2, LAMBDA r : CommaList(r, LAMBDA s : ParseTableElement(s, d))), LAMBDA elements, t3 :
        IF of(elements, "Column") = <<>> THEN Syntax
        ELSE Node(<<"CreateTable", [ifNotExists |-> ine, name |-> name, specs |-> of(elements, "Column"),
                                    keys |-> of(elements, "Key")]>>, t3))))

ParseCreateIndex(ts) ==
  Flag(ts, <<"unique">>, LAMBDA unique, t1 : Expect(t1, K("index"), LAMBDA t2 :
  Flag(t2, <<"if", "not", "exists">>, LAMBDA ine, t3 :
  Parsed(ParseIdentifier(t3), LAMBDA name, t4 : Expect(t4, K("on"), LAMBDA t5 :
  Parsed(ParseTableName(t5), LAMBDA table, t6 :
  Parsed(ParseColumnList(t6), LAMBDA cols, t7 :
    Node(<<"CreateIndex", [ifNotExists |-> ine, unique |-> unique, name |-> name, table |-> table,
                           cols |-> cols]>>, t7))))))))

\* ALTER TABLE: ADD COLUMN is the only action.
ParseAlter(ts, d) ==
  Expect(Advance(ts), K("table"), LAMBDA t1 :
  Flag(t1, <<"if", "exists">>, LAMBDA ie, t2 :
  Parsed(ParseTableName(t2), LAMBDA name, t3 : Expect(t3, K("add"), LAMBDA t4 :
  Flag(t4, <<"column">>, LAMBDA noise, t5 :
  Flag(t5, <<"if", "not", "exists">>, LAMBDA ine, t6 :
  Parsed(ParseColumnSpec(t6, d), LAMBDA spec, t7 :
    Node(<<"AlterTable", [ifExists |-> ie, name |-> name, ifNotExists |-> ine, spec |-> spec]>>, t7))))))))

ParseDrop(ts) ==
  LET what == Peek(Advance(ts))
      ifExists(F(_, _)) == Flag(Drop(ts, 2), <<"if", "exists">>, F)
      cascade(ie, names, r) ==
        LET rest == IF Peek(r) \in {K("cascade"), K("restrict")} THEN Advance(r) ELSE r
        IN  Node(<<"DropTable", [ifExists |-> ie, names |-> names, cascade |-> Peek(r) = K("cascade")]>>, rest)
      trigger(ie, name, r) == Expect(r, K("on"), LAMBDA r2 : Parsed(ParseTableName(r2), LAMBDA table, r3 :
        Node(<<"DropTrigger", [ifExists |-> ie, name |-> name, table |-> table]>>, r3)))
  IN  CASE what = K("table") -> ifExists(LAMBDA ie, r : Parsed(CommaList(r, ParseTableName), LAMBDA ns, r2 :
                                  cascade(ie, ns, r2)))
        [] what \in {K("procedure"), K("function")} ->
             ifExists(LAMBDA ie, r : Parsed(ParseTableName(r), LAMBDA n, r2 :
               Node(<<"DropProcedure", [ifExists |-> ie, name |-> n]>>, r2)))
        [] what = K("trigger") -> ifExists(LAMBDA ie, r : Parsed(ParseIdentifier(r), LAMBDA n, r2 :
                                    trigger(ie, n, r2)))
        [] what = K("index") -> ifExists(LAMBDA ie, r : Parsed(ParseIdentifier(r), LAMBDA n, r2 :
                                  Node(<<"DropIndex", [ifExists |-> ie, name |-> n]>>, r2)))
        [] OTHER -> Syntax

\* BEFORE or AFTER, the events (each once), the table, the procedure.
ParseCreateTrigger(ts, d) ==
  LET isEvent(t) == t \in {K("insert"), K("update"), K("delete")}
      RECURSIVE events(_, _)
      events(seen, r) ==
        IF ~isEvent(Peek(r)) \/ Contains(seen, Peek(r)[2]) THEN Syntax
        ELSE IF PeekAt(r, 1) = K("or") THEN events(Append(seen, Peek(r)[2]), Drop(r, 2))
        ELSE Node(Append(seen, Peek(r)[2]), Advance(r))
      \* FOR EACH ROW or STATEMENT
      level(r, F(_, _)) ==
        CASE ~Starts(r, <<"for", "each">>) -> F(FALSE, r)
          [] PeekAt(r, 2) = K("row") -> F(TRUE, Drop(r, 3))
          [] PeekAt(r, 2) = K("statement") -> F(FALSE, Drop(r, 3))
          [] OTHER -> Syntax
      execute(r) == IF Starts(r, <<"execute", "procedure">>) \/ Starts(r, <<"execute", "function">>)
                    THEN Parsed(ParseTableName(Drop(r, 2)), LAMBDA p, r2 :
                         Parsed(ParseArgs(r2, d), LAMBDA as, r3 : Node([name |-> p, args |-> as], r3)))
                    ELSE Syntax
  IN  Parsed(ParseIdentifier(Advance(ts)), LAMBDA name, t1 :
      IF Peek(t1) \notin {K("before"), K("after")} THEN Syntax
      ELSE Parsed(events(<<>>, Advance(t1)), LAMBDA on, t2 : Expect(t2, K("on"), LAMBDA t3 :
      Parsed(ParseTableName(t3), LAMBDA table, t4 :
      level(t4, LAMBDA row, t5 :
      Clause(t5, <<"when">>, LAMBDA r : Parens(r, LAMBDA s : ParseExpr(s, d)), LAMBDA when, t6 :
      Parsed(execute(t6), LAMBDA call, t7 :
        Node(<<"CreateTrigger", [name |-> name, timing |-> Peek(t1)[2], events |-> on, table |-> table,
                                 row |-> row, when |-> when, call |-> call]>>, t7))))))))

ParseProcStatement(ts, d0) ==
  LET d == d0 + 1
      branch(r) == Parsed(ParseExpr(r, d), LAMBDA x, r2 : Expect(r2, K("then"), LAMBDA r3 :
                     Parsed(Parse(<<"block", {"elsif", "else", "end"}>>, r3, d), LAMBDA b, r4 :
                       Node([cond |-> x, body |-> b], r4))))
      RECURSIVE others(_, _, _)
      others(branches, other, r) ==
        CASE Peek(r) = K("elsif") -> Parsed(branch(Advance(r)), LAMBDA b, r2 : others(Append(branches, b), other, r2))
          [] Peek(r) = K("else") -> Parsed(Parse(<<"block", {"end"}>>, Advance(r), d), LAMBDA b, r2 :
                                      others(branches, Some(b), r2))
          [] Starts(r, <<"end", "if">>) -> Node(<<"If", branches, other>>, Drop(r, 2))
          [] OTHER -> Syntax
      tagged(tag) == Parsed(ParseExpr(Advance(ts), d), LAMBDA x, r : Node(<<tag, Some(x)>>, r))
  IN  Enter(d0,
      CASE Starts(ts, <<"return">>) /\ PeekAt(ts, 1) = Sym(";") -> Node(<<"Return", None>>, Advance(ts))
        [] Peek(ts) = K("return") -> tagged("Return")
        [] Peek(ts) = K("raise") -> tagged("Raise")
        [] Peek(ts) = K("if") -> Parsed(branch(Advance(ts)), LAMBDA b, r : others(<<b>>, None, r))
        [] OTHER -> Parsed(Parse(<<"statement">>, ts, d), LAMBDA s, r : Node(<<"Sql", s>>, r)))

\* Statements, each ended by a semicolon, up to one of the words.
ParseProcBlock(ts, words, d0) ==
  LET RECURSIVE more(_, _)
      more(seen, rest) ==
        IF \E w \in words : Peek(rest) = K(w) THEN Node(seen, rest)
        ELSE IF Peek(rest) = Eof THEN Syntax
        ELSE Parsed(ParseProcStatement(rest, d0 + 1), LAMBDA s, r : Expect(r, Sym(";"), LAMBDA r2 :
               more(Append(seen, s), r2)))
  IN  Enter(d0, more(<<>>, ts))

ParseCreateProcedure(ts, orReplace, d) ==
  LET param(r) == Parsed(ParseIdentifier(r), LAMBDA n, r2 : Parsed(ParseDataType(r2), LAMBDA ty, r3 :
                    Node([name |-> n, type |-> ty], r3)))
  IN  Parsed(ParseTableName(Advance(ts)), LAMBDA name, t1 :
      Parsed(Parens(t1, LAMBDA r : ListOrNone(r, param)), LAMBDA params, t2 :
      Flag(t2, <<"as">>, LAMBDA noise, t3 : Expect(t3, K("begin"), LAMBDA t4 :
      Parsed(Parse(<<"block", {"end"}>>, t4, d), LAMBDA body, t5 :
        IF body = <<>> THEN Syntax
        ELSE Expect(t5, K("end"), LAMBDA t6 :
          Node(<<"CreateProcedure", [orReplace |-> orReplace, name |-> name, params |-> params,
                                     body |-> body]>>, t6)))))))

ParseCreate(ts, d) ==
  Flag(Advance(ts), <<"or", "replace">>, LAMBDA orReplace, r :
    CASE Peek(r) \in {K("procedure"), K("function")} -> ParseCreateProcedure(r, orReplace, d)
      [] orReplace -> Syntax
      [] Peek(r) = K("table") -> ParseCreateTable(r, d)
      [] Peek(r) = K("trigger") -> ParseCreateTrigger(r, d)
      [] Peek(r) \in {K("index"), K("unique")} -> ParseCreateIndex(r)
      [] OTHER -> Syntax)

ParseStatement(ts, d) ==
  LET t == Peek(ts)
      noise(r) == IF Peek(r) \in {K("transaction"), K("work")} THEN Advance(r) ELSE r
  IN  CASE t = K("create") -> ParseCreate(ts, d)
        [] t = K("alter") -> ParseAlter(ts, d)
        [] t = K("drop") -> ParseDrop(ts)
        [] IsQueryStart(t) \/ t = Sym("(") -> Parsed(Parse(<<"query">>, ts, d), LAMBDA q, r : Node(<<"Query", q>>, r))
        [] t = K("insert") -> ParseInsert(ts, d)
        [] t = K("update") -> ParseUpdate(ts, d)
        [] t = K("delete") -> ParseDelete(ts, d)
        [] t = K("call") -> ParseCall(ts, d)
        [] t = K("begin") -> Node(<<"Begin">>, noise(Advance(ts)))
        [] t = K("start") -> Expect(Advance(ts), K("transaction"), LAMBDA r : Node(<<"Begin">>, r))
        [] t \in {K("commit"), K("end")} -> Node(<<"Commit">>, noise(Advance(ts)))
        [] t = K("rollback") -> Node(<<"Rollback">>, noise(Advance(ts)))
        [] OTHER -> Syntax

\* parse_statements: those of a text after `seen`, separated by semicolons.
ParseStatements(ts, seen) ==
  LET RECURSIVE skip(_)
      skip(r) == IF Peek(r) = Sym(";") THEN skip(Advance(r)) ELSE r
  IN  IF skip(ts) = <<>> THEN Ok(seen)
      ELSE Parsed(Parse(<<"statement">>, skip(ts), 0), LAMBDA s, r :
             IF r = <<>> THEN Ok(Append(seen, s))
             ELSE IF Peek(r) = Sym(";") THEN Parse(<<"statements", Append(seen, s)>>, r, 0) ELSE Syntax)

\* The rules that call one another, by name: the one recursion of the grammar.
Parse(rule, ts, d) ==
  CASE rule[1] = "subexpr" -> ParseSubexpr(ts, rule[2], d)
    [] rule[1] = "query" -> ParseQuery(ts, d)
    [] rule[1] = "block" -> ParseProcBlock(ts, rule[2], d)
    [] rule[1] = "statement" -> ParseStatement(ts, d)
    [] rule[1] = "statements" -> ParseStatements(ts, rule[2])

\* parse, of a text already split into tokens.
ParseSql(ts) == Parse(<<"statements", <<>>>>, ts, 0)

----------------------------------------------------------------------------
(* From a parsed definition to a schema.                                   *)

\* column_default: a literal, possibly signed.  CURRENT_TIMESTAMP is left out.
ColumnDefault(e) ==
  LET inner == e.args[1]
      isNumber(x) == Kind(x) = "Literal" /\ x.op[2][1] \in {"Int", "Float8"}
      negative(v) == IF v[1] = "Int" THEN Ok(ValueOf(<<"Int", -v[2]>>)) ELSE Negate(v)
  IN  CASE Kind(e) = "Literal" -> Ok(ValueOf(e.op[2]))
        [] Kind(e) = "UnaryPlus" /\ Kind(inner) = "Literal" -> Ok(ValueOf(inner.op[2]))
        [] Kind(e) = "UnaryMinus" /\ isNumber(inner) -> negative(inner.op[2])
        [] OTHER -> Err("definition")

HasConstraint(spec, tags) == \E i \in DOMAIN spec.constraints : spec.constraints[i][1] \in tags

ToColumnDef(spec, primaryKey) ==
  LET defaults == SelectSeq(spec.constraints, LAMBDA c : c[1] = "Default")
      column(d) == [name |-> spec.name, type |-> spec.type, default |-> d,
                    nullable |-> ~primaryKey /\ ~HasConstraint(spec, {"NotNull", "PrimaryKey"})]
  IN  IF defaults = <<>> THEN Ok(column(None))
      ELSE Then(ColumnDefault(defaults[1][2]), LAMBDA v : Ok(column(Some(v))))

ToSchema(create) ==
  LET pk(name) == \E i \in DOMAIN create.keys : create.keys[i][1] = "PrimaryKey" /\ Contains(create.keys[i][2], name)
  IN  MapR(create.specs, LAMBDA s : ToColumnDef(s, pk(s.name)))

\* unique_keys: the column sets declared unique, primary keys first.
DeclaredKeys(create) ==
  LET tableLevel(tag) == LET ks == SelectSeq(create.keys, LAMBDA k : k[1] = tag) IN [i \in DOMAIN ks |-> ks[i][2]]
      columnLevel(tag) == LET cs == SelectSeq(create.specs, LAMBDA s : HasConstraint(s, {tag}))
                          IN  [i \in DOMAIN cs |-> <<cs[i].name>>]
      all == tableLevel("PrimaryKey") \o columnLevel("PrimaryKey") \o tableLevel("Unique") \o columnLevel("Unique")
      firsts == SelectSeq([i \in DOMAIN all |-> i], LAMBDA i : i = 1 \/ all[i] # all[i - 1])
  IN  [i \in DOMAIN firsts |-> all[firsts[i]]]

\* typecheck_defaults: a default has its column's type.
TypecheckDefaults(schema) ==
  LET checked(c) ==
        IF c.default = None THEN Ok(c)
        ELSE LET v == Coerce(Lit(c.default[1]), c.type).op[2]
             IN  CASE IsNullValue(v) -> IF c.nullable THEN Ok(c) ELSE Err("definition")
                   [] TypeOf(v) # c.type -> Err("definition")
                   [] OTHER -> Ok([c EXCEPT !.default = Some(v)])
  IN  MapR(schema, checked)
============================================================================
