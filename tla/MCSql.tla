------------------------------- MODULE MCSql -------------------------------
(***************************************************************************)
(* Sql for TLC: the sessions it explores.  Texts are written as words; a   *)
(* word is a keyword, a symbol, a number, a quoted text or a name.         *)
(***************************************************************************)
EXTENDS Sql

Keywords ==
  {"select", "distinct", "from", "where", "group", "by", "having", "order", "limit", "offset", "as", "and", "or",
   "not", "null", "true", "false", "is", "in", "between", "like", "ilike", "collate", "cast", "case", "when", "then",
   "else", "end", "exists", "join", "cross", "inner", "left", "right", "full", "outer", "on", "using", "union",
   "all", "with", "asc", "desc", "nulls", "first", "last", "insert", "into", "values", "update", "set", "delete",
   "conflict", "do", "nothing", "replace", "returning", "begin", "commit", "rollback", "start", "transaction",
   "create", "table", "unique", "index", "primary", "key", "default", "alter", "add", "column", "if", "drop",
   "int", "bigint", "text", "bool", "double", "precision", "varchar", "procedure", "function", "trigger", "before", "after",
   "for", "each", "row", "execute", "call", "return", "raise", "elsif", "cascade"}

Symbols == {"(", ")", ",", ";", ".", "*", "+", "-", "/", "%", "||", "=", "<>", "<", "<=", ">", ">="}

Numbers == ("0" :> 0) @@ ("1" :> 1) @@ ("2" :> 2) @@ ("3" :> 3) @@ ("4" :> 4) @@ ("5" :> 5) @@ ("6" :> 6) @@ ("7" :> 7)
             @@ ("60" :> 60)

Strings == ("''" :> <<>>) @@ ("'a'" :> <<"a">>) @@ ("'b'" :> <<"b">>) @@ ("'A'" :> <<"A">>) @@ ("'ab'" :> <<"a", "b">>)
             @@ ("'12'" :> <<"1", "2">>)

Word(w) == CASE w \in Keywords -> K(w)
             [] w \in Symbols -> Sym(w)
             [] w \in DOMAIN Numbers -> Number(Numbers[w])
             [] w \in DOMAIN Strings -> StringLit(Strings[w])
             [] w = "$1" -> Param(1)
             [] w = "0.5" -> Decimals(1, 2)
             [] OTHER -> Ident(w)

Tokens(words) == [i \in DOMAIN words |-> Word(words[i])]

----------------------------------------------------------------------------
(* The tables: a has a primary key, b repeats its key, c is empty.         *)

CreateA == Tokens(<<"create", "table", "a", "(", "id", "int", "primary", "key", ",", "x", "int", ",", "s", "text", ")">>)
CreateB == Tokens(<<"create", "table", "b", "(", "id", "int", "not", "null", ",", "y", "bigint", "default", "5", ")">>)
CreateC == Tokens(<<"create", "table", "c", "(", "id", "int", ",", "z", "double", "precision", ",", "unique", "(", "id", ",", "z", ")", ")">>)

RowsA == <<<<Int4(1), Int4(1), Text(<<"a">>)>>, <<Int4(2), Null, Text(<<"B">>)>>, <<Int4(3), Int4(2), Text(<<"b">>)>>>>
RowsB == <<<<Int4(1), Int8(3)>>, <<Int4(1), Null>>, <<Int4(4), Int8(2)>>>>

Base == [texts |-> <<>>, meant |-> None, params |-> <<>>, roles |-> {{"Admin"}}, triggers |-> <<>>,
         creates |-> <<CreateA, CreateB, CreateC>>, rows |-> <<RowsA, RowsB, <<>>>>, ddl |-> <<>>]

One(words) == [Base EXCEPT !.texts = <<Tokens(words)>>]

----------------------------------------------------------------------------
(* Every small condition: SELECT id FROM a WHERE condition.                *)

X == Col(None, "x")
IntLit(n) == E(<<"Literal", <<"Int", n>>>>, <<>>)
NullLit == Lit(Null)

Operators == {"Or", "And", "Eq", "Concat", "Plus", "Minus", "Multiply"}

\* A test or prefix operator on an operand.
Tested(k, e) ==
  CASE k = "Not" -> Not(e)
    [] k = "UnaryMinus" -> E(<<"UnaryMinus">>, <<e>>)
    [] k = "IsNull" -> E(<<"IsNull", FALSE>>, <<e>>)
    [] k = "IsNotNull" -> E(<<"IsNull", TRUE>>, <<e>>)
    [] k = "Between" -> E(<<"Between", FALSE>>, <<e, IntLit(1), IntLit(1)>>)
    [] k = "NotBetween" -> E(<<"Between", TRUE>>, <<e, IntLit(2), X>>)
    [] k = "In" -> E(<<"InList", FALSE>>, <<e, IntLit(2), NullLit>>)
    [] k = "NotIn" -> E(<<"InList", TRUE>>, <<e, IntLit(2), IntLit(3)>>)
    [] k = "Like" -> E(<<"Like", TRUE, FALSE>>, <<e, Col(None, "s")>>)
    [] k = "Collate" -> E(<<"Collate", "nocase">>, <<e>>)

Tests == {"Not", "UnaryMinus", "IsNull", "IsNotNull", "Between", "NotBetween", "In", "NotIn", "Like", "Collate"}

\* Two operators in either shape, and an operator with a test on either side or around it.
Shapes ==
  UNION {{Bin(o, Bin(p, X, IntLit(1)), IntLit(2)), Bin(o, X, Bin(p, IntLit(2), IntLit(1)))} : o, p \in Operators}
    \cup UNION {{Bin(o, Tested(t, X), IntLit(1)), Bin(o, IntLit(1), Tested(t, X)), Tested(t, Bin(o, X, IntLit(1)))}
                : o \in Operators, t \in Tests}
    \cup {Bin("Eq", Bin(o, Bin(p, X, IntLit(1)), IntLit(2)), IntLit(4)) : o, p \in {"Plus", "Minus", "Multiply"}}

\* Three-valued logic on rows where x is 1, NULL and 2.
Truthy == {Bin("Eq", X, IntLit(1)), Bin("Lt", X, IntLit(2)), NullLit, Lit(Bool(TRUE)), Lit(Bool(FALSE))}
            \cup {Tested(t, X) : t \in {"IsNull", "Between", "In", "NotIn"}} \cup {Not(Bin("Eq", X, IntLit(1)))}

Logic == {Bin(o, l, r) : o \in {"And", "Or"}, l, r \in Truthy}
           \cup {Not(Bin(o, l, Not(r))) : o \in {"And", "Or"}, l, r \in Truthy}

\* Every pattern of up to three characters.
Patterns == UNION {[1 .. n -> {"a", "%", "_", "\\"}] : n \in 0 .. 3}

Texts == <<<<>>, <<"a">>, <<"%">>, <<"a", "b">>, <<"b", "a">>, <<"a", "\\", "a">>>>

Likes == {E(<<"Like", FALSE, FALSE>>, <<Col(None, "s"), Lit(Text(p))>>) : p \in Patterns}

Condition(e) == [One(<<"select", "id", "from", "a", "where">>) EXCEPT !.texts[1] = @ \o Written(e, 0), !.meant = Some(e)]

Conditions ==
  {Condition(e) : e \in Shapes \cup Logic}
    \cup {[Condition(e) EXCEPT !.rows[1] = [i \in DOMAIN Texts |-> <<Int4(i), Null, Text(Texts[i])>>]] : e \in Likes}

----------------------------------------------------------------------------
(* Queries.                                                                *)

SelectFrom(list, from) == <<"select">> \o list \o <<"from">> \o from

\* Joins of every type, with the condition, and a filter above it.
JoinTypes == {<<"join">>, <<"left", "join">>, <<"right", "outer", "join">>, <<"full", "join">>}

JoinOns == {<<"a", ".", "id", "=", "b", ".", "id">>,
            <<"a", ".", "id", "=", "b", ".", "id", "and", "y", ">", "2">>,
            <<"a", ".", "id", "=", "b", ".", "id", "and", "x", "=", "1">>,
            <<"x", "<", "y">>, <<"y", "=", "7">>}

JoinWheres == {<<>>, <<"where", "y", "is", "null">>, <<"where", "x", "=", "1">>, <<"where", "y", "=", "3", "and", "s", "=", "'a'">>,
               <<"where", "x", "+", "0", "<", "y">>}

Joins == {One(SelectFrom(<<"*">>, <<"a">> \o j \o <<"b", "on">> \o on \o where)) :
            j \in JoinTypes, on \in JoinOns, where \in JoinWheres}

Queries == {One(q) : q \in {
  SelectFrom(<<"*">>, <<"a", ",", "b", "where", "a", ".", "id", "=", "b", ".", "id">>),
  SelectFrom(<<"a", ".", "*", ",", "y">>, <<"a", "cross", "join", "b", "where", "y", "=", "x", "+", "1">>),
  SelectFrom(<<"*">>, <<"a", "join", "b", "using", "(", "id", ")">>),
  SelectFrom(<<"*">>, <<"b", "left", "join", "a", "as", "t", "using", "(", "id", ")", "where", "t", ".", "id", "=", "1">>),
  SelectFrom(<<"a", ".", "s", ",", "b", ".", "y">>, <<"a", "left", "join", "b", "on", "a", ".", "id", "=", "b", ".", "id",
             "left", "join", "c", "on", "b", ".", "y", "=", "c", ".", "z">>),
  SelectFrom(<<"*">>, <<"a", ",", "b", ",", "a", "as", "t">>),
  SelectFrom(<<"id">>, <<"a", ",", "b">>),
  SelectFrom(<<"*">>, <<"c">>),
  SelectFrom(<<"count", "(", "*", ")", ",", "sum", "(", "id", ")", ",", "min", "(", "z", ")", ",", "avg", "(", "id", ")">>, <<"c">>),
  SelectFrom(<<"id", ",", "count", "(", "*", ")", ",", "count", "(", "y", ")", ",", "sum", "(", "y", ")", ",", "max", "(", "y", ")">>,
             <<"b", "group", "by", "id", "order", "by", "2", "desc">>),
  SelectFrom(<<"id", "+", "1", "as", "n", ",", "avg", "(", "y", ")">>, <<"b", "group", "by", "n", "having", "count", "(", "*", ")", ">", "1">>),
  SelectFrom(<<"id", "+", "1">>, <<"b", "group", "by", "id", "+", "1", "order", "by", "count", "(", "y", ")", ",", "id", "+", "1">>),
  SelectFrom(<<"count", "(", "distinct", "id", ")", ",", "sum", "(", "distinct", "id", ")">>, <<"b">>),
  SelectFrom(<<"y">>, <<"b", "group", "by", "id">>),
  SelectFrom(<<"sum", "(", "s", ")">>, <<"a">>),
  SelectFrom(<<"sum", "(", "id", "*", "0.5", ")", ",", "avg", "(", "0.5", ")">>, <<"b">>),
  SelectFrom(<<"sum", "(", "y", "*", "60", ")">>, <<"b">>),
  SelectFrom(<<"distinct", "id">>, <<"b", "order", "by", "id", "desc">>),
  SelectFrom(<<"distinct", "id", ",", "y", "is", "null">>, <<"b">>),
  SelectFrom(<<"id", ",", "x">>, <<"a", "order", "by", "x">>),
  SelectFrom(<<"id", ",", "x">>, <<"a", "order", "by", "x", "desc", ",", "id">>),
  SelectFrom(<<"id", ",", "x">>, <<"a", "order", "by", "x", "nulls", "first", "limit", "2">>),
  SelectFrom(<<"id", "as", "x">>, <<"a", "order", "by", "x", "desc", "nulls", "last", "limit", "1", "offset", "1">>),
  SelectFrom(<<"s">>, <<"a", "order", "by", "s", "collate", "nocase", ",", "s">>),
  SelectFrom(<<"s">>, <<"a", "order", "by", "s", "limit", "all", "offset", "2">>),
  SelectFrom(<<"*">>, <<"a", "limit", "0">>),
  SelectFrom(<<"*">>, <<"a", "limit", "null", "offset", "7">>),
  SelectFrom(<<"*">>, <<"a", "limit", "-", "1">>),
  SelectFrom(<<"id">>, <<"a", "where", "s", "collate", "nocase", "=", "'b'">>),
  SelectFrom(<<"id">>, <<"a", "where", "s", "collate", "unknown", "=", "'b'">>),
  SelectFrom(<<"id">>, <<"a", "where", "s", "not", "ilike", "'A'">>),
  SelectFrom(<<"id">>, <<"a", "where", "id", "=", "1", "and", "x", "=", "1">>),
  SelectFrom(<<"id">>, <<"a", "where", "x", "=", "1", "and", "2", "=", "id">>),
  SelectFrom(<<"id">>, <<"a", "where", "id", "=", "null">>),
  SelectFrom(<<"id">>, <<"a", "where", "s", "=", "1">>),
  SelectFrom(<<"id">>, <<"a", "where", "7", "/", "(", "x", "-", "1", ")", "=", "7">>),
  SelectFrom(<<"id">>, <<"a", "where", "7", "%", "x", "=", "1", "or", "id", "=", "2">>),
  SelectFrom(<<"x", "+", "7">>, <<"a">>),
  SelectFrom(<<"-", "x", ",", "+", "x", ",", "y", "+", "x">>, <<"a", "join", "b", "on", "true">>),
  SelectFrom(<<"id">>, <<"a", "where", "id", "in", "(", "select", "id", "from", "b", ")">>),
  SelectFrom(<<"id">>, <<"a", "where", "x", "not", "in", "(", "select", "id", "from", "b", "where", "y", "is", "null", ")">>),
  SelectFrom(<<"id">>, <<"a", "where", "x", "not", "in", "(", "select", "y", "from", "b", ")">>),
  SelectFrom(<<"id">>, <<"a", "where", "x", "not", "in", "(", "select", "id", "from", "c", ")">>),
  SelectFrom(<<"id">>, <<"a", "where", "x", "in", "(", "select", "*", "from", "b", ")">>),
  SelectFrom(<<"id">>, <<"a", "where", "exists", "(", "select", "*", "from", "b", ")">>),
  SelectFrom(<<"case", "x", "when", "1", "then", "'a'", "when", "2", "then", "s", "end">>, <<"a">>),
  SelectFrom(<<"case", "when", "x", "=", "2", "then", "id", "else", "7", "/", "x", "end">>, <<"a">>),
  SelectFrom(<<"coalesce", "(", "x", ",", "id", ")", ",", "upper", "(", "s", ")", ",", "substr", "(", "s", "||", "'ab'", ",", "2", ",", "2", ")">>, <<"a">>),
  SelectFrom(<<"substr", "(", "'ab'", ",", "-", "1", ")", ",", "lower", "(", "'A'", ")", ",", "substr", "(", "s", ",", "x", ",", "0", ")">>, <<"a">>),
  SelectFrom(<<"cast", "(", "'12'", "as", "bigint", ")", ",", "cast", "(", "x", "as", "text", ")", ",", "cast", "(", "x", "as", "bool", ")">>, <<"a">>),
  SelectFrom(<<"cast", "(", "'12'", "as", "int", ")">>, <<"a">>),
  SelectFrom(<<"cast", "(", "s", "as", "int", ")">>, <<"a">>),
  SelectFrom(<<"substr", "(", "s", ")">>, <<"a">>),
  SelectFrom(<<"*">>, <<"a", "where", "id", "=", "$1">>),
  SelectFrom(<<"*">>, <<"missing">>),
  SelectFrom(<<"missing">>, <<"a">>),
  SelectFrom(<<"*">>, <<"(", "select", "id", "from", "a", ")", "as", "t">>),
  <<"(", "select", "id", "from", "a", "order", "by", "id", "limit", "1", ")">>,
  <<"(", "select", "id", "from", "a", ")", "limit", "1">>,
  <<"select", "1">>,
  <<"select", "id", "from", "a", "union", "select", "id", "from", "b">>,
  <<"with", "t", "as", "(", "select", "id", "from", "a", ")", "select", "id", "from", "a">>,
  <<"select", "id", "from", "a", "where", "x", "=">>,
  <<"select", "id", "from", "a", "where", "(", "(", "(", "(", "(", "(", "(", "(", "(", "x", ")", ")", ")", ")", ")", ")", ")", ")", ")">>,
  <<>>,
  <<"call", "twice", "(", "3", ")">>,
  <<"call", "twice", "(", "4", ")">>,
  <<"call", "once", "(", ")">>,
  <<"drop", "trigger", "t", "on", "a">>,
  <<"create", "procedure", "p", "(", "n", "int", ")", "as", "begin", "if", "n", ">", "1", "then", "raise", "'a'", ";",
    "elsif", "n", "=", "1", "then", "delete", "from", "a", ";", "else", "return", "n", ";", "end", "if", ";", "end">>,
  <<"create", "trigger", "t", "before", "insert", "or", "update", "on", "a", "for", "each", "row", "execute", "procedure", "p", "(", ")">>}}

\* A condition of 36 terms.
LongChain == [One(<<"select", "id", "from", "a", "where">>) EXCEPT
                !.texts[1] = @ \o FlattenSeq([i \in 1 .. 36 |-> (IF i > 1 THEN <<K("and")>> ELSE <<>>) \o <<K("true")>>])]

----------------------------------------------------------------------------
(* Writes, blocks, triggers, roles and definitions.                        *)

InsertA(values) == <<"insert", "into", "a", "values">> \o values
UpsertA == InsertA(<<"(", "3", ",", "4", ",", "'a'", ")", ",", "(", "4", ",", "4", ",", "null", ")", ",", "(", "4", ",", "6", ",", "'b'", ")">>)

WriteWords == {
  InsertA(<<"(", "4", ",", "4", ",", "'a'", ")", ",", "(", "5", ",", "null", ",", "null", ")">>),
  InsertA(<<"(", "4", ",", "4", ",", "'a'", ")", ",", "(", "1", ",", "4", ",", "'a'", ")">>),
  InsertA(<<"(", "null", ",", "4", ",", "'a'", ")">>),
  InsertA(<<"(", "4", ",", "'a'", ",", "'a'", ")">>),
  InsertA(<<"(", "4", ",", "4", ")">>),
  InsertA(<<"(", "7", "+", "1", ",", "4", ",", "'a'", ")">>),
  InsertA(<<"(", "4", ",", "4", ",", "'a'", ")", "returning", "id">>),
  <<"insert", "into", "b", "(", "id", ")", "values", "(", "7", ")">>,
  <<"insert", "into", "b", "(", "y", ",", "id", ")", "values", "(", "3", "+", "4", ",", "1", ")">>,
  <<"insert", "into", "c", "values", "(", "1", ",", "2", ")", ",", "(", "1", ",", "null", ")", ",", "(", "1", ",", "null", ")", ",", "(", "1", ",", "2", ")">>,
  <<"insert", "into", "b", "select", "id", ",", "id", "from", "a">>,
  <<"insert", "or", "ignore", "into", "a", "values", "(", "1", ",", "1", ",", "null", ")", ",", "(", "4", ",", "1", ",", "null", ")">>,
  <<"insert", "or", "replace", "into", "a", "(", "id", ",", "x", ")", "values", "(", "1", ",", "7", ")">>,
  <<"insert", "or", "ignore", "into", "b", "values", "(", "1", ",", "1", ")">>,
  UpsertA \o <<"on", "conflict", "do", "nothing">>,
  UpsertA \o <<"on", "conflict", "(", "id", ")", "do", "update", "set", "x", "=", "excluded", ".", "x", ",", "s", "=", "a", ".", "s">>,
  UpsertA \o <<"on", "conflict", "(", "id", ")", "do", "update", "set", "x", "=", "a", ".", "x", "+", "excluded", ".", "x">>,
  UpsertA \o <<"on", "conflict", "(", "id", ")", "do", "update", "set", "x", "=", "0", "where", "excluded", ".", "s", "=", "'b'">>,
  UpsertA \o <<"on", "conflict", "(", "id", ")", "do", "update", "set", "id", "=", "1">>,
  UpsertA \o <<"on", "conflict", "(", "x", ")", "do", "nothing">>,
  <<"update", "a", "set", "id", "=", "id", "+", "3", ",", "x", "=", "id">>,
  <<"update", "a", "set", "id", "=", "id", "+", "1">>,
  <<"update", "a", "set", "id", "=", "7", "-", "id", "where", "x", "is", "not", "null">>,
  <<"update", "a", "set", "x", "=", "x", "+", "6">>,
  <<"update", "a", "as", "t", "set", "x", "=", "null", "where", "t", ".", "x", "<", "2">>,
  <<"update", "a", "set", "x", "=", "7", "where", "id", "in", "(", "select", "id", "from", "b", ")">>,
  <<"update", "a", "set", "id", "=", "null">>,
  <<"update", "b", "set", "y", "=", "id", ",", "id", "=", "id", "+", "1", "where", "y", "=", "3", "or", "id", "=", "4">>,
  <<"update", "b", "set", "y", "=", "'a'", "where", "id", "=", "4">>,
  <<"delete", "from", "a", "where", "x", "=", "1", "or", "s", "=", "'b'">>,
  <<"delete", "from", "b">>,
  <<"delete", "from", "b", "where", "y", "in", "(", "select", "x", "+", "1", "from", "a", ")">>,
  <<"delete", "from", "a", "where", "7", "/", "(", "x", "-", "2", ")", "<", "0">>}

Writes == {One(q) : q \in WriteWords}

\* Any write, then one of these on what it left, in a block that commits.
Followers == {
  UpsertA \o <<"on", "conflict", "(", "id", ")", "do", "update", "set", "x", "=", "excluded", ".", "x", ",", "s", "=", "a", ".", "s">>,
  <<"update", "a", "set", "id", "=", "7", "-", "id", "where", "x", "is", "not", "null">>,
  <<"delete", "from", "a", "where", "x", "=", "1", "or", "s", "=", "'b'">>,
  <<"select", "a", ".", "id", ",", "y">> \o <<"from", "a", "full", "join", "b", "on", "a", ".", "id", "=", "b", ".", "id", "where", "x", "=", "4", "or", "y", ">", "2">>,
  <<"insert", "into", "c", "values", "(", "1", ",", "2", ")">>}

Sequences == {[Base EXCEPT !.texts = <<Tokens(<<"begin", ";">> \o u \o <<";">> \o v), Tokens(<<"commit">>)>>] :
                u \in WriteWords, v \in Followers}

Blocks == {[Base EXCEPT !.texts = <<Tokens(t[1]), Tokens(t[2])>>] : t \in {
  <<<<"begin", ";", "delete", "from", "a", "where", "id", "=", "1", ";", "rollback">>, <<"select", "id", "from", "a">>>>,
  <<<<"begin", ";", "update", "a", "set", "x", "=", "x", "+", "6", ";", "delete", "from", "b">>, <<"commit">>>>,
  <<<<"start", "transaction", ";", "insert", "into", "b", "values", "(", "7", ",", "7", ")", ";", "begin", ";", "end">>, <<"select", "*", "from", "b", ";", "rollback">>>>,
  <<<<"delete", "from", "b", "where", "id", "=", "1", ";", "select", "*", "from", "b", ";", "select", "*", "from", "nowhere">>, <<"commit">>>>,
  <<<<"begin", ";", "delete", "from", "b", "where", "y", "=", "3", ";", "insert", "into", "b", "values", "(", "5", ",", "5", ")">>,
    <<"update", "b", "set", "y", "=", "1", "where", "id", "=", "4", ";", "commit", ";", "select", "*", "from", "b">>>>,
  <<<<"begin", ";", "delete", "from", "b">>, <<"select", "from">>>>}}

Trigger(table, event, on, does, row) == [table |-> table, event |-> event, on |-> on, does |-> does, row |-> row]

Triggered == {[One(t[1]) EXCEPT !.triggers = t[2]] : t \in {
  <<InsertA(<<"(", "4", ",", "4", ",", "'a'", ")", ",", "(", "5", ",", "null", ",", "null", ")">>),
    <<Trigger(1, "Insert", Int4(4), "skip", <<>>)>>>>,
  <<InsertA(<<"(", "5", ",", "4", ",", "'a'", ")", ",", "(", "4", ",", "null", ",", "null", ")">>),
    <<Trigger(1, "Insert", Int4(4), "refuse", <<>>)>>>>,
  <<InsertA(<<"(", "4", ",", "4", ",", "'a'", ")">>),
    <<Trigger(1, "Insert", Int4(4), "replace", <<Int4(5), Int4(1), Null>>), Trigger(1, "Insert", Int4(5), "replace", <<Int4(6), Null, Null>>)>>>>,
  <<InsertA(<<"(", "4", ",", "4", ",", "'a'", ")">>), <<Trigger(1, "Insert", Int4(4), "replace", <<Int4(1), Int4(1), Null>>)>>>>,
  <<InsertA(<<"(", "4", ",", "4", ",", "'a'", ")">>), <<Trigger(1, "Insert", Int4(4), "replace", <<Null, Int4(1)>>)>>>>,
  <<UpsertA \o <<"on", "conflict", "(", "id", ")", "do", "update", "set", "x", "=", "excluded", ".", "x">>,
    <<Trigger(1, "Update", Int4(3), "skip", <<>>), Trigger(1, "Insert", Int4(5), "skip", <<>>)>>>>,
  <<<<"update", "a", "set", "x", "=", "7">>,
    <<Trigger(1, "Update", Int4(2), "skip", <<>>), Trigger(1, "Update", Int4(3), "replace", <<Int4(3), Null, Null>>)>>>>,
  <<<<"delete", "from", "a">>, <<Trigger(1, "Delete", Int4(2), "skip", <<>>)>>>>,
  <<<<"delete", "from", "a">>, <<Trigger(1, "Delete", Int4(2), "replace", <<Int4(3), Null, Null>>)>>>>}}

Roles == {{{"Select"}}, {{"Insert"}}, {{"Insert"}, {"Update"}}, {{"Update", "Select"}}, {{"Delete"}}, {{"Execute"}}, {}}

Callers == {[One(q) EXCEPT !.roles = r] : r \in Roles, q \in {
  <<"select", "*", "from", "a">>,
  UpsertA \o <<"on", "conflict", "do", "nothing">>,
  UpsertA \o <<"on", "conflict", "(", "id", ")", "do", "update", "set", "x", "=", "1">>,
  <<"update", "a", "set", "x", "=", "7", "where", "id", "in", "(", "select", "id", "from", "b", ")">>,
  <<"delete", "from", "b", "where", "y", "in", "(", "select", "x", "+", "1", "from", "a", ")">>,
  <<"call", "twice", "(", "3", ")">>}}

Bound == {[One(<<"select", "-", "$1", ",", "id", "from", "a", "where", "id", "=", "$1">>) EXCEPT !.params = <<p>>] :
            p \in {Int4(1), Int8(2), Null, Float8(3, 1)}}

AddDefault == Tokens(<<"alter", "table", "a", "add", "column", "w", "int", "not", "null", "default", "1">>)
AddNotNull == Tokens(<<"alter", "table", "c", "add", "column", "w", "int", "not", "null">>)
UniqueX == Tokens(<<"create", "unique", "index", "a1", "on", "a", "(", "x", ")">>)
UniqueW == Tokens(<<"create", "unique", "index", "aw", "on", "a", "(", "w", ")">>)
DropKey == Tokens(<<"drop", "index", "a_key0">>)
IndexS == Tokens(<<"create", "index", "as1", "on", "a", "(", "s", ")">>)

Definitions ==
  {[One(q) EXCEPT !.ddl = d] : d \in {<<AddDefault, UniqueW>>, <<UniqueX, IndexS>>, <<AddNotNull>>, <<DropKey, UniqueX>>}, q \in {
     <<"insert", "into", "a", "(", "id", ",", "x", ")", "values", "(", "5", ",", "1", ")", ",", "(", "6", ",", "1", ")">>,
     <<"insert", "into", "c", "values", "(", "5", ",", "1", ")", ";", "select", "*", "from", "c">>,
     <<"insert", "or", "replace", "into", "a", "values", "(", "5", ",", "2", ",", "null", ")", ",", "(", "2", ",", "3", ",", "null", ")">>,
     <<"select", "*", "from", "a", "where", "s", "=", "'b'", ";", "update", "a", "set", "x", "=", "2", "where", "id", "=", "2">>,
     <<"begin", ";", "insert", "into", "c", "values", "(", "5", ",", "1", ")", ";", "commit">>}}
    \cup {[One(<<"insert", "into", "a", "values", "(", "1", ",", "1", ",", "null", ")">>) EXCEPT
             !.creates = <<CreateB, Tokens(<<"create", "index", "a_key0", "on", "b", "(", "id", ")">>), CreateA>>,
             !.rows = <<RowsB, RowsA>>],
          [One(<<"insert", "into", "a", "(", "id", ")", "values", "(", "7", ")", ";", "select", "*", "from", "a", "where", "w", "=", "1">>) EXCEPT
             !.creates = Append(@, AddDefault), !.ddl = <<UniqueW>>]}

\* Any write, whose commit may fail, then another write in a text of its own.
Doubts == {[Base EXCEPT !.texts = <<Tokens(u), Tokens(v)>>] : u \in WriteWords, v \in Followers \cup {
             <<"update", "a", "set", "x", "=", "7">>,
             <<"delete", "from", "b">>,
             InsertA(<<"(", "1", ",", "1", ",", "null", ")", ",", "(", "4", ",", "4", ",", "'a'", ")">>)}}

\* A block whose COMMIT may fail, then writes of the same rows and keys.
InsertB == <<"insert", "into", "b", "values", "(", "7", ",", "7", ")">>
UniqueY == Tokens(<<"create", "unique", "index", "b1", "on", "b", "(", "y", ")">>)

DoubtBlocks == {[Base EXCEPT !.texts = <<Tokens(<<"begin", ";">> \o b \o <<";", "commit">>), Tokens(v)>>,
                            !.creates = Append(@, UniqueY)] :
  b \in {InsertB \o <<";", "delete", "from", "b">>,
         <<"update", "b", "set", "y", "=", "1", "where", "id", "=", "4", ";", "delete", "from", "b", "where", "id", "=", "4">>,
         <<"update", "b", "set", "y", "=", "1", "where", "id", "=", "4">>},
  v \in {InsertB, <<"insert", "into", "b", "values", "(", "6", ",", "2", ")", ",", "(", "5", ",", "1", ")">>,
         <<"begin", ";", "delete", "from", "b">>}}

\* A filter built while a deletion is in flight that rolls back.
Blind == {[Base EXCEPT !.texts = <<Tokens(<<"begin", ";", "delete", "from", "a", "where", "id", "=", "1", ";">>
                                     \o InsertA(<<"(", "4", ",", "4", ",", "null", ")">>) \o <<";", "rollback">>),
                                   Tokens(InsertA(<<"(", "1", ",", "7", ",", "null", ")">>))>>]}

\* A column added, with a default, before a unique index on it.
Added == {[One(InsertA(<<"(", "4", ",", "4", ",", "'a'", ",", "2", ")">>)) EXCEPT !.creates = Append(@, AddDefault), !.ddl = <<UniqueW>>]}

\* A unique index dropped and created again while rows come in.
DropX == Tokens(<<"drop", "index", "a1">>)

Reindexed == {[Base EXCEPT !.texts = <<Tokens(InsertA(<<"(", "4", ",", "4", ",", "null", ")">>)),
                                         Tokens(InsertA(<<"(", "5", ",", "5", ",", "null", ")">>)),
                                         Tokens(InsertA(<<"(", "6", ",", "5", ",", "null", ")">>))>>,
                             !.creates = Append(@, UniqueX), !.ddl = <<DropX, UniqueX>>]}

\* The joins alone.
MCJoins == Joins

MCInputs == Conditions \cup Joins \cup Queries \cup {LongChain} \cup Writes \cup Sequences \cup Blocks \cup Triggered
              \cup Callers \cup Bound \cup Definitions \cup Doubts \cup DoubtBlocks \cup Blind \cup Added \cup Reindexed
=============================================================================
