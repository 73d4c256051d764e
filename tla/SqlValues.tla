----------------------------- MODULE SqlValues -----------------------------
(***************************************************************************)
(* SQL values and the operations expressions are built from: the value     *)
(* type of ferrite-common, the comparison, arithmetic and LIKE of          *)
(* ferrite-exec's eval.rs, and the scalar functions and CAST of its        *)
(* scalar.rs.                                                              *)
(*                                                                         *)
(* A value is <<type, payload>>.  Integers keep their two widths, scaled   *)
(* down to Int4Bits and Int8Bits so that overflow is reached; a Float8 is  *)
(* an exact fraction <<numerator, denominator>> (rounding, infinities and  *)
(* NaN are left out); a text is a sequence of characters.  Timestamps,     *)
(* UUIDs, hex, randomblob and the date functions are left out.             *)
(***************************************************************************)
EXTENDS Integers, Sequences, SequencesExt

CONSTANTS Int4Bits, Int8Bits

ASSUME WidthAssumption == Int4Bits \in Nat \ {0} /\ Int8Bits \in Nat /\ Int4Bits < Int8Bits

\* Result<T, FerriteError>: Err carries the kind of the error.
Ok(x) == [ok |-> TRUE, val |-> x]

Err(kind) == [ok |-> FALSE, val |-> kind]

\* The `?` operator, and collect::<Result<Vec<_>, _>>(), which stops at the first error.
Then(r, F(_)) == IF r.ok THEN F(r.val) ELSE r

Collect(rs) ==
  IF \A i \in DOMAIN rs : rs[i].ok
  THEN Ok([i \in DOMAIN rs |-> rs[i].val])
  ELSE rs[CHOOSE i \in DOMAIN rs : ~rs[i].ok /\ \A j \in 1 .. i - 1 : rs[j].ok]

\* Option<T>.
None == <<>>

Some(x) == <<x>>

----------------------------------------------------------------------------
(* Values.                                                                 *)

Null == <<"Null", 0>>

Bool(b) == <<"Boolean", b>>

Int4(n) == <<"Int4", n>>

Int8(n) == <<"Int8", n>>

Float8(n, d) == <<"Float8", <<n, d>>>>

Text(s) == <<"Text", s>>

Json(s) == <<"Json", s>>

TypeOf(v) == v[1]

IsNullValue(v) == v[1] = "Null"

Fits(bits, n) == -(2 ^ (bits - 1)) <= n /\ n < 2 ^ (bits - 1)

Abs(n) == IF n < 0 THEN -n ELSE n

\* Integer division as Rust rounds it, towards zero.
TruncDiv(a, b) == IF (a < 0) = (b < 0) THEN Abs(a) \div Abs(b) ELSE -(Abs(a) \div Abs(b))

\* A fraction in lowest terms with a positive denominator.
Ratio(n, d) ==
  LET g == CHOOSE x \in 1 .. Abs(n) + Abs(d) :
             /\ n % x = 0 /\ d % x = 0
             /\ \A y \in x + 1 .. Abs(n) + Abs(d) : n % y # 0 \/ d % y # 0
      s == IF d < 0 THEN -1 ELSE 1
  IN  <<s * TruncDiv(n, g), s * TruncDiv(d, g)>>

IsNumber(v) == TypeOf(v) \in {"Int4", "Int8", "Float8"}

AsFloat(v) == IF TypeOf(v) = "Float8" THEN v[2] ELSE <<v[2], 1>>

----------------------------------------------------------------------------
(* Comparison: Option<Ordering>, None when either side is NULL, the        *)
(* ordering being -1, 0 or 1.                                              *)

Sign(n) == IF n < 0 THEN -1 ELSE IF n > 0 THEN 1 ELSE 0

\* The collating order of the characters used.
Alphabet == <<" ", "%", "-", "0", "1", "2", "3", "4", "5", "6", "7", "8", "9",
              "A", "B", "\\", "_", "a", "b", "e", "f", "l", "n", "o", "r", "s", "t", "u", "y">>

CharCode(c) == CHOOSE i \in DOMAIN Alphabet : Alphabet[i] = c

CompareText(s, t) ==
  LET common == IF Len(s) < Len(t) THEN Len(s) ELSE Len(t)
      diff == {i \in 1 .. common : s[i] # t[i]}
  IN  IF diff = {} THEN Sign(Len(s) - Len(t))
      ELSE LET i == CHOOSE x \in diff : \A y \in diff : x <= y
           IN  Sign(CharCode(s[i]) - CharCode(t[i]))

Compare(l, r) ==
  LET tl == TypeOf(l)
      tr == TypeOf(r)
  IN  CASE IsNullValue(l) \/ IsNullValue(r) -> Ok(None)
        [] tl = "Boolean" /\ tr = "Boolean" ->
             Ok(Some(Sign((IF l[2] THEN 1 ELSE 0) - (IF r[2] THEN 1 ELSE 0))))
        [] tl = tr /\ tl \in {"Text", "Json"} -> Ok(Some(CompareText(l[2], r[2])))
        [] IsNumber(l) /\ IsNumber(r) ->
             LET a == AsFloat(l)
                 b == AsFloat(r)
             IN  Ok(Some(Sign(a[1] * b[2] - b[1] * a[2])))
        [] OTHER -> Err("type")

\* Whether an ordering satisfies a comparison operator.
Matches(op, ordering) ==
  CASE op = "Eq" -> ordering = 0
    [] op = "NotEq" -> ordering # 0
    [] op = "Lt" -> ordering = -1
    [] op = "LtEq" -> ordering # 1
    [] op = "Gt" -> ordering = 1
    [] op = "GtEq" -> ordering # -1

AsBool(v) ==
  IF TypeOf(v) \in {"Null", "Boolean"} THEN Ok(v) ELSE Err("type")

----------------------------------------------------------------------------
(* Arithmetic.                                                             *)

\* checked_add and its siblings on i64; an overflowing division is reported
\* as a division by zero, because checked_div returns None for both.
IntegerOp(op, a, b) ==
  LET checked(n) == IF Fits(Int8Bits, n) THEN Ok(n) ELSE Err("overflow")
      divided(n) == IF Fits(Int8Bits, n) THEN Ok(n) ELSE Err("div0")
  IN  CASE op = "Plus" -> checked(a + b)
        [] op = "Minus" -> checked(a - b)
        [] op = "Multiply" -> checked(a * b)
        [] op \in {"Divide", "Modulo"} /\ b = 0 -> Err("div0")
        [] op = "Divide" -> divided(TruncDiv(a, b))
        [] op = "Modulo" -> Then(divided(TruncDiv(a, b)), LAMBDA q : Ok(a - b * q))

FloatOp(op, a, b) ==
  LET quotient == Ratio(a[1] * b[2], a[2] * b[1])
      whole == TruncDiv(quotient[1], quotient[2])
  IN  CASE op = "Plus" -> Ok(Ratio(a[1] * b[2] + b[1] * a[2], a[2] * b[2]))
        [] op = "Minus" -> Ok(Ratio(a[1] * b[2] - b[1] * a[2], a[2] * b[2]))
        [] op = "Multiply" -> Ok(Ratio(a[1] * b[1], a[2] * b[2]))
        [] op \in {"Divide", "Modulo"} /\ b[1] = 0 -> Err("div0")
        [] op = "Divide" -> Ok(quotient)
        [] op = "Modulo" -> Ok(Ratio(a[1] * b[2] - whole * b[1] * a[2], a[2] * b[2]))

Arithmetic(op, l, r) ==
  LET tl == TypeOf(l)
      tr == TypeOf(r)
  IN  CASE IsNullValue(l) \/ IsNullValue(r) -> Ok(Null)
        [] op = "Concat" ->
             IF tl = "Text" /\ tr = "Text" THEN Ok(Text(l[2] \o r[2])) ELSE Err("type")
        [] ~IsNumber(l) \/ ~IsNumber(r) -> Err("type")
        [] tl = "Float8" \/ tr = "Float8" ->
             Then(FloatOp(op, AsFloat(l), AsFloat(r)), LAMBDA q : Ok(<<"Float8", q>>))
        [] tl = "Int4" /\ tr = "Int4" ->
             Then(IntegerOp(op, l[2], r[2]),
                  LAMBDA n : IF Fits(Int4Bits, n) THEN Ok(Int4(n)) ELSE Err("overflow"))
        [] OTHER -> Then(IntegerOp(op, l[2], r[2]), LAMBDA n : Ok(Int8(n)))

----------------------------------------------------------------------------
(* LIKE.  The loop of like_matches: t and p are the positions read next,   *)
(* star and resume the last % seen and the text position it restarts from  *)
(* (0 when no % has been seen).                                            *)

RECURSIVE LikeLoop(_, _, _, _, _, _)
LikeLoop(text, pattern, t, p, star, resume) ==
  IF t > Len(text)
  THEN \A i \in p .. Len(pattern) : pattern[i] = "%"
  ELSE IF p <= Len(pattern) /\ pattern[p] = "%"
  THEN LikeLoop(text, pattern, t, p + 1, p, t)
  ELSE IF p <= Len(pattern) /\ pattern[p] = "_"
  THEN LikeLoop(text, pattern, t + 1, p + 1, star, resume)
  ELSE IF p < Len(pattern) /\ pattern[p] = "\\" /\ pattern[p + 1] = text[t]
  THEN LikeLoop(text, pattern, t + 1, p + 2, star, resume)
  ELSE IF p <= Len(pattern) /\ pattern[p] # "\\" /\ pattern[p] = text[t]
  THEN LikeLoop(text, pattern, t + 1, p + 1, star, resume)
  ELSE /\ star # 0
       /\ LikeLoop(text, pattern, resume + 1, star + 1, star, resume + 1)

LikeMatches(text, pattern) == LikeLoop(text, pattern, 1, 1, 0, 0)

LowerChar(c) == CASE c = "A" -> "a" [] c = "B" -> "b" [] OTHER -> c

UpperChar(c) == CASE c = "a" -> "A" [] c = "b" -> "B" [] OTHER -> c

ToLowercase(s) == [i \in DOMAIN s |-> LowerChar(s[i])]

ToUppercase(s) == [i \in DOMAIN s |-> UpperChar(s[i])]

LikeValue(subject, pattern, negated, caseInsensitive) ==
  CASE IsNullValue(subject) \/ IsNullValue(pattern) -> Ok(Null)
    [] TypeOf(subject) = "Text" /\ TypeOf(pattern) = "Text" ->
         LET fold(s) == IF caseInsensitive THEN ToLowercase(s) ELSE s
         IN  Ok(Bool(LikeMatches(fold(subject[2]), fold(pattern[2])) # negated))
    [] OTHER -> Err("type")

----------------------------------------------------------------------------
(* CAST and the scalar functions.                                          *)

Digit(n) == <<"0", "1", "2", "3", "4", "5", "6", "7", "8", "9">>[n + 1]

RECURSIVE Digits(_)
Digits(n) == IF n < 10 THEN <<Digit(n)>> ELSE Append(Digits(n \div 10), Digit(n % 10))

Decimal(n) == IF n < 0 THEN <<"-">> \o Digits(-n) ELSE Digits(n)

Trim(s) ==
  LET solid == {i \in DOMAIN s : s[i] # " "}
  IN  IF solid = {} THEN <<>>
      ELSE SubSeq(s, CHOOSE i \in solid : \A j \in solid : i <= j,
                     CHOOSE i \in solid : \A j \in solid : j <= i)

\* str::parse::<i64>: the integer a text spells, if it spells one that fits.
ParseInteger(s) ==
  LET all == {n \in -(2 ^ (Int8Bits - 1)) .. 2 ^ (Int8Bits - 1) - 1 : Decimal(n) = s}
  IN  IF all = {} THEN Err("cast") ELSE Ok(CHOOSE n \in all : TRUE)

TrueWords == {<<"t">>, <<"t", "r", "u", "e">>, <<"y">>, <<"y", "e", "s">>, <<"o", "n">>, <<"1">>}

FalseWords == {<<"f">>, <<"f", "a", "l", "s", "e">>, <<"n">>, <<"n", "o">>, <<"o", "f", "f">>, <<"0">>}

\* The text a value casts to (a Float8 only when it is whole).
RenderText(v) ==
  CASE TypeOf(v) = "Boolean" -> IF v[2] THEN <<"t", "r", "u", "e">> ELSE <<"f", "a", "l", "s", "e">>
    [] TypeOf(v) \in {"Int4", "Int8"} -> Decimal(v[2])
    [] TypeOf(v) \in {"Text", "Json"} -> v[2]
    [] TypeOf(v) = "Float8" -> Decimal(TruncDiv(v[2][1], v[2][2]))

ToInteger(v) ==
  CASE TypeOf(v) = "Boolean" -> Ok(IF v[2] THEN 1 ELSE 0)
    [] TypeOf(v) \in {"Int4", "Int8"} -> Ok(v[2])
    [] TypeOf(v) = "Float8" -> Ok(TruncDiv(v[2][1], v[2][2]))
    [] TypeOf(v) = "Text" -> ParseInteger(Trim(v[2]))
    [] OTHER -> Err("cast")

Cast(v, target) ==
  CASE IsNullValue(v) -> Ok(Null)
    [] target = "Text" -> Ok(Text(RenderText(v)))
    [] target = "Boolean" ->
        (CASE TypeOf(v) = "Boolean" -> Ok(v)
           [] TypeOf(v) \in {"Int4", "Int8"} -> Ok(Bool(v[2] # 0))
           [] TypeOf(v) = "Text" /\ ToLowercase(Trim(v[2])) \in TrueWords -> Ok(Bool(TRUE))
           [] TypeOf(v) = "Text" /\ ToLowercase(Trim(v[2])) \in FalseWords -> Ok(Bool(FALSE))
           [] OTHER -> Err("cast"))
    [] target = "Int4" ->
         Then(ToInteger(v), LAMBDA n : IF Fits(Int4Bits, n) THEN Ok(Int4(n)) ELSE Err("overflow"))
    [] target = "Int8" -> Then(ToInteger(v), LAMBDA n : Ok(Int8(n)))
    [] target = "Float8" ->
        (CASE IsNumber(v) -> Ok(<<"Float8", AsFloat(v)>>)
           [] TypeOf(v) = "Text" -> Then(ParseInteger(Trim(v[2])), LAMBDA n : Ok(Float8(n, 1)))
           [] OTHER -> Err("cast"))
    [] target = "Json" -> IF TypeOf(v) \in {"Json", "Text"} THEN Ok(Json(v[2])) ELSE Err("cast")

MapText(v, F(_)) ==
  CASE IsNullValue(v) -> Ok(Null)
    [] TypeOf(v) \in {"Text", "Json"} -> Ok(Text(F(v[2])))
    [] OTHER -> Err("type")

\* An integer argument of a function, or Null.
IntegerArg(v) ==
  IF IsNullValue(v) \/ TypeOf(v) \in {"Int4", "Int8"} THEN Ok(v) ELSE Err("type")

\* substr(s, start [, len]): 1-based, a negative start counts from the end.
Substr(args) ==
  LET s == args[1][2]
      begin(n) == LET raw == IF n = 0 THEN 0
                             ELSE IF n > 0 THEN n - 1
                             ELSE IF Len(s) + n < 0 THEN 0 ELSE Len(s) + n
                  IN  IF raw > Len(s) THEN Len(s) ELSE raw
      end(b, n) == IF n <= 0 THEN b ELSE IF b + n > Len(s) THEN Len(s) ELSE b + n
      cut(b, e) == Ok(Text(SubSeq(s, b + 1, e)))
      from(start) ==
        IF IsNullValue(start) THEN Ok(Null)
        ELSE IF Len(args) < 3 THEN cut(begin(start[2]), Len(s))
        ELSE Then(IntegerArg(args[3]),
                  LAMBDA len : IF IsNullValue(len) THEN Ok(Null)
                               ELSE cut(begin(start[2]), end(begin(start[2]), len[2])))
  IN  CASE IsNullValue(args[1]) -> Ok(Null)
        [] TypeOf(args[1]) # "Text" -> Err("type")
        [] OTHER -> Then(IntegerArg(args[2]), from)

\* scalar::call, on evaluated arguments.
CallScalar(func, args) ==
  CASE func = "coalesce" ->
         Ok(IF \A i \in DOMAIN args : IsNullValue(args[i]) THEN Null
            ELSE args[CHOOSE i \in DOMAIN args :
                        ~IsNullValue(args[i]) /\ \A j \in 1 .. i - 1 : IsNullValue(args[j])])
    [] func = "lower" -> MapText(args[1], ToLowercase)
    [] func = "upper" -> MapText(args[1], ToUppercase)
    [] func = "nocase" ->
         Ok(IF TypeOf(args[1]) = "Text" THEN Text(ToLowercase(args[1][2])) ELSE args[1])
    [] func = "substr" -> Substr(args)

\* ScalarFunc::check_arity; "many" stands for no upper bound.
Arity(func) ==
  CASE func = "coalesce" -> <<1, "many">>
    [] func = "substr" -> <<2, 3>>
    [] OTHER -> <<1, 1>>

ScalarFuncs == {"coalesce", "lower", "upper", "nocase", "substr"}

ArityFits(func, n) ==
  n >= Arity(func)[1] /\ (func = "coalesce" \/ n <= Arity(func)[2])
============================================================================
