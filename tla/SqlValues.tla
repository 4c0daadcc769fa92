----------------------------- MODULE SqlValues ------------------------------
(***************************************************************************)
(* Values of the SQL engine: what an expression computes, what a column    *)
(* stores, and how a condition compares (sql/operations/expression.rs,     *)
(* sql/operations/comparison.rs, set_field_value of query_executor.rs).    *)
(*                                                                         *)
(* A typed value is [ty, n, d, s].  The number is n / d, where d is 1 but  *)
(* for floats; a Boolean is 0 or 1.  s is the text: a sequence of          *)
(* characters, which are numbers, the digits being 0 .. 9.  An integer     *)
(* type ty has SqBits[ty] bits; an integer made a float keeps SqMantissa   *)
(* of them (arithmetic on floats is not rounded further).                  *)
(* Vectors, JSON documents and time strings are left out.                  *)
(***************************************************************************)
EXTENDS Integers, Sequences, FiniteSets

CONSTANTS SqBits,      \* width of each integer type of the run
          SqMantissa,  \* 53
          SqStrMax,    \* MAX_STRING_LEN
          SqMaxDepth   \* MAX_RECURSION_DEPTH

Signed == {"Int8", "Int16", "Int32", "Int64"}
Unsigned == {"UInt8", "UInt16", "UInt32", "UInt64"}
Ints == Signed \cup Unsigned
Floats == {"Float32", "Float64"}
Numeric == Ints \cup Floats
Times == {"Timestamp", "TimestampTZ"}
Strings == {"VarChar", "Char", "Text"}

Num(ty, n) == [ty |-> ty, n |-> n, d |-> 1, s |-> <<>>]
Flt(n, d) == [Num("Float64", n) EXCEPT !.d = d]
Str(ty, s) == [Num(ty, 0) EXCEPT !.s = s]
Bool(b) == Num("Bool", IF b THEN 1 ELSE 0)
Fail(e) == Num(e, 0)
Failed(x) == x.ty \in {"TypeMismatch", "InternalError", "FieldNotFound"}

TypeMin(ty) == IF ty \in Signed THEN -(2^(SqBits[ty] - 1)) ELSE 0
TypeMax(ty) == IF ty \in Signed THEN 2^(SqBits[ty] - 1) - 1
               ELSE 2^SqBits[ty] - 1

\* `as` between integers keeps the low bits; from a float it saturates.
Wrap(ty, n) == ((n - TypeMin(ty)) % 2^SqBits[ty]) + TypeMin(ty)
Saturate(ty, n) == IF n < TypeMin(ty) THEN TypeMin(ty)
                   ELSE IF n > TypeMax(ty) THEN TypeMax(ty) ELSE n
Truncate(x) == IF x.n >= 0 THEN x.n \div x.d ELSE -((-x.n) \div x.d)

\* `as f64` of an integer: round to SqMantissa bits, ties to even.
AsF64(n) ==
  LET a == IF n < 0 THEN -n ELSE n
      Steps == {2^k : k \in 0 .. 8}
      step == CHOOSE u \in Steps : /\ a < u * 2^SqMantissa
                                   /\ \A w \in Steps : w < u => a >= w * 2^SqMantissa
      low == (a \div step) * step
      up == \/ 2 * (a - low) > step
            \/ 2 * (a - low) = step /\ (low \div step) % 2 = 1
      r == IF up THEN low + step ELSE low
  IN  IF n < 0 THEN -r ELSE r

\* The f64 of a number; Bool and times where the caller admits them.
F64(x) == IF x.ty \in Floats THEN x ELSE Flt(AsF64(x.n), 1)

\* `<` on str: by characters, a prefix before its extensions.
Before(s, t) ==
  \/ \E i \in 1 .. Len(s) : /\ i <= Len(t) /\ s[i] < t[i]
                            /\ \A j \in 1 .. i - 1 : s[j] = t[j]
  \/ Len(s) < Len(t) /\ \A j \in 1 .. Len(s) : s[j] = t[j]

Cut(s, n) == SubSeq(s, 1, IF Len(s) < n THEN Len(s) ELSE n)

\* Mutant: <= is taken for <.
OutcomeStrict(op, less, equal) ==
  CASE op = "=" -> equal
    [] op = "#" -> ~equal
    [] op \in {"<", "<="} -> less
    [] op = ">" -> ~less /\ ~equal
    [] op = ">=" -> ~less
    [] OTHER -> FALSE

\* An operator applied to a three-way outcome: less, equal.
Outcome(op, less, equal) ==
  CASE op = "=" -> equal
    [] op = "#" -> ~equal
    [] op = "<" -> less
    [] op = "<=" -> less \/ equal
    [] op = ">" -> ~less /\ ~equal
    [] op = ">=" -> ~less
    [] OTHER -> FALSE

CompareNumbers(f, c, op) ==
  Outcome(op, f.n * c.d < c.n * f.d, f.n * c.d = c.n * f.d)
CompareBooleans(f, c, op) ==
  op \in {"=", "#"} /\ Outcome(op, FALSE, f.n = c.n)

(***************************************************************************)
(* Constants of a statement                                                *)
(***************************************************************************)
Literal(k, n, d, s) == [k |-> k, n |-> n, d |-> d, s |-> s]

ConstantValue(c) ==
  CASE c.k = "Integer" -> Num("Int64", c.n)
    [] c.k = "Float" -> Flt(c.n, c.d)
    [] c.k \in {"String", "Identifier"} -> Str("VarChar", Cut(c.s, SqStrMax))
    [] c.k = "Boolean" -> Num("Bool", c.n)
    [] c.k = "Null" -> Num("Json", 0)

(***************************************************************************)
(* Expressions                                                             *)
(***************************************************************************)
HasTruth(x) == x.ty \in Numeric \cup {"Bool"}

UnaryOp(op, x) ==
  CASE op = "Not" -> IF HasTruth(x) THEN Bool(x.n = 0) ELSE Fail("TypeMismatch")
    [] op = "Minus" -> IF x.ty \in Signed THEN Num(x.ty, Wrap(x.ty, -x.n))
                       ELSE IF x.ty \in Floats THEN [x EXCEPT !.n = -@]
                       ELSE Fail("TypeMismatch")
    [] op = "Plus" -> x

LogicalOp(op, x, y) ==
  IF ~HasTruth(x) \/ ~HasTruth(y) THEN Fail("TypeMismatch")
  ELSE Bool(IF op = "And" THEN x.n # 0 /\ y.n # 0 ELSE x.n # 0 \/ y.n # 0)

\* A comparison with the integer 0 asks whether the left side is empty.
IsNull(x) == x.n = 0 /\ x.s = <<>>
Comparable(x) == x.ty \in Numeric \cup Times \cup {"Bool", "Json"}

CompareOp(op, x, y) ==
  IF y.ty = "Int64" /\ y.n = 0
  THEN IF op \in {"=", "#"} THEN Bool((op = "=") = IsNull(x))
       ELSE Fail("TypeMismatch")
  ELSE IF x.ty \in Strings /\ y.ty \in Strings
  THEN Bool(Outcome(op, Before(x.s, y.s), x.s = y.s))
  ELSE IF Comparable(x) /\ Comparable(y)
  THEN Bool(CompareNumbers(F64(x), F64(y), op))
  ELSE Fail("TypeMismatch")

\* Arithmetic on numbers is done in f64.
Arith(op, a, b) ==
  CASE op = "+" -> Flt(a.n * b.d + b.n * a.d, a.d * b.d)
    [] op = "-" -> Flt(a.n * b.d - b.n * a.d, a.d * b.d)
    [] op = "*" -> Flt(a.n * b.n, a.d * b.d)
    [] op = "/" -> IF b.n > 0 THEN Flt(a.n * b.d, a.d * b.n)
                   ELSE Flt(-(a.n * b.d), a.d * (-b.n))

TimeOp(op, x, y) ==
  IF op = "-" /\ x.ty \in Times /\ y.ty \in Times
  THEN Num("Interval", Wrap("Int64", x.n - y.n))
  ELSE IF op \in {"+", "-"} /\ x.ty \in Times /\ y.ty = "Int64"
  THEN Num(x.ty, Wrap("Int64", IF op = "+" THEN x.n + y.n ELSE x.n - y.n))
  ELSE Fail("TypeMismatch")

BinaryOp(op, x, y) ==
  IF op \in {"=", "#", "<", "<=", ">", ">="} THEN CompareOp(op, x, y)
  ELSE IF x.ty \in Numeric /\ y.ty \in Numeric
  THEN IF op = "/" /\ y.n = 0 THEN Fail("InternalError")
       ELSE Arith(op, F64(x), F64(y))
  ELSE TimeOp(op, x, y)

\* A field reference: its name, and whether it is written table.name.
Field(f, q) == [f |-> f, q |-> q]

\* Positions of the fields called f; a row is a sequence of values.
Positions(schema, f) == {i \in DOMAIN schema : schema[i].name = f}

\* An expression is <<"field", ref>>, <<"constant", literal>>,
\* <<"unary", op, e>>, <<"binary", op, e1, e2>> or <<"logical", op, e1, e2>>.
RECURSIVE EvaluateExpression(_, _, _, _)

EvaluateExpression(schema, row, e, depth) ==
  LET sub(i) == EvaluateExpression(schema, row, e[i], depth + 1)
  IN  IF depth > SqMaxDepth THEN Fail("InternalError")
      ELSE CASE e[1] = "field" ->
                  LET P == Positions(schema, e[2].f)
                  IN  IF e[2].f = "*" THEN row[1]
                      ELSE IF P = {} THEN Fail("FieldNotFound")
                      ELSE row[CHOOSE i \in P : \A j \in P : i <= j]
             [] e[1] = "constant" -> ConstantValue(e[2])
             [] e[1] = "unary" -> IF Failed(sub(3)) THEN sub(3) ELSE UnaryOp(e[2], sub(3))
             [] e[1] \in {"binary", "logical"} ->
                  IF Failed(sub(3)) THEN sub(3)
                  ELSE IF Failed(sub(4)) THEN sub(4)
                  ELSE IF e[1] = "binary" THEN BinaryOp(e[2], sub(3), sub(4))
                  ELSE LogicalOp(e[2], sub(3), sub(4))

(***************************************************************************)
(* set_field_value: what a column of type ty and field_size `size` holds   *)
(* after it was given the value x                                          *)
(***************************************************************************)
\* to_string of an integer: its decimal digits, character Dash in front.
Dash == 10
Digits(n) == IF n < 10 THEN <<n>> ELSE <<n \div 10, n % 10>>
Decimal(n) == IF n < 0 THEN <<Dash>> \o Digits(-n) ELSE Digits(n)

\* "true" and "false"; the words a string must be to stand for TRUE.
Word(b) == IF b THEN <<31, 32, 33, 34>> ELSE <<35, 36, 37, 38, 34>>
TrueWords == {Word(TRUE), <<1>>}

StoreInt(ty, x) ==
  CASE x.ty = "Int64" -> Num(ty, Wrap(ty, x.n))
    [] x.ty = "Float64" -> Num(ty, Saturate(ty, Truncate(x)))
    [] x.ty = "Bool" -> Num(ty, x.n)
    [] OTHER -> Fail("TypeMismatch")

StoreFloat(ty, x) ==
  IF x.ty \in {"Int64", "Float64", "Bool"} THEN [F64(x) EXCEPT !.ty = ty]
  ELSE Fail("TypeMismatch")

StoreBool(x) ==
  IF x.ty \in {"Int64", "Float64", "Bool"} THEN Bool(x.n # 0)
  ELSE Fail("TypeMismatch")

StoreTime(ty, x) ==
  IF x.ty \in Ints THEN Num(ty, Wrap("Int64", x.n))
  ELSE IF x.ty = "Float64" THEN Num(ty, Saturate("Int64", Truncate(x)))
  ELSE Fail("TypeMismatch")

\* Longer text is cut to the column.
StoreString(ty, size, x) ==
  CASE x.ty \in Strings -> Str(ty, Cut(x.s, size))
    [] x.ty = "Int64" -> Str(ty, Cut(Decimal(x.n), size))
    [] x.ty = "Bool" -> Str(ty, Cut(Word(x.n = 1), size))
    [] OTHER -> Fail("TypeMismatch")

\* Text of any length fits.
StoreText(x) ==
  CASE x.ty \in Strings -> Str("Text", x.s)
    [] x.ty = "Int64" -> Str("Text", Decimal(x.n))
    [] x.ty = "Bool" -> Str("Text", Word(x.n = 1))
    [] OTHER -> Fail("TypeMismatch")

StoreJson(x) ==
  IF x.ty = "Json" \/ (x.ty = "Int64" /\ x.n = 0) THEN Num("Json", 0)
  ELSE Fail("TypeMismatch")

Store(ty, size, x) ==
  CASE ty \in Ints -> StoreInt(ty, x)
    [] ty \in Floats -> StoreFloat(ty, x)
    [] ty = "Bool" -> StoreBool(x)
    [] ty \in Times -> StoreTime(ty, x)
    [] ty \in {"VarChar", "Char"} -> StoreString(ty, size, x)
    [] ty = "Text" -> StoreText(x)
    [] ty = "Json" -> StoreJson(x)
    [] OTHER -> Fail("TypeMismatch")

(***************************************************************************)
(* LIKE.  After a `%` the rest of the pattern is tried on every suffix of  *)
(* the whole string, the characters matched before the `%` included.       *)
(***************************************************************************)
Percent == 101
Underscore == 102
Backslash == 103

RECURSIVE LikePatternMatch(_, _), LikeFrom(_, _, _, _)

\* The loop over the pattern: i characters of the string are consumed.
LikeFrom(string, i, pattern, j) ==
  IF j > Len(pattern) THEN i = Len(string)
  ELSE LET p == pattern[j]
           more == i < Len(string)
       IN  CASE p = Percent ->
                  LET R == {k \in j .. Len(pattern) : pattern[k] # Percent}
                      rest == CHOOSE k \in R : \A m \in R : k <= m
                  IN  R = {} \/ \E k \in 0 .. Len(string) :
                        LikePatternMatch(SubSeq(string, k + 1, Len(string)),
                                         SubSeq(pattern, rest, Len(pattern)))
             [] p = Underscore -> more /\ LikeFrom(string, i + 1, pattern, j + 1)
             [] p = Backslash /\ j < Len(pattern) ->
                  /\ more /\ string[i + 1] = pattern[j + 1]
                  /\ LikeFrom(string, i + 1, pattern, j + 2)
             [] OTHER ->
                  /\ more /\ string[i + 1] = p
                  /\ LikeFrom(string, i + 1, pattern, j + 1)

LikePatternMatch(string, pattern) == LikeFrom(string, 0, pattern, 1)

CompareStrings(f, c, op) ==
  IF op = "LIKE" THEN LikePatternMatch(f, c) ELSE Outcome(op, Before(f, c), f = c)

(***************************************************************************)
(* Conditions of SELECT                                                    *)
(***************************************************************************)
CompareValues(x, y) ==
  LET truth(v) == IF v.ty \in Strings THEN v.s \in TrueWords ELSE v.n # 0
  IN  CASE x.ty = y.ty -> /\ x.ty \notin {"Vector", "Json"}
                          /\ x.n * y.d = y.n * x.d /\ x.s = y.s
        [] x.ty \in Strings /\ y.ty \in Strings -> x.s = y.s
        [] \/ x.ty = "Bool" /\ y.ty \in {"Int64"} \cup Strings
           \/ y.ty = "Bool" /\ x.ty \in {"Int64"} \cup Strings -> truth(x) = truth(y)
        [] x.ty \in Numeric /\ y.ty \in Numeric ->
             CompareNumbers(F64(x), F64(y), "=")
        [] OTHER -> FALSE

SelectCompare(v, op, c) ==
  /\ c.k \in {"Integer", "Float", "String", "Boolean"}
  /\ LET cv == ConstantValue(c)
     IN  CASE op = "=" -> CompareValues(v, cv)
           [] op = "#" -> ~CompareValues(v, cv)
           [] op = "LIKE" -> v.ty \in Strings /\ LikePatternMatch(v.s, cv.s)
           [] OTHER -> /\ v.ty \in Numeric \cup Times
                       /\ c.k \in {"Integer", "Float"}
                       /\ CompareNumbers(F64(v), F64(cv), op)

SelectBetween(v, lo, hi) ==
  IF v.ty \in Strings
  THEN /\ lo.k = "String" /\ hi.k = "String"
       /\ ~Before(v.s, lo.s) /\ ~Before(hi.s, v.s)
  ELSE IF v.ty \in Times
  THEN /\ lo.k = "Integer" /\ hi.k = "Integer"
       /\ Wrap("UInt64", v.n) \in Wrap("UInt64", lo.n) .. Wrap("UInt64", hi.n)
  ELSE /\ {lo.k, hi.k} \subseteq {"Integer", "Float"}
       /\ v.ty \in Numeric
       /\ CompareNumbers(F64(v), F64(ConstantValue(lo)), ">=")
       /\ CompareNumbers(F64(v), F64(ConstantValue(hi)), "<=")

(***************************************************************************)
(* Conditions of UPDATE and DELETE: an integer constant is cast to the     *)
(* type of the column                                                      *)
(***************************************************************************)
CompareFieldWithCondition(v, op, c) ==
  CASE v.ty \in Ints ->
         c.k = "Integer" /\ CompareNumbers(v, Num(v.ty, Wrap(v.ty, c.n)), op)
    [] v.ty \in Floats ->
         c.k \in {"Integer", "Float"}
           /\ CompareNumbers(v, F64(ConstantValue(c)), op)
    [] v.ty = "Bool" ->
         CASE c.k \in {"Boolean", "Integer"} -> CompareBooleans(v, Bool(c.n # 0), op)
           [] c.k = "String" -> CompareBooleans(v, Bool(c.s \in TrueWords), op)
           [] OTHER -> FALSE
    [] v.ty \in Times \cup {"Interval"} ->
         c.k = "Integer" /\ CompareNumbers(Num("UInt64", Wrap("UInt64", v.n)),
                                           Num("UInt64", Wrap("UInt64", c.n)), op)
    [] v.ty \in Strings -> c.k = "String" /\ CompareStrings(v.s, c.s, op)
    [] OTHER -> FALSE

EvaluateBetween(v, lo, hi) ==
  /\ CompareFieldWithCondition(v, ">=", lo)
  /\ CompareFieldWithCondition(v, "<=", hi)

(***************************************************************************)
(* A condition is <<"compare", ref, op, literal>>, <<"between", ref, lo,   *)
(* hi>>, <<"and", c1, c2>>, <<"or", c1, c2>> or <<"not", c>>.              *)
(***************************************************************************)
\* UPDATE and DELETE drop the qualifier; an unknown field never matches.
RECURSIVE EvaluateCondition(_, _, _)

EvaluateCondition(schema, row, cond) ==
  LET sub(i) == EvaluateCondition(schema, row, cond[i])
      P == Positions(schema, cond[2].f)
      v == row[CHOOSE i \in P : \A j \in P : i <= j]
  IN  CASE cond[1] = "and" -> sub(2) /\ sub(3)
        [] cond[1] = "or" -> sub(2) \/ sub(3)
        [] cond[1] = "not" -> ~sub(2)
        [] cond[1] = "compare" ->
             P # {} /\ CompareFieldWithCondition(v, cond[3], cond[4])
        [] cond[1] = "between" -> P # {} /\ EvaluateBetween(v, cond[3], cond[4])

\* SELECT looks for the name as written and takes the first field for one it
\* does not find.
SelectField(schema, row, ref) ==
  LET P == Positions(schema, ref.f)
  IN  IF ref.q \/ P = {} THEN row[1] ELSE row[CHOOSE i \in P : \A j \in P : i <= j]

RECURSIVE EvaluateConditionWithAlias(_, _, _)

EvaluateConditionWithAlias(schema, row, cond) ==
  LET sub(i) == EvaluateConditionWithAlias(schema, row, cond[i])
  IN  CASE cond[1] = "and" -> sub(2) /\ sub(3)
        [] cond[1] = "or" -> sub(2) \/ sub(3)
        [] cond[1] = "not" -> ~sub(2)
        [] cond[1] = "compare" ->
             SelectCompare(SelectField(schema, row, cond[2]), cond[3], cond[4])
        [] cond[1] = "between" ->
             SelectBetween(SelectField(schema, row, cond[2]), cond[3], cond[4])
=============================================================================
