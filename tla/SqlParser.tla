----------------------------- MODULE SqlParser ------------------------------
(***************************************************************************)
(* The SQL parser of sql/query_parser.rs: recursive descent with one token *)
(* of lookahead and backtracking in conditions.                            *)
(*                                                                         *)
(* input is the text, here a sequence of tokens: words in upper case,      *)
(* numbers, quoted strings, JSON texts, symbols, and PxTails, the parts of *)
(* a word after an underscore.  A word and its tails are one identifier,   *)
(* but match_keyword, whose test of the next character does not count the  *)
(* underscore, takes a keyword off the front of such a word.               *)
(*                                                                         *)
(* A method that parses from position i is an operator of i with the       *)
(* result [at, val]: the new position and what was read.  Position 0 is    *)
(* Err, which every method passes on.  None is <<>> and Some(x) is <<x>>.  *)
(***************************************************************************)
EXTENDS Naturals, Sequences

VARIABLE input

PxSymbols == {"(", ")", ",", ";", "=", "*", "+", "-", "/", "<", ">", "<=", ">=",
              "!=", "<>", "<->", "<#>", "<=>"}
PxNumbers == {"1", "2", "2.5"}
PxIntervals == {"1H"}             \* digits and a unit, as SAMPLE BY reads them
PxJson == {"[1]"}
PxTails == {"_X"}
\* What the text between quotes is: parse_value makes JSON of one that starts
\* with a bracket and an integer of one that parse_time_string reads.
PxQuoted == {"'S'", "'[1]'", "'5'"}
PxQuotedKind == [t \in PxQuoted |-> CASE t = "'S'" -> "String"
                                      [] t = "'[1]'" -> "Json"
                                      [] t = "'5'" -> "Integer"]
PxText == [t \in PxQuoted |-> CASE t = "'S'" -> "S" [] t = "'[1]'" -> "[1]" [] t = "'5'" -> "5"]

Read(i, val) == [at |-> i, val |-> val]
Err == Read(0, <<>>)

\* peek_char, as the token it starts; "" at the end of the text.
At(i) == IF i \in DOMAIN input THEN input[i] ELSE ""
IsWord(t) == t \notin {""} \cup PxSymbols \cup PxNumbers \cup PxIntervals \cup PxJson \cup PxQuoted

\* match_keyword and match_char where the caller only skips; expect_keyword
\* and expect_char.
Skip(i, k) == IF At(i) = k THEN i + 1 ELSE i
Expect(i, k) == IF At(i) = k THEN i + 1 ELSE 0

RECURSIVE ExpectAll(_, _)
ExpectAll(i, ks) == IF ks = <<>> THEN i ELSE ExpectAll(Expect(i, Head(ks)), Tail(ks))

\* parse_identifier and peek_identifier
RECURSIVE ParseIdentifier(_)
ParseIdentifier(i) ==
  IF ~IsWord(At(i)) THEN Read(0, "")
  ELSE IF At(i + 1) \in PxTails
       THEN LET more == ParseIdentifier(i + 1) IN Read(more.at, At(i) \o more.val)
       ELSE Read(i + 1, At(i))
PeekIdentifier(i) == ParseIdentifier(i).val

\* The loops over items and commas.
CommaList(P(_), i) ==
  LET from[j \in 0 .. Len(input) + 1] ==
        LET item == P(j)
            more == from[item.at + 1]
        IN  IF item.at = 0 THEN Err
            ELSE IF At(item.at) = "," THEN Read(more.at, <<item.val>> \o more.val)
            ELSE Read(item.at, <<item.val>>)
  IN  from[i]
InParens(P(_), i) ==
  LET items == CommaList(P, Expect(i, "(")) IN Read(Expect(items.at, ")"), items.val)

\* An optional clause that a keyword opens.
Optional(i, k, P(_)) ==
  LET r == P(i + 1) IN IF At(i) = k THEN Read(r.at, <<r.val>>) ELSE Read(i, <<>>)

(***************************************************************************)
(* parse_value                                                             *)
(***************************************************************************)
PxValue(kind, text) == [kind |-> kind, text |-> text]
Functions0 == {"NOW"}
FunctionsMaybe0 == {"CURRENT_TIMESTAMP", "LOCALTIMESTAMP"}
\* TIMEZONE, TO_CHAR, TO_ISO8601 and TO_EPOCH skip to the next parenthesis;
\* the loop does not stop at the end of the text, so such a text has one.
FunctionsSkipped == {"TIMEZONE", "TO_CHAR", "TO_ISO8601", "TO_EPOCH"}

RECURSIVE AfterParen(_)
AfterParen(i) == IF At(i) = ")" THEN i + 1 ELSE AfterParen(i + 1)

ParseNumberStr(i) ==
  LET n == Skip(i, "-")
  IN  IF At(n) \in PxNumbers THEN Read(n + 1, (IF n = i THEN "" ELSE "-") \o At(n)) ELSE Read(0, "")

ParseNumber(i) == IF At(i) \in PxNumbers \ {"2.5"} THEN Read(i + 1, At(i)) ELSE Read(0, "")

ParseValue(i) ==
  LET t == At(i)
      call == ExpectAll(i + 1, <<"(", ")">>)
      id == ParseIdentifier(i)
      n == ParseNumberStr(i)
  IN  CASE t \in PxQuoted -> Read(i + 1, PxValue(PxQuotedKind[t], PxText[t]))
        [] t = "NULL" -> Read(i + 1, PxValue("Null", ""))
        [] t \in {"TRUE", "FALSE"} -> Read(i + 1, PxValue("Boolean", t))
        [] t \in Functions0 -> Read(call, PxValue("Integer", "0"))
        [] t \in FunctionsMaybe0 ->
             Read(IF At(i + 1) = "(" THEN call ELSE i + 1, PxValue("Integer", "0"))
        [] t \in FunctionsSkipped ->
             Read(IF At(i + 1) = "(" THEN AfterParen(i + 2) ELSE 0, PxValue("Integer", "0"))
        [] t \in PxJson -> Read(i + 1, PxValue("Json", t))
        [] t \in PxNumbers \cup {"-"} ->
             Read(n.at, PxValue(IF At(Skip(i, "-")) = "2.5" THEN "Float" ELSE "Integer", n.val))
        [] OTHER -> Read(id.at, PxValue("Identifier", id.val))

(***************************************************************************)
(* Expressions.  There is one level of operators, grouped to the left, and *)
(* no parentheses.                                                         *)
(***************************************************************************)
FieldExpr(name) == [e |-> "Field", name |-> name, alias |-> <<>>]
ConstantExpr(v) == [e |-> "Constant", value |-> v, alias |-> <<>>]
CallExpr(name, args) == [e |-> "Call", name |-> name, args |-> args, alias |-> <<>>]
BinaryExpr(l, op, r) == [e |-> "Binary", left |-> l, op |-> op, right |-> r, alias |-> <<>>]

VectorOps == {"<->", "<#>", "<=>"}
BinaryOps == VectorOps \cup {"+", "-", "*", "/", "<", ">", "<=", ">=", "=", "!="}
AliasStops == {"FROM", "WHERE", "ORDER", "LIMIT", "GROUP", "HAVING", "JOIN", "ON", "IN", "AND",
               "OR", "NOT"}

ParseAlias(i) ==
  LET j == Skip(i, "AS")
      id == ParseIdentifier(j)
  IN  IF IsWord(At(j)) /\ id.val \notin AliasStops THEN Read(id.at, <<id.val>>)
      ELSE Read(j, <<>>)

RECURSIVE ParsePrimaryExpression(_), ParseExpression(_), ParseArguments(_), Operands(_, _)

\* INTERVAL takes a value and, when one follows, a unit.
ParseInterval(i) ==
  LET v == ParseValue(i)
      unit == ParseIdentifier(v.at)
  IN  CASE v.at = 0 -> Err
        [] unit.at = 0 -> Read(v.at, ConstantExpr(v.val))
        [] v.val.kind \in {"Integer", "String"} ->
             Read(unit.at, ConstantExpr(PxValue("String", v.val.text \o " " \o unit.val)))
        [] OTHER -> Err

\* The arguments of a call: a comma may stand before the parenthesis.
ParseArguments(i) ==
  LET a == ParseExpression(i)
      more == ParseArguments(a.at + 1)
  IN  IF At(i) = ")" THEN Read(i, <<>>)
      ELSE IF a.at = 0 THEN Err
      ELSE IF At(a.at) = "," THEN Read(more.at, <<a.val>> \o more.val)
      ELSE Read(a.at, <<a.val>>)

ParsePrimaryExpression(i) ==
  LET t == At(i)
      v == ParseValue(i)
      id == ParseIdentifier(i)
      args == ParseArguments(id.at + 1)
  IN  CASE t = "*" -> Read(i + 1, FieldExpr("*"))
        [] t \in PxJson \cup PxQuoted \cup PxNumbers \cup {"-", "TRUE", "FALSE", "NULL"} ->
             Read(v.at, ConstantExpr(v.val))
        [] id.at # 0 /\ At(id.at) = "(" ->
             Read(Expect(args.at, ")"), CallExpr(id.val, args.val))
        [] id.val = "INTERVAL" -> ParseInterval(id.at)
        [] OTHER -> Read(id.at, FieldExpr(id.val))

\* The loop of parse_expression.  `<>` is read as `<`, and the `>` left over
\* is no operand.
Operands(left, i) ==
  LET r == ParsePrimaryExpression(i + 1)
  IN  IF At(i) = "<>" THEN Err
      ELSE IF At(i) \notin BinaryOps THEN Read(i, left)
      ELSE IF r.at = 0 THEN Err
      ELSE Operands(BinaryExpr(left, At(i), r.val), r.at)

\* IS [NOT] NULL: the words are gone even where NULL does not follow.
ParseIsNull(left, i) ==
  LET j == Skip(i + 1, "NOT")
      op == IF j = i + 1 THEN "=" ELSE "!="
  IN  IF At(i) # "IS" THEN Read(i, left)
      ELSE IF At(j) # "NULL" THEN Read(j, left)
      ELSE Read(j + 1, BinaryExpr(left, op, ConstantExpr(PxValue("Null", ""))))

ParseExpression(i) ==
  LET first == ParsePrimaryExpression(i)
      ops == Operands(first.val, first.at)
      whole == ParseIsNull(ops.val, ops.at)
      alias == ParseAlias(whole.at)
  IN  IF first.at = 0 \/ ops.at = 0 THEN Err
      ELSE Read(alias.at, [whole.val EXCEPT !.alias = alias.val])

\* parse_vector_expression: one operand, or two around a vector operator.
ParseVectorExpression(i) ==
  LET l == ParsePrimaryExpression(i)
      r == ParsePrimaryExpression(l.at + 1)
  IN  IF l.at = 0 \/ At(l.at) \notin VectorOps THEN l
      ELSE Read(r.at, BinaryExpr(l.val, At(l.at), r.val))

(***************************************************************************)
(* Conditions.  The right side of AND and of OR is the whole rest of the   *)
(* condition, and NOT applies to all that follows.                         *)
(***************************************************************************)
Comparison(f, op, v) == [c |-> "Comparison", field |-> f, operator |-> op, value |-> v]
Between(f, lo, hi) == [c |-> "Between", field |-> f, min |-> lo, max |-> hi]
Junction(c, l, r) == [c |-> c, left |-> l, right |-> r]
Negation(c) == [c |-> "Not", cond |-> c]

\* What is printed with {:?} where no name or vector is expected.
Debug == "DEBUG"
FieldName(e) == IF e.e = "Field" /\ e.alias = <<>> THEN e.name ELSE Debug
BetweenField(e) ==
  IF e.e = "Binary" THEN FieldName(e.left) \o " " \o e.op \o " " \o Debug ELSE FieldName(e)

ParseBetweenCondition(i) ==
  LET l == ParseVectorExpression(i)
      lo == ParseValue(Expect(l.at, "BETWEEN"))
      hi == ParseValue(Expect(lo.at, "AND"))
  IN  IF hi.at = 0 THEN Err ELSE Read(hi.at, Between(BetweenField(l.val), lo.val, hi.val))

ParseComparisonOperator(i) ==
  IF At(i) \in {"=", "<>", "!=", ">=", ">", "<=", "<", "LIKE"}
  THEN Read(i + 1, IF At(i) = "<>" THEN "!=" ELSE At(i)) ELSE Err

VectorText(e) == e.left.name \o " " \o e.op \o " " \o e.right.value.text
HasVectorText(e) ==
  e.left.e = "Field" /\ e.right.e = "Constant" /\ e.right.value.kind \in {"String", "Json"}

ParseComparisonCondition(i) ==
  LET l == ParseVectorExpression(i)
      op == ParseComparisonOperator(l.at)
      v == ParseValue(op.at)
  IN  CASE l.at = 0 \/ op.at = 0 \/ v.at = 0 -> Err
        [] l.val.e = "Binary" ->
             IF HasVectorText(l.val) THEN Read(v.at, Comparison(VectorText(l.val), op.val, v.val))
             ELSE Err
        [] OTHER -> Read(v.at, Comparison(FieldName(l.val), op.val, v.val))

RECURSIVE ParseWhereCondition(_), ParseSingleCondition(_), Junctions(_, _)

ParseSingleCondition(i) ==
  LET negated == ParseSingleCondition(i + 1)
      inner == ParseWhereCondition(i + 1)
      between == ParseBetweenCondition(i)
      compared == ParseComparisonCondition(i)
      expr == ParseExpression(i)
  IN  CASE At(i) = "NOT" -> Read(negated.at, Negation(negated.val))
        [] At(i) = "(" -> Read(Expect(inner.at, ")"), inner.val)
        [] OTHER ->
             IF between.at # 0 THEN between
             ELSE IF compared.at # 0 THEN compared
             ELSE IF expr.at = 0 THEN Err
             ELSE Read(expr.at, Comparison(FieldName(expr.val), "=", PxValue("Boolean", "TRUE")))

Junctions(left, i) ==
  LET r == ParseWhereCondition(i + 1)
  IN  IF At(i) \notin {"AND", "OR"} THEN Read(i, left)
      ELSE IF r.at = 0 THEN Err
      ELSE Junctions(Junction(At(i), left, r.val), r.at)

\* Mutant: AND and OR take one condition on their right.
ParseWhereConditionLeft(i) ==
  LET first == ParseSingleCondition(i)
      second == ParseSingleCondition(first.at + 1)
  IN  IF At(first.at) \in {"AND", "OR"}
      THEN Junctions(Junction(At(first.at), first.val, second.val), second.at)
      ELSE first

ParseWhereCondition(i) ==
  LET negated == ParseWhereCondition(i + 1)
      first == ParseSingleCondition(i)
  IN  IF At(i) = "NOT" THEN Read(negated.at, Negation(negated.val))
      ELSE IF first.at = 0 THEN Err
      ELSE Junctions(first.val, first.at)
=============================================================================
