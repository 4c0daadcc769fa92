---------------------------- MODULE SqlReference ----------------------------
(***************************************************************************)
(* What conditions, SELECT and JOIN should compute, and the comparison of  *)
(* the engine with it.  sqIn is the input the executor is given: a         *)
(* comparison, a LIKE, a query on the records of a table, or a join.  It   *)
(* is gone with the step that answers it.                                  *)
(***************************************************************************)
EXTENDS SqlJoin

VARIABLE sqIn

NoInput == [kind |-> "none"]
AnswerInput == sqIn # NoInput /\ sqIn' = NoInput

(***************************************************************************)
(* Conditions                                                              *)
(***************************************************************************)
Exact(n) == n \in -(2^SqMantissa) .. 2^SqMantissa

\* A constant that a column of v's type can be asked about.
Fitting(v, c) ==
  CASE v.ty \in Ints -> /\ c.k = "Integer" /\ Exact(v.n) /\ Exact(c.n)
                        /\ c.n \in TypeMin(v.ty) .. TypeMax(v.ty)
    [] v.ty \in Floats -> c.k \in {"Integer", "Float"} /\ Exact(c.n)
    [] v.ty \in Times -> c.k = "Integer" /\ c.n >= 0 /\ v.n >= 0
    [] v.ty \in Strings -> c.k = "String" /\ Len(c.s) <= SqStrMax
    [] v.ty = "Bool" -> c.k = "Boolean"

\* v op c as numbers, truth values or texts.
Truth(v, op, c) ==
  IF v.ty \in Strings THEN Outcome(op, Before(v.s, c.s), v.s = c.s)
  ELSE Outcome(op, v.n * c.d < c.n * v.d, v.n * c.d = c.n * v.d)

\* Comparisons SELECT does not support: they hold for no row.
SelectLacks(v, op) ==
  \/ v.ty \in Strings \cup {"Bool"} /\ op \notin {"=", "#"}
  \/ v.ty \in Times /\ op \in {"=", "#"}

\* In a column list the comparison with 0 is a test for NULL.
ExpressionLacks(v, op, c) == v.ty \in Times \cup {"Bool"} \/ (c.k = "Integer" /\ c.n = 0)

Compared(v, op, c) ==
  /\ v.ty # "Bool" \/ op \in {"=", "#"}
       => CompareFieldWithCondition(v, op, c) = Truth(v, op, c)
  /\ ~SelectLacks(v, op) => SelectCompare(v, op, c) = Truth(v, op, c)
  /\ ~ExpressionLacks(v, op, c) =>
       EvaluateExpression(<<[name |-> "v"]>>, <<v>>,
         <<"binary", op, <<"field", Field("v", FALSE)>>, <<"constant", c>> >>, 0)
         = Bool(Truth(v, op, c))

Ranged(v, lo, hi) ==
  LET inside == Truth(v, ">=", lo) /\ Truth(v, "<=", hi)
  IN  EvaluateBetween(v, lo, hi) = inside /\ SelectBetween(v, lo, hi) = inside

\* What INSERT stores for a constant is found again by it.
FoundAgain(v, c) ==
  LET y == Store(v.ty, SqStrMax, ConstantValue(c))
  IN  ~Failed(y) /\ CompareFieldWithCondition(y, "=", c)

\* For a constant that fits the column, the comparisons of SELECT, of UPDATE
\* and DELETE, and of expressions all give the mathematical answer, BETWEEN
\* is the conjunction of two of them, and a stored constant is found by WHERE
\* (comparison.rs, expression.rs, set_field_value).
WhereExact ==
  sqIn.kind = "where" =>
    LET v == sqIn.v IN
    /\ Fitting(v, sqIn.c) => Compared(v, sqIn.op, sqIn.c) /\ FoundAgain(v, sqIn.c)
    /\ Fitting(v, sqIn.c) /\ Fitting(v, sqIn.d) /\ v.ty # "Bool"
         => Ranged(v, sqIn.c, sqIn.d)

(***************************************************************************)
(* LIKE                                                                    *)
(***************************************************************************)
RECURSIVE LikeReference(_, _)
LikeReference(s, p) ==
  IF p = <<>> THEN s = <<>>
  ELSE CASE p[1] = Percent -> \/ LikeReference(s, Tail(p))
                              \/ s # <<>> /\ LikeReference(Tail(s), p)
         [] p[1] = Underscore -> s # <<>> /\ LikeReference(Tail(s), Tail(p))
         [] p[1] = Backslash /\ Len(p) > 1 ->
              /\ s # <<>> /\ s[1] = p[2]
              /\ LikeReference(Tail(s), SubSeq(p, 3, Len(p)))
         [] OTHER -> s # <<>> /\ s[1] = p[1] /\ LikeReference(Tail(s), Tail(p))

\* Patterns in which no % that is followed by something else comes after
\* another character: prefix%, %suffix, %part%, and patterns without %.
Simple(p) ==
  \A j \in DOMAIN p :
    p[j] = Percent => \/ \A k \in 1 .. j : p[k] = Percent
                      \/ \A k \in j .. Len(p) : p[k] = Percent

\* LIKE is exact for the patterns prefix%, %suffix and %part%
\* (like_pattern_match).
LikeSimpleExact ==
  sqIn.kind = "like" /\ Simple(sqIn.pattern) =>
    (LikePatternMatch(sqIn.s, sqIn.pattern) <=> LikeReference(sqIn.s, sqIn.pattern))

\* Whenever a condition of WHERE is answered, it compared as the types of its
\* operands say (evaluate_condition, like_pattern_match).
ConditionsExact ==
  [][AnswerInput => WhereExact /\ LikeSimpleExact]_sqIn

(***************************************************************************)
(* SELECT                                                                  *)
(***************************************************************************)
Occurrences(x, seq) == Cardinality({i \in DOMAIN seq : seq[i] = x})
Smaller2(a, b) == IF a < b THEN a ELSE b

\* Positions of the records that satisfy WHERE.
Wanted(in) == {i \in DOMAIN in.recs : Matches(in.schema, in.recs[i], in.q.where)}

ValuesOf(in, i) ==
  [c \in DOMAIN in.q.cols |-> EvaluateExpression(in.schema, in.recs[i], in.q.cols[c], 0)]

\* Column `pos` of the result is in order, and no record that LIMIT left out
\* belongs strictly before a returned one.
InOrder(in, rows, o) ==
  LET before(v, w) == IF o.desc THEN Less(w, v) ELSE Less(v, w)
      left(x) == Cardinality({i \in Wanted(in) : ValuesOf(in, i) = x}) > Occurrences(x, rows)
  IN  /\ \A i, k \in DOMAIN rows : i < k => ~before(rows[k][o.pos], rows[i][o.pos])
      /\ \A i \in Wanted(in), k \in DOMAIN rows :
           left(ValuesOf(in, i)) => ~before(ValuesOf(in, i)[o.pos], rows[k][o.pos])

RowsExact(in, rows) ==
  LET n == Cardinality(Wanted(in))
  IN  /\ Len(rows) = IF in.q.limit < 0 THEN n ELSE Smaller2(n, in.q.limit)
      /\ \A k \in DOMAIN rows :
           Occurrences(rows[k], rows)
             <= Cardinality({i \in Wanted(in) : ValuesOf(in, i) = rows[k]})
      /\ \A o \in in.q.order : o.pos > 0 => InOrder(in, rows, o)

DistinctExact(in, rows) ==
  /\ {rows[k] : k \in DOMAIN rows} = {ValuesOf(in, i) : i \in Wanted(in)}
  /\ \A i, k \in DOMAIN rows : rows[i] = rows[k] => i = k

\* Sums over sets of positions of the field at position f.
RECURSIVE Total(_, _, _)
Total(recs, f, S) ==
  IF S = {} THEN 0
  ELSE LET i == CHOOSE i \in S : TRUE IN recs[i][f].n + Total(recs, f, S \ {i})

\* Sum of the squared differences of the values, over ordered pairs: 2 n^2
\* times the variance.
RECURSIVE Spread(_, _, _)
Spread(recs, f, P) ==
  IF P = {} THEN 0
  ELSE LET p == CHOOSE p \in P : TRUE
           diff == recs[p[1]][f].n - recs[p[2]][f].n
       IN  diff * diff + Spread(recs, f, P \ {p})

\* x is what the aggregate fn of field f should be on the records S.
AggregateIs(in, fn, f, S, x) ==
  LET at == First(Positions(in.schema, f))
      vals == {in.recs[i][at].n : i \in S}
      n == Cardinality(S)
      spread == Spread(in.recs, at, S \X S)
  IN  CASE fn = "COUNT" -> x.n = n
        [] fn = "SUM" -> x.n = x.d * Total(in.recs, at, S)
        [] fn = "AVG" -> x.n * n = x.d * Total(in.recs, at, S)
        [] fn = "MIN" -> x.n \in vals /\ \A w \in vals : x.n <= w
        [] fn = "MAX" -> x.n \in vals /\ \A w \in vals : x.n >= w
        [] fn = "VAR" -> x.n * 2 * n * n = x.d * spread
        [] fn = "VAR_SAMP" -> n > 1 => x.n * 2 * n * (n - 1) = x.d * spread
        [] OTHER -> TRUE

\* MIN and MAX are right where the column holds no zero; AVG is wrong.
PlainTrusted(in, fn, f) ==
  /\ fn # "AVG"
  /\ fn \in {"MIN", "MAX"} => 0 \notin {in.recs[i][First(Positions(in.schema, f))].n :
                                          i \in Wanted(in)}

AggregatesExact(in, rows) ==
  Wanted(in) # {} =>
    \A c \in DOMAIN in.q.items :
      LET fn == in.q.items[c][1] f == in.q.items[c][2]
      IN  PlainTrusted(in, fn, f) => AggregateIs(in, fn, f, Wanted(in), rows[1][c])

\* Column 1 of a grouped query is the key.  Keys with different hashes get a
\* row each; the aggregates of 64-bit signed columns are exact.
GroupsExact(in, rows) ==
  LET at == First(Positions(in.schema, in.q.items[1][2]))
      keys == {in.recs[i][at] : i \in Wanted(in)}
  IN  (\A v, w \in keys : HashTypedValue(v) = HashTypedValue(w) => v = w) =>
        /\ {rows[g][1] : g \in DOMAIN rows} = keys
        /\ Len(rows) = Cardinality(keys)
        /\ \A g \in DOMAIN rows, c \in DOMAIN in.q.items \ {1} :
             AggregateIs(in, in.q.items[c][1], in.q.items[c][2],
                         {i \in Wanted(in) : in.recs[i][at] = rows[g][1]}, rows[g][c])

\* SELECT by a full scan returns the matching rows: up to LIMIT of them and the
\* foremost ones when sorted, each once with DISTINCT; without LIMIT the
\* aggregates are those of all matching rows, and groups those of equal keys
\* (execute_select_query, process_aggregate_query, process_group_by_query).
SelectExact ==
  sqIn.kind = "select" =>
    LET r == SelectRows(sqIn.schema, sqIn.recs, sqIn.q)
        q == sqIn.q
    IN  r.error = "" =>
          /\ q.items = <<>> /\ ~q.distinct => RowsExact(sqIn, r.rows)
          /\ q.items = <<>> /\ q.distinct /\ q.limit < 0 => DistinctExact(sqIn, r.rows)
          /\ q.items # <<>> /\ q.by = <<>> /\ q.limit < 0 => AggregatesExact(sqIn, r.rows)
          /\ q.by # <<>> /\ q.limit < 0 => GroupsExact(sqIn, r.rows)

\* With a secondary index every returned row still satisfies WHERE; when the
\* condition is one equality and the indexed values are unique, the answer is
\* that of the scan (execute_select_query, extract_index_operation).
IndexSame ==
  sqIn.kind = "select" /\ sqIn.q.items = <<>> /\ sqIn.q.order = {} =>
    \A source \in Sources(sqIn.schema, sqIn.recs, sqIn.indexed, sqIn.q.where) :
      LET at == First(Positions(sqIn.schema, sqIn.indexed.field))
          unique == \A i, k \in DOMAIN sqIn.recs :
                      sqIn.recs[i][at] = sqIn.recs[k][at] => i = k
          found == SelectRows(sqIn.schema, source, sqIn.q)
          scan == SelectRows(sqIn.schema, sqIn.recs, sqIn.q)
      IN  scan.error = "" =>
            /\ \A k \in DOMAIN found.rows :
                 \E i \in Wanted(sqIn) : found.rows[k] = ValuesOf(sqIn, i)
            /\ unique /\ sqIn.q.where[1] = "compare" /\ sqIn.q.where[3] = "="
                 => found = scan

(***************************************************************************)
(* JOIN                                                                    *)
(***************************************************************************)
\* With one join clause a row appears as often as there are pairs of records
\* that match and give it, and, for outer joins, unmatched records of the
\* kept side filled with zeros (execute_select_join_query).
JoinExact ==
  sqIn.kind = "join" =>
    LET c == sqIn.clause
        rows == JoinQuery(sqIn.schema, sqIn.recs, <<c>>, sqIn.names, -1)
        P == {p \in (DOMAIN sqIn.recs) \X (DOMAIN c.recs) :
                CompareValues(sqIn.recs[p[1]][sqIn.at[1]], c.recs[p[2]][sqIn.at[2]])}
        alone == {i \in DOMAIN sqIn.recs : \A p \in P : p[1] # i}
        lone == {i \in DOMAIN c.recs : \A p \in P : p[2] # i}
        all == sqIn.schema \o c.schema
        row(m, j) == [k \in DOMAIN sqIn.names |->
                        (m \o j)[First(Positions(all, sqIn.names[k]))]]
        pairs(x) == {p \in P : row(sqIn.recs[p[1]], c.recs[p[2]]) = x}
        leftOnly(x) == {i \in alone : /\ c.type \in {"LEFT", "FULL"}
                                      /\ row(sqIn.recs[i], Zeros(c.schema)) = x}
        rightOnly(x) == {i \in lone : /\ c.type \in {"RIGHT", "FULL"}
                                      /\ row(Zeros(sqIn.schema), c.recs[i]) = x}
        count(x) == Cardinality(pairs(x)) + Cardinality(leftOnly(x))
                      + Cardinality(rightOnly(x))
    IN  /\ \A k \in DOMAIN rows : Occurrences(rows[k], rows) = count(rows[k])
        /\ \A p \in P : Occurrences(row(sqIn.recs[p[1]], c.recs[p[2]]), rows) > 0
        /\ Len(rows) = Cardinality(P)
             + (IF c.type \in {"LEFT", "FULL"} THEN Cardinality(alone) ELSE 0)
             + (IF c.type \in {"RIGHT", "FULL"} THEN Cardinality(lone) ELSE 0)

\* Whenever a query is answered, its rows are those SQL asks for, within the
\* limits stated above for each kind of query: by a scan, through an index,
\* and joined (execute_select_query, execute_select_join_query).
QueriesExact ==
  [][AnswerInput => SelectExact /\ IndexSame /\ JoinExact]_sqIn
=============================================================================
