------------------------------ MODULE SqlSelect -----------------------------
(***************************************************************************)
(* SELECT of sql/query_executor.rs as operators on the records of a table: *)
(* a sequence, in slot order, of rows, which are sequences of values.      *)
(* Columns that are aggregated have 64 bits.                               *)
(***************************************************************************)
EXTENDS SqlValues

LOCAL INSTANCE SequencesExt

\* A result is a sequence of rows, or an error.
Error(e) == [error |-> e, rows |-> <<>>]
Result(rows) == [error |-> "", rows |-> rows]

First(P) == CHOOSE i \in P : \A j \in P : i <= j

(***************************************************************************)
(* Where the records come from.  Only an equality that is found in the     *)
(* secondary index, or a range for which the index finds something, avoids *)
(* the scan; then one record is read.                                      *)
(***************************************************************************)
\* The comparison an index could serve: the first of an AND or an OR.
RECURSIVE IndexOperation(_)
IndexOperation(cond) ==
  CASE cond[1] = "compare" ->
         IF /\ cond[3] \in {"=", "<", "<=", ">", ">="}
            /\ cond[4].k \in {"Integer", "Float", "String", "Boolean"}
         THEN {cond} ELSE {}
    [] cond[1] \in {"and", "or"} ->
         IF IndexOperation(cond[2]) # {} THEN IndexOperation(cond[2])
         ELSE IndexOperation(cond[3])
    [] OTHER -> {}

\* The records the index may answer with.  Its keys are little-endian bytes,
\* so a range may find any record that is indexed.
IndexHits(schema, recs, indexed, cond) ==
  UNION {{i \in indexed.ids :
            /\ op[2] = Field(indexed.field, FALSE)
            /\ op[3] = "=" =>
                 recs[i][First(Positions(schema, op[2].f))] = ConstantValue(op[4])}
         : op \in IndexOperation(cond)}

Sources(schema, recs, indexed, cond) ==
  LET hits == IndexHits(schema, recs, indexed, cond)
  IN  IF hits = {} THEN {recs} ELSE {<<recs[i]>> : i \in hits}

(***************************************************************************)
(* ORDER BY, on pairs of a record and its expression values                *)
(***************************************************************************)
Less(v, w) ==
  /\ v.ty = w.ty
  /\ v.ty \in Numeric \cup Times \cup {"Bool"}
  /\ v.n * w.d < w.n * v.d

\* rows.sort_by: stable.  keys[i] is what row i is sorted by.
StableSort(rows, keys, desc) ==
  LET before(i, j) == IF desc THEN Less(keys[j], keys[i]) ELSE Less(keys[i], keys[j])
      ahead(i, j) == before(i, j) \/ (~before(j, i) /\ i < j)
      rank(i) == Cardinality({j \in DOMAIN rows : ahead(j, i)})
  IN  [p \in DOMAIN rows |-> rows[CHOOSE i \in DOMAIN rows : rank(i) = p - 1]]

\* By position (1-based), by a field; Bool is sorted only as a field.
SortRowsWithAlias(schema, rows, order) ==
  LET P == Positions(schema, order.field)
      unsorted(v) == IF v.ty = "Bool" THEN Num("Bool", 0) ELSE v
      byPos == [i \in DOMAIN rows |-> unsorted(rows[i].values[order.pos])]
      byField == [i \in DOMAIN rows |-> rows[i].record[First(P)]]
  IN  IF order.pos > 0
      THEN IF rows = <<>> THEN Result(rows)
           ELSE IF order.pos > Len(rows[1].values) THEN Error("FieldNotFound")
           ELSE Result(StableSort(rows, byPos, order.desc))
      ELSE IF P = {} THEN Error("FieldNotFound")
           ELSE Result(StableSort(rows, byField, order.desc))

(***************************************************************************)
(* Aggregates without GROUP BY                                             *)
(***************************************************************************)
Quotient(a, b) == Arith("/", a, b)

\* MIN and MAX take a zero for "no value yet".
Extreme(fn, acc, v) ==
  IF acc.n = 0 THEN v
  ELSE IF acc.ty # v.ty THEN Fail("TypeMismatch")
  ELSE IF IF fn = "MIN" THEN Less(v, acc) ELSE Less(acc, v) THEN v ELSE acc

Variance(fn, sum, squares, n) ==
  LET mean == Quotient(sum, Flt(n, 1))
  IN  IF n < (IF fn = "VAR" THEN 1 ELSE 2) THEN Flt(0, 1)
      ELSE IF fn = "VAR"
      THEN Arith("-", Quotient(squares, Flt(n, 1)), Arith("*", mean, mean))
      ELSE Quotient(Arith("-", squares, Quotient(Arith("*", sum, sum), Flt(n, 1))),
                    Flt(n - 1, 1))

\* SUM leaves the bits of the f64 sum in a value typed UInt64; AVG never
\* counts its rows, so it is the sum.  STDDEV is the root of VAR.
AggregateValue(fn, vs) ==
  LET n == Len(vs)
      sum == FoldLeft(LAMBDA x, v : Arith("+", x, F64(v)), Flt(0, 1), vs)
      squares == FoldLeft(LAMBDA x, v : Arith("+", x, Arith("*", F64(v), F64(v))),
                          Flt(0, 1), vs)
  IN  CASE fn = "COUNT" -> Num("UInt64", n)
        [] fn = "SUM" -> IF \E i \in 1 .. n : vs[i].ty \notin Ints
                         THEN Fail("TypeMismatch") ELSE [sum EXCEPT !.ty = "UInt64"]
        [] fn \in {"MIN", "MAX"} ->
             FoldLeft(LAMBDA acc, v : Extreme(fn, acc, v), Num("UInt64", 0), vs)
        [] fn \in {"AVG", "MOVING_SUM"} -> sum
        [] fn = "MOVING_AVERAGE" -> IF n = 0 THEN sum ELSE Quotient(sum, Flt(n, 1))
        [] fn \in {"VAR", "VAR_SAMP"} -> Variance(fn, sum, squares, n)

\* The argument of an aggregate in one record.
Argument(schema, rec, f) ==
  LET P == Positions(schema, f)
  IN  IF f = "*" THEN Num("UInt64", 1)
      ELSE IF P = {} THEN Fail("FieldNotFound") ELSE rec[First(P)]

AggregateRow(schema, recs, items) ==
  LET row == [c \in DOMAIN items |->
                AggregateValue(items[c][1], [i \in DOMAIN recs |->
                                 Argument(schema, recs[i], items[c][2])])]
      missing == {c \in DOMAIN items : \E i \in DOMAIN recs :
                    Failed(Argument(schema, recs[i], items[c][2]))}
  IN  IF \E c \in DOMAIN items : items[c][1] = "field" THEN Error("InternalError")
      ELSE IF missing # {} THEN Error("FieldNotFound")
      ELSE IF \E c \in DOMAIN items : Failed(row[c]) THEN Error("TypeMismatch")
      ELSE Result(<<row>>)

(***************************************************************************)
(* GROUP BY: rows with the same hash of the key are one group              *)
(***************************************************************************)
HashTypedValue(v) ==
  CASE v.ty \in Strings ->
         FoldLeft(LAMBDA h, c : Wrap("UInt64", 31 * h + c), 0, v.s)
    [] v.ty = "Json" -> 0
    [] OTHER -> Wrap("UInt64", v.n)

\* SUM, MIN and MAX take the first value for their start, a UInt64 zero for
\* no start; the sum has the type of the column.
GroupStep(fn, acc, v) ==
  IF acc.ty = "UInt64" /\ acc.n = 0 THEN v
  ELSE IF acc.ty # v.ty THEN Fail("TypeMismatch")
  ELSE CASE fn = "SUM" -> IF v.ty \in Floats THEN Arith("+", acc, v)
                          ELSE Num(v.ty, Wrap(v.ty, acc.n + v.n))
         [] fn = "MIN" -> IF Less(v, acc) THEN v ELSE acc
         [] fn = "MAX" -> IF Less(acc, v) THEN v ELSE acc

GroupAggregate(fn, vs) ==
  CASE fn = "COUNT" -> Num("UInt64", Len(vs))
    [] fn = "AVG" ->
         Quotient(FoldLeft(LAMBDA x, v : Arith("+", x, F64(v)), Flt(0, 1), vs),
                  Flt(Len(vs), 1))
    [] fn \in {"SUM", "MIN", "MAX"} ->
         FoldLeft(LAMBDA acc, v : GroupStep(fn, acc, v), Num("UInt64", 0), vs)
    [] OTHER -> Fail("TypeMismatch")

\* by: the expressions of GROUP BY.  Groups come in the order of their keys.
GroupRows(schema, recs, by, items) ==
  LET value(i, b) == EvaluateExpression(schema, recs[i], by[b], 0)
      key == [i \in DOMAIN recs |-> [b \in DOMAIN by |-> HashTypedValue(value(i, b))]]
      keys == {key[i] : i \in DOMAIN recs}
      nth(g) == CHOOSE k \in keys :
                  Cardinality({h \in keys : Before(h, k)}) = g - 1
      members(k) == SelectSeq([i \in DOMAIN recs |-> i], LAMBDA i : key[i] = k)
      cell(k, item) ==
        LET args == [i \in DOMAIN members(k) |->
                       Argument(schema, recs[members(k)[i]], item[2])]
        IN  IF item[1] = "field" THEN args[1] ELSE GroupAggregate(item[1], args)
      rows == [g \in 1 .. Cardinality(keys) |->
                 [c \in DOMAIN items |-> cell(nth(g), items[c])]]
  IN  IF \E i \in DOMAIN recs, b \in DOMAIN by : Failed(value(i, b))
      THEN Error("FieldNotFound")
      ELSE IF \E g \in DOMAIN rows, c \in DOMAIN items : Failed(rows[g][c])
      THEN Error("TypeMismatch")
      ELSE Result(rows)

(***************************************************************************)
(* execute_select_query.  The columns of every record are evaluated before *)
(* WHERE is looked at; LIMIT comes before the aggregates and DISTINCT.     *)
(***************************************************************************)
Distinct(rows) ==
  LET first == SelectSeq([i \in DOMAIN rows |-> i],
                         LAMBDA i : \A j \in 1 .. i - 1 : rows[j] # rows[i])
  IN  [k \in DOMAIN first |-> rows[first[k]]]

Matches(schema, rec, where) ==
  where[1] = "all" \/ EvaluateConditionWithAlias(schema, rec, where)

SelectRows(schema, source, q) ==
  LET pairs == [i \in DOMAIN source |->
                  [record |-> source[i],
                   values |-> [c \in DOMAIN q.cols |->
                                 EvaluateExpression(schema, source[i], q.cols[c], 0)]]]
      failing == {i \in DOMAIN pairs : \E c \in DOMAIN q.cols : Failed(pairs[i].values[c])}
      filtered == SelectSeq(pairs, LAMBDA p : Matches(schema, p.record, q.where))
      sorted == IF q.order = {} THEN Result(filtered)
                ELSE SortRowsWithAlias(schema, filtered, CHOOSE o \in q.order : TRUE)
      limited == IF q.limit < 0 THEN sorted.rows ELSE Cut(sorted.rows, q.limit)
      records == [i \in DOMAIN limited |-> limited[i].record]
      values == [i \in DOMAIN limited |-> limited[i].values]
  IN  IF failing # {} THEN Error("InternalError")
      ELSE IF sorted.error # "" THEN sorted
      ELSE IF q.by # <<>> THEN GroupRows(schema, records, q.by, q.items)
      ELSE IF q.items # <<>> THEN AggregateRow(schema, records, q.items)
      ELSE Result(IF q.distinct THEN Distinct(values) ELSE values)
=============================================================================
