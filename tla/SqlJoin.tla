------------------------------- MODULE SqlJoin ------------------------------
(***************************************************************************)
(* SELECT with JOIN (execute_select_join_query).  A clause of the query is *)
(* [type, schema, recs, on]; each is joined with the main table by itself. *)
(* A reference is [t, f]: t is "main", "join" or "" when not qualified.    *)
(* on is <<"fields", ref, op, ref>>, <<"literal", ref, op, literal>> or    *)
(* <<"other">>, a condition that is not a comparison.                      *)
(* WHERE, ORDER BY, DISTINCT and aggregates of such a query are ignored.   *)
(***************************************************************************)
EXTENDS SqlSelect

LOCAL INSTANCE SequencesExt

NotFound == Fail("FieldNotFound")

Lookup(schema, rec, f) ==
  LET P == Positions(schema, f) IN IF P = {} THEN NotFound ELSE rec[First(P)]

\* A field of the ON condition: an unqualified name is sought in the main
\* table first.
OnField(main, m, clause, j, ref) ==
  LET inMain == Lookup(main, m, ref.f)
      inJoin == Lookup(clause.schema, j, ref.f)
  IN  IF ref.t = "main" \/ (ref.t = "" /\ ~Failed(inMain)) THEN inMain ELSE inJoin

OnLiteral(v, c) ==
  \/ v.ty \in Ints /\ c.k = "Integer" /\ v.n = Wrap(v.ty, c.n)
  \/ v.ty \in Strings /\ c.k = "String" /\ v.s = c.s
  \/ v.ty = "Bool" /\ c.k = "Boolean" /\ v.n = c.n
  \/ v.ty \in Floats /\ c.k = "Float" /\ v.n * c.d = c.n * v.d

\* Only equality is supported; a condition that is not a comparison holds.
OnMatches(main, m, clause, j) ==
  LET on == clause.on
      left == OnField(main, m, clause, j, on[2])
      right == OnField(main, m, clause, j, on[4])
  IN  IF on[1] = "other" THEN TRUE
      ELSE /\ on[3] = "=" /\ ~Failed(left)
           /\ IF on[1] = "fields" THEN ~Failed(right) /\ CompareValues(left, right)
              ELSE OnLiteral(left, on[4])

\* The columns of a result row; the qualifier of a name is dropped.
Project(main, m, clause, j, names) ==
  [c \in DOMAIN names |->
     IF ~Failed(Lookup(main, m, names[c])) THEN Lookup(main, m, names[c])
     ELSE IF ~Failed(Lookup(clause.schema, j, names[c]))
     THEN Lookup(clause.schema, j, names[c])
     ELSE Num("Int64", 0)]

\* An unmatched side reads as zeros, not NULL; text becomes VarChar.
Zeros(schema) ==
  [i \in DOMAIN schema |->
     Num(IF schema[i].ty \in Strings THEN "VarChar" ELSE schema[i].ty, 0)]

\* Mutant: an unmatched record of a FULL join is lost.
JoinedRowsLeft(main, m, clause, names) ==
  LET hits == SelectSeq(clause.recs, LAMBDA j : OnMatches(main, m, clause, j))
      row(j) == Project(main, m, clause, j, names)
  IN  IF hits = <<>> /\ clause.type = "LEFT"
      THEN <<row(Zeros(clause.schema))>>
      ELSE [i \in DOMAIN hits |-> row(hits[i])]

\* The rows of one record of the main table with one clause.
JoinedRows(main, m, clause, names) ==
  LET hits == SelectSeq(clause.recs, LAMBDA j : OnMatches(main, m, clause, j))
      row(j) == Project(main, m, clause, j, names)
  IN  IF hits = <<>> /\ clause.type \in {"LEFT", "FULL"}
      THEN <<row(Zeros(clause.schema))>>
      ELSE [i \in DOMAIN hits |-> row(hits[i])]

\* The second pass: records of the joined table that matched nothing.
UnmatchedRows(main, recs, clause, names) ==
  LET alone == SelectSeq(clause.recs, LAMBDA j :
                 \A i \in DOMAIN recs : ~OnMatches(main, recs[i], clause, j))
  IN  IF clause.type \in {"RIGHT", "FULL"}
      THEN [i \in DOMAIN alone |-> Project(main, Zeros(main), clause, alone[i], names)]
      ELSE <<>>

JoinQuery(main, recs, clauses, names, limit) ==
  LET first == FlattenSeq([i \in DOMAIN recs |->
                 FlattenSeq([c \in DOMAIN clauses |->
                   JoinedRows(main, recs[i], clauses[c], names)])])
      second == FlattenSeq([c \in DOMAIN clauses |->
                  UnmatchedRows(main, recs, clauses[c], names)])
      rows == first \o second
  IN  IF limit < 0 THEN rows ELSE Cut(rows, limit)
=============================================================================
