----------------------------- MODULE SqlGrammar -----------------------------
(***************************************************************************)
(* What the SQL parser promises: the text of a statement, written with its *)
(* aliases behind AS and its conditions in parentheses, is read back as    *)
(* that statement and to its end; and a condition without parentheses      *)
(* means what SQL says wherever no AND stands before an OR.                *)
(*                                                                         *)
(* txt says what input is the text of: a statement and the operation it    *)
(* asks for, or a condition as a chain of comparisons and connectives.     *)
(* Both are gone with the step that parses them.                           *)
(***************************************************************************)
EXTENDS SqlStatements

VARIABLE txt

NoText == [kind |-> "none"]
ParseText == txt # NoText /\ txt' = NoText /\ input' = <<>>

(***************************************************************************)
(* The text of expressions and conditions                                  *)
(***************************************************************************)
ValueTokens(v) ==
  CASE v.kind = "String" -> <<"'S'">>
    [] v.kind = "Json" -> <<"'[1]'">>
    [] v.kind = "Null" -> <<"NULL">>
    [] OTHER -> <<v.text>>

Commas(parts) ==
  Flat([k \in DOMAIN parts |-> IF k = 1 THEN parts[k] ELSE <<",">> \o parts[k]])
Parens(tokens) == <<"(">> \o tokens \o <<")">>
As(alias) == IF alias = <<>> THEN <<>> ELSE <<"AS", alias[1]>>
Maybe(words, option, T(_)) == IF option = <<>> THEN <<>> ELSE words \o T(option[1])
Word1(w) == <<w>>

RECURSIVE ExprTokens(_)
ExprTokens(e) ==
  (CASE e.e = "Field" -> <<e.name>>
     [] e.e = "Constant" -> ValueTokens(e.value)
     [] e.e = "Call" -> <<e.name>> \o Parens(Commas([k \in DOMAIN e.args |-> ExprTokens(e.args[k])]))
     [] e.e = "Binary" -> ExprTokens(e.left) \o <<e.op>> \o ExprTokens(e.right))
  \o As(e.alias)

RECURSIVE CondTokens(_)
CondTokens(c) ==
  CASE c.c = "Comparison" -> <<c.field, c.operator>> \o ValueTokens(c.value)
    [] c.c = "Between" -> <<c.field, "BETWEEN">> \o ValueTokens(c.min) \o <<"AND">> \o ValueTokens(c.max)
    [] c.c = "Not" -> Parens(<<"NOT">> \o Parens(CondTokens(c.cond)))
    [] OTHER -> Parens(CondTokens(c.left)) \o <<c.c>> \o Parens(CondTokens(c.right))

(***************************************************************************)
(* The text of statements                                                  *)
(***************************************************************************)
JoinTokens(j) ==
  (CASE j.join_type = "Inner" -> <<"JOIN">> [] j.join_type = "Left" -> <<"LEFT", "OUTER", "JOIN">>
     [] j.join_type = "Right" -> <<"RIGHT", "JOIN">> [] j.join_type = "Full" -> <<"FULL", "JOIN">>)
  \o <<j.table_name>> \o As(j.table_alias) \o <<"ON">> \o CondTokens(j.on_condition)

ListTokens(exprs) == Commas([k \in DOMAIN exprs |-> ExprTokens(exprs[k])])
GroupTokens(g) == ListTokens(g.expressions)
OrderTokens(o) == <<o.field>> \o (IF o.desc THEN <<"DESC">> ELSE <<>>)

SelectTokens(q) ==
  <<"SELECT">> \o (IF q.distinct THEN <<"DISTINCT">> ELSE <<>>)
  \o (IF q.select_all THEN <<"*">> ELSE ListTokens(q.columns))
  \o <<"FROM", q.table_name>> \o As(q.table_alias)
  \o Flat([k \in DOMAIN q.joins |-> JoinTokens(q.joins[k])])
  \o Maybe(<<"WHERE">>, q.where_clause, CondTokens)
  \o Maybe(<<"GROUP", "BY">>, q.group_by, GroupTokens)
  \o Maybe(<<"HAVING">>, q.having_clause, CondTokens)
  \o Maybe(<<"ORDER", "BY">>, q.order_by, OrderTokens)
  \o Maybe(<<"LIMIT">>, q.limit, Word1)
  \o Maybe(<<"SAMPLE", "BY">>, q.sample_by, Word1)
  \o Maybe(<<"FILL">>, q.fill_clause, Word1)

RowTokens(row) == Parens(Commas([k \in DOMAIN row |-> ValueTokens(row[k])]))
NameList(names) == Parens(Commas([k \in DOMAIN names |-> <<names[k]>>]))

InsertTokens(q) ==
  <<"INSERT">> \o (IF q.ignore_duplicates THEN <<"IGNORE">> ELSE <<>>) \o <<"INTO", q.table_name>>
  \o (IF q.insert_columns = <<>> THEN <<>> ELSE NameList(q.insert_columns))
  \o <<"VALUES">> \o Commas([k \in DOMAIN q.values |-> RowTokens(q.values[k])])

UpdateTokens(q) ==
  <<"UPDATE", q.table_name, "SET">>
  \o Commas([k \in DOMAIN q.update_pairs |->
       <<q.update_pairs[k][1], "=">> \o ExprTokens(q.update_pairs[k][2])])
  \o Maybe(<<"WHERE">>, q.where_clause, CondTokens)

DeleteTokens(q) == <<"DELETE", "FROM", q.table_name>> \o Maybe(<<"WHERE">>, q.where_clause, CondTokens)

ColumnTokens(c) ==
  <<c.name, c.type>> \o (IF c.not_null THEN <<"NOT", "NULL">> ELSE <<>>)
  \o (IF c.unique THEN <<"UNIQUE">> ELSE <<>>) \o (IF c.auto THEN <<"AUTO_INCREMENT">> ELSE <<>>)
  \o Maybe(<<"DEFAULT">>, c.def, ValueTokens)

\* The key is written behind the columns.
CreateTableTokens(q) ==
  <<"CREATE", "TABLE">> \o (IF q.if_not_exists THEN <<"IF", "NOT", "EXISTS">> ELSE <<>>)
  \o <<q.table_name>>
  \o Parens(Commas([k \in DOMAIN q.table_def |-> ColumnTokens(q.table_def[k])]
                   \o <<<<"PRIMARY", "KEY">> \o NameList(q.primary_key)>>))

CreateIndexTokens(q) ==
  <<"CREATE", "INDEX", "I", "ON", q.table_name>> \o NameList(q.index_column)
  \o Maybe(<<"USING">>, q.index_type, Word1)
  \o Maybe(<<"WITH">>, q.params, LAMBDA p : Parens(<<"M", "=", p["M"]>>))
  \o (IF q.index_online THEN <<>> ELSE <<"OFFLINE">>)

DropTableTokens(q) ==
  <<"DROP", "TABLE">> \o (IF q.table_def[1].name = "true" THEN <<"IF", "EXISTS">> ELSE <<>>)
  \o <<q.table_name>> \o (IF q.table_def[1].type = "true" THEN <<"DEFERRED">> ELSE <<>>)

StatementTokens(q) ==
  CASE q.query_type = "Select" -> SelectTokens(q)
    [] q.query_type = "Insert" -> InsertTokens(q)
    [] q.query_type = "Update" -> UpdateTokens(q)
    [] q.query_type = "Delete" -> DeleteTokens(q)
    [] q.query_type = "CreateTable" -> CreateTableTokens(q)
    [] q.query_type = "CreateIndex" -> CreateIndexTokens(q)
    [] q.query_type = "DropTable" -> DropTableTokens(q)

(***************************************************************************)
(* A condition as a chain c1 op1 c2 op2 ...: its meaning in SQL, where AND *)
(* binds before OR, and in the tree the parser makes of it.                *)
(***************************************************************************)
ChainTokens(ch) ==
  Flat([k \in DOMAIN ch.names |->
    (IF k = 1 THEN <<>> ELSE <<ch.ops[k - 1]>>)
    \o (IF ch.negated = k THEN <<"NOT">> ELSE <<>>) \o <<ch.names[k], "=", "1">>])

ChainMeaning(ch, truth) ==
  LET n == Len(ch.names)
      term(k) == truth[ch.names[k]] # (ch.negated = k)
  IN  \E i, j \in 1 .. n : /\ i <= j
                           /\ i = 1 \/ ch.ops[i - 1] = "OR"
                           /\ j = n \/ ch.ops[j] = "OR"
                           /\ \A k \in i .. j - 1 : ch.ops[k] = "AND"
                           /\ \A k \in i .. j : term(k)

RECURSIVE TreeMeaning(_, _)
TreeMeaning(c, truth) ==
  CASE c.c = "Comparison" -> truth[c.field]
    [] c.c = "Not" -> ~TreeMeaning(c.cond, truth)
    [] c.c = "AND" -> TreeMeaning(c.left, truth) /\ TreeMeaning(c.right, truth)
    [] c.c = "OR" -> TreeMeaning(c.left, truth) \/ TreeMeaning(c.right, truth)

\* No AND before an OR, and NOT only before the last comparison.
PlainChain(ch) ==
  /\ \A i, j \in DOMAIN ch.ops : i < j /\ ch.ops[i] = "AND" => ch.ops[j] = "AND"
  /\ ch.negated \in {0, Len(ch.names)}

\* The alias parser takes LEFT, RIGHT, FULL and SAMPLE for an alias: a table or
\* a key of GROUP BY that one of them follows has an alias of its own.
AliasesWritten(q) ==
  LET tail == q.having_clause \o q.order_by \o q.limit
  IN  /\ \/ q.table_alias # <<>>
         \/ IF q.joins = <<>>
            THEN q.sample_by = <<>> \/ q.where_clause \o q.group_by \o tail # <<>>
            ELSE q.joins[1].join_type = "Inner"
      /\ q.group_by = <<>> \/ q.sample_by = <<>> \/ tail # <<>>

\* Whenever a text is parsed, the statement parsers read back the statement,
\* to the end of the text, execute_query starts the operation it asks for, and
\* the condition parser, which groups to the right without precedence, keeps
\* the SQL meaning of plain chains (sql/query_parser.rs parse,
\* parse_where_condition; sql/query_executor.rs execute_query).
ParserExact ==
  [][ParseText =>
       CASE txt.kind = "statement" ->
              /\ ParseSqlQuery = Read(Len(input) + 1, txt.query)
              /\ ExecuteQuery(ParseSqlQuery.val, TRUE, {"A"}, FALSE).op = txt.op
         [] txt.kind = "chain" ->
              LET c == ParseWhereCondition(1)
                  names == {txt.chain.names[k] : k \in DOMAIN txt.chain.names}
              IN  /\ c.at = Len(input) + 1
                  /\ PlainChain(txt.chain) =>
                       \A truth \in [names -> BOOLEAN] :
                          TreeMeaning(c.val, truth) = ChainMeaning(txt.chain, truth)]_txt
=============================================================================
