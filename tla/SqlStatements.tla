--------------------------- MODULE SqlStatements ----------------------------
(***************************************************************************)
(* The statements of sql/query_parser.rs, and the dispatch of              *)
(* execute_query (sql/query_executor.rs) on what the parser made of them.  *)
(***************************************************************************)
EXTENDS SqlParser, FiniteSets

\* SqlQuery as the statement parsers fill it, without the fields they leave.
NewQuery(type) ==
  [query_type |-> type, table_name |-> "", table_alias |-> <<>>, joins |-> <<>>,
   columns |-> <<>>, select_all |-> FALSE, distinct |-> FALSE, where_clause |-> <<>>,
   having_clause |-> <<>>, group_by |-> <<>>, order_by |-> <<>>, limit |-> <<>>,
   sample_by |-> <<>>, fill_clause |-> <<>>, insert_columns |-> <<>>, values |-> <<>>,
   table_def |-> <<>>, primary_key |-> <<>>, index_column |-> <<>>, index_type |-> <<>>,
   params |-> <<>>, index_online |-> TRUE, update_pairs |-> <<>>,
   ignore_duplicates |-> FALSE, if_not_exists |-> FALSE, model |-> <<>>]

Named(type, id) == Read(id.at, [NewQuery(type) EXCEPT !.table_name = id.val])

(***************************************************************************)
(* SELECT                                                                  *)
(***************************************************************************)
ParseSelectClause(i) ==
  LET j == Skip(i, "DISTINCT")
      exprs == CommaList(ParseExpression, j)
  IN  IF At(j) = "*" THEN Read(j + 1, [all |-> TRUE, distinct |-> j # i, exprs |-> <<>>])
      ELSE Read(exprs.at, [all |-> FALSE, distinct |-> j # i, exprs |-> exprs.val])

\* The words that open a join, and the position behind JOIN.
JoinType(i) ==
  CASE PeekIdentifier(i) = "JOIN" -> Read(i + 1, "Inner")
    [] PeekIdentifier(i) = "INNER" -> Read(Expect(i + 1, "JOIN"), "Inner")
    [] PeekIdentifier(i) = "LEFT" -> Read(Expect(Skip(i + 1, "OUTER"), "JOIN"), "Left")
    [] PeekIdentifier(i) = "RIGHT" -> Read(Expect(Skip(i + 1, "OUTER"), "JOIN"), "Right")
    [] PeekIdentifier(i) = "FULL" -> Read(Expect(Skip(i + 1, "OUTER"), "JOIN"), "Full")
    [] OTHER -> Read(i, "None")

RECURSIVE ParseJoins(_)
ParseJoins(i) ==
  LET type == JoinType(i)
      table == ParseIdentifier(type.at)
      alias == ParseAlias(table.at)
      on == ParseWhereCondition(Expect(alias.at, "ON"))
      more == ParseJoins(on.at)
      clause == [join_type |-> type.val, table_name |-> table.val, table_alias |-> alias.val,
                 on_condition |-> on.val]
  IN  IF type.val = "None" THEN Read(i, <<>>)
      ELSE IF type.at = 0 \/ table.at = 0 \/ on.at = 0 \/ more.at = 0 THEN Err
      ELSE Read(more.at, <<clause>> \o more.val)

ParseFromAndJoinClauses(i) ==
  LET table == ParseIdentifier(i + 1)
      alias == ParseAlias(table.at)
      joins == ParseJoins(alias.at)
  IN  IF At(i) # "FROM" THEN Read(i, [table |-> "", alias |-> <<>>, joins |-> <<>>])
      ELSE IF table.at = 0 THEN Err
      ELSE Read(joins.at, [table |-> table.val, alias |-> alias.val, joins |-> joins.val])

ParseGroupByClause(i) ==
  LET exprs == CommaList(ParseExpression, Expect(i, "BY"))
      named == SelectSeq(exprs.val, LAMBDA e : e.e = "Field")
  IN  IF exprs.at = 0 THEN Err
      ELSE Read(exprs.at, [expressions |-> exprs.val,
                           fields |-> [k \in DOMAIN named |-> named[k].name]])

OrderByString(e) ==
  CASE e.e = "Field" -> e.name
    [] e.e = "Binary" -> IF e.left.e # "Field" \/ e.op \notin VectorOps THEN ""
                         ELSE IF HasVectorText(e) THEN VectorText(e)
                         ELSE e.left.name \o " " \o e.op \o " " \o Debug
    [] OTHER -> Debug

\* One field or position; whatever stands behind a comma is not read.
ParseOrderByClause(i) ==
  LET j == Expect(i, "BY")
      n == ParseNumber(j)
      expr == ParseVectorExpression(j)
      key == IF At(j) \in PxNumbers THEN n
             ELSE IF expr.at = 0 THEN Err ELSE Read(expr.at, OrderByString(expr.val))
      desc == At(key.at) = "DESC"
  IN  Read(IF desc THEN key.at + 1 ELSE Skip(key.at, "ASC"), [field |-> key.val, desc |-> desc])

ParseSampleByClause(i) ==
  LET j == Expect(i, "BY")
  IN  IF IsWord(At(j)) \/ At(j) \in PxIntervals \cup {"1", "2"} THEN Read(j + 1, At(j)) ELSE Err

ParseFillClause(i) ==
  IF At(i) \in {"PREV", "LINEAR", "NEXT"} THEN Read(i + 1, At(i)) ELSE ParseNumber(i)

ParseSelectQuery(i) ==
  LET sel == ParseSelectClause(i)
      from == ParseFromAndJoinClauses(sel.at)
      where == Optional(from.at, "WHERE", ParseWhereCondition)
      group == Optional(where.at, "GROUP", ParseGroupByClause)
      having == Optional(group.at, "HAVING", ParseWhereCondition)
      order == Optional(having.at, "ORDER", ParseOrderByClause)
      limit == Optional(order.at, "LIMIT", ParseNumber)
      sample == Optional(limit.at, "SAMPLE", ParseSampleByClause)
      fill == Optional(sample.at, "FILL", ParseFillClause)
  IN  IF fill.at = 0 THEN Err
      ELSE Read(fill.at, [NewQuery("Select") EXCEPT
             !.columns = sel.val.exprs, !.select_all = sel.val.all, !.distinct = sel.val.distinct,
             !.table_name = from.val.table, !.table_alias = from.val.alias,
             !.joins = from.val.joins, !.where_clause = where.val, !.group_by = group.val,
             !.having_clause = having.val, !.order_by = order.val, !.limit = limit.val,
             !.sample_by = sample.val, !.fill_clause = fill.val])

(***************************************************************************)
(* INSERT, UPDATE, DELETE                                                  *)
(***************************************************************************)
ParseValues(i) == CommaList(LAMBDA j : InParens(ParseValue, j), i)

ParseInsertQuery(i) ==
  LET j == Skip(i, "IGNORE")
      table == ParseIdentifier(Expect(j, "INTO"))
      listed == InParens(ParseIdentifier, table.at)
      cols == IF At(table.at) = "(" THEN listed ELSE Read(table.at, <<>>)
      values == ParseValues(Expect(cols.at, "VALUES"))
  IN  Read(values.at, [NewQuery("Insert") EXCEPT
        !.ignore_duplicates = j # i, !.table_name = table.val,
        !.insert_columns = cols.val, !.values = values.val])

ParseAssignment(i) ==
  LET f == ParseIdentifier(i)
      e == ParseExpression(Expect(f.at, "="))
  IN  Read(e.at, <<f.val, e.val>>)

ParseUpdateQuery(i) ==
  LET table == ParseIdentifier(i)
      pairs == CommaList(ParseAssignment, Expect(table.at, "SET"))
      where == Optional(pairs.at, "WHERE", ParseWhereCondition)
  IN  Read(where.at, [NewQuery("Update") EXCEPT
        !.table_name = table.val, !.update_pairs = pairs.val, !.where_clause = where.val])

ParseDeleteQuery(i) ==
  LET table == ParseIdentifier(Expect(i, "FROM"))
      where == Optional(table.at, "WHERE", ParseWhereCondition)
  IN  Read(where.at, [NewQuery("Delete") EXCEPT
        !.table_name = table.val, !.where_clause = where.val])

(***************************************************************************)
(* Column definitions: a type, then attributes in any order.               *)
(***************************************************************************)
TypeStops == {"PRIMARY", "NOT", "UNIQUE", "AUTOINCREMENT", "AUTO_INCREMENT", "DEFAULT"}

\* The tokens of a type up to the parenthesis that closes the first.
RECURSIVE TypeParameters(_, _)
TypeParameters(i, depth) ==
  LET d == depth + (IF At(i) = "(" THEN 1 ELSE 0) - (IF At(i) = ")" THEN 1 ELSE 0)
      more == TypeParameters(i + 1, d)
  IN  IF At(i) = "" THEN Read(0, "")
      ELSE IF d = 0 THEN Read(i + 1, At(i))
      ELSE Read(more.at, At(i) \o more.val)

\* A word behind the type is a part of it, and WITH takes a name and a value.
TypeModifier(i) ==
  LET word == ParseIdentifier(i)
      more == ParseIdentifier(word.at)
      value == ParseIdentifier(more.at + 1)
  IN  IF word.at = 0 \/ word.val \in TypeStops THEN Read(i, "")
      ELSE IF word.val # "WITH" \/ more.at = 0 \/ more.val \in TypeStops
           THEN Read(word.at, " " \o word.val)
      ELSE IF At(more.at) # "=" THEN Read(more.at, " WITH " \o more.val)
      ELSE Read(value.at, " WITH " \o more.val \o "=" \o value.val)

ParseDataType(i) ==
  LET base == ParseIdentifier(i)
      params == TypeParameters(base.at + 1, 1)
      size == IF At(base.at) = "(" THEN Read(params.at, "(" \o params.val) ELSE Read(base.at, "")
      modifier == TypeModifier(size.at)
  IN  IF base.at = 0 \/ size.at = 0 THEN Err
      ELSE Read(modifier.at, base.val \o size.val \o modifier.val)

NewColumn(name, type) ==
  [name |-> name, type |-> type, pk |-> FALSE, not_null |-> FALSE, unique |-> FALSE,
   auto |-> FALSE, def |-> <<>>]

RECURSIVE ColumnAttributes(_, _)
ColumnAttributes(i, c) ==
  LET v == ParseValue(i + 1)
  IN  CASE At(i) = "PRIMARY" -> ColumnAttributes(Expect(i + 1, "KEY"), [c EXCEPT !.pk = TRUE])
        [] At(i) = "NOT" -> ColumnAttributes(Expect(i + 1, "NULL"), [c EXCEPT !.not_null = TRUE])
        [] At(i) = "UNIQUE" -> ColumnAttributes(i + 1, [c EXCEPT !.unique = TRUE])
        [] At(i) \in {"AUTOINCREMENT", "AUTO_INCREMENT"} ->
             ColumnAttributes(i + 1, [c EXCEPT !.auto = TRUE])
        [] At(i) = "DEFAULT" -> ColumnAttributes(v.at, [c EXCEPT !.def = <<v.val>>])
        [] OTHER -> Read(i, c)

ParseColumnDefinition(i) ==
  LET name == ParseIdentifier(i)
      type == ParseDataType(name.at)
  IN  IF type.at = 0 THEN Err ELSE ColumnAttributes(type.at, NewColumn(name.val, type.val))

(***************************************************************************)
(* CREATE TABLE                                                            *)
(***************************************************************************)
\* [FOREIGN] KEY (...) REFERENCES table [(...)], of which nothing is kept.
SkipForeignKey(i) ==
  LET cols == InParens(ParseIdentifier, Expect(i, "KEY"))
      parent == ParseIdentifier(Expect(cols.at, "REFERENCES"))
  IN  IF At(parent.at) = "(" THEN InParens(ParseIdentifier, parent.at).at ELSE parent.at

TableItem(column, pk) == [column |-> column, pk |-> pk]

\* A column, or a constraint of the table; UNIQUE (...) is read and dropped.
ParseTableItem(i) ==
  LET j == IF At(i) = "CONSTRAINT" THEN ParseIdentifier(i + 1).at ELSE i
      key == InParens(ParseIdentifier, Expect(j + 1, "KEY"))
      column == ParseColumnDefinition(j)
  IN  CASE At(j) = "PRIMARY" -> Read(key.at, TableItem(<<>>, key.val))
        [] At(j) = "FOREIGN" -> Read(SkipForeignKey(j + 1), TableItem(<<>>, <<>>))
        [] j # i -> Read(IF At(j) = "UNIQUE" THEN InParens(ParseIdentifier, j + 1).at ELSE 0,
                         TableItem(<<>>, <<>>))
        [] OTHER -> IF column.at = 0 THEN Err
                    ELSE Read(column.at, TableItem(<<column.val>>,
                                IF column.val.pk THEN <<column.val.name>> ELSE <<>>))

RECURSIVE Flat(_)
Flat(seqs) == IF seqs = <<>> THEN <<>> ELSE Head(seqs) \o Flat(Tail(seqs))

\* An INTEGER that names itself the key counts up; then every column of the
\* key is marked.
Marked(c, pk) ==
  [c EXCEPT !.auto = @ \/ (c.pk /\ c.type = "INTEGER"),
            !.pk = \E k \in DOMAIN pk : pk[k] = c.name]

\* name = value, ...; a name given twice keeps its last value.
ParseParameter(i) ==
  LET name == ParseIdentifier(i)
      v == ParseValue(Expect(name.at, "="))
  IN  IF v.at = 0 \/ v.val.kind = "Null" THEN Err ELSE Read(v.at, <<name.val, v.val.text>>)

LastOf(pairs) ==
  [n \in {pairs[k][1] : k \in DOMAIN pairs} |->
     LET K == {k \in DOMAIN pairs : pairs[k][1] = n}
     IN  pairs[CHOOSE k \in K : \A j \in K : j <= k][2]]

Parameters(i) ==
  LET pairs == InParens(ParseParameter, i)
  IN  IF pairs.at = 0 THEN Err ELSE Read(pairs.at, LastOf(pairs.val))

Configuration(i) == Parameters(Expect(i, "CONFIGURATION"))

\* IF NOT EXISTS, or IF EXISTS where `words` says so.
IfExists(i, words) ==
  IF At(i) = "IF" THEN Read(ExpectAll(i + 1, words), TRUE) ELSE Read(i, FALSE)

ParseCreateTableQuery(i) ==
  LET if == IfExists(i, <<"NOT", "EXISTS">>)
      table == ParseIdentifier(if.at)
      items == InParens(ParseTableItem, table.at)
      config == Optional(items.at, "WITH", Configuration)
      pk == Flat([k \in DOMAIN items.val |-> items.val[k].pk])
      columns == Flat([k \in DOMAIN items.val |-> items.val[k].column])
  IN  IF config.at = 0 THEN Err
      ELSE Read(config.at, [NewQuery("CreateTable") EXCEPT
             !.if_not_exists = if.val, !.table_name = table.val, !.primary_key = pk,
             !.table_def = [k \in DOMAIN columns |-> Marked(columns[k], pk)],
             !.params = config.val])

(***************************************************************************)
(* Indexes, ALTER and DROP                                                 *)
(***************************************************************************)
Online(i) == IF At(i) \in {"ONLINE", "OFFLINE"} THEN Read(i + 1, At(i) = "ONLINE") ELSE Read(i, TRUE)

IndexColumn(i) ==
  LET c == ParseIdentifier(i)
  IN  Read(IF At(c.at) \in {"ASC", "DESC"} THEN c.at + 1 ELSE c.at, c.val)

ParseCreateIndexQuery(i) ==
  LET name == ParseIdentifier(i)
      table == ParseIdentifier(Expect(name.at, "ON"))
      cols == InParens(IndexColumn, table.at)
      using == Optional(cols.at, "USING", ParseIdentifier)
      params == Optional(using.at, "WITH", Parameters)
      online == Online(params.at)
  IN  Read(online.at, [NewQuery("CreateIndex") EXCEPT
        !.table_name = table.val, !.index_column = cols.val, !.index_type = using.val,
        !.params = params.val, !.index_online = online.val])

ParseReindexQuery(i) ==
  LET name == ParseIdentifier(i)
      online == Online(name.at)
  IN  Read(online.at, [NewQuery("Reindex") EXCEPT
        !.table_name = name.val, !.index_online = online.val])

\* ADD and MODIFY leave a column definition, DROP one of type DROP, RENAME
\* one whose type is the new name.
ParseAlterTableQuery(i) ==
  LET table == ParseIdentifier(i)
      op == At(table.at)
      j == Skip(table.at + 1, "COLUMN")
      old == ParseIdentifier(j)
      new == ParseIdentifier(Expect(old.at, "TO"))
      def == CASE op \in {"ADD", "MODIFY"} -> ParseColumnDefinition(j)
               [] op = "DROP" -> Read(old.at, NewColumn(old.val, "DROP"))
               [] op = "RENAME" -> Read(new.at, NewColumn(old.val, new.val))
               [] OTHER -> Err
  IN  IF table.at = 0 \/ def.at = 0 THEN Err
      ELSE Read(def.at, [NewQuery("AlterTable") EXCEPT
             !.table_name = table.val, !.table_def = <<def.val>>])

ParseDropTableQuery(i) ==
  LET if == IfExists(i, <<"EXISTS">>)
      table == ParseIdentifier(if.at)
      mode == At(table.at)
      flags == NewColumn(IF if.val THEN "true" ELSE "false",
                         IF mode = "DEFERRED" THEN "true" ELSE "false")
  IN  Read(IF mode \in {"DEFERRED", "CASCADE", "RESTRICT"} THEN table.at + 1 ELSE table.at,
           [NewQuery("DropTable") EXCEPT !.table_name = table.val, !.table_def = <<flags>>])

(***************************************************************************)
(* Databases, models, roles and users                                      *)
(***************************************************************************)
Schema(i) == ParseIdentifier(Expect(i, "SCHEMA"))

\* The parameters are kept in index_params, IF NOT EXISTS in
\* ignore_duplicates, the schema in table_alias.
ParseCreateDatabaseQuery(i) ==
  LET if == IfExists(i, <<"NOT", "EXISTS">>)
      name == ParseIdentifier(if.at)
      schema == Optional(name.at, "USING", Schema)
      config == Optional(schema.at, "WITH", Configuration)
  IN  Read(config.at, [NewQuery("CreateDatabase") EXCEPT
        !.table_name = name.val, !.table_alias = schema.val, !.params = config.val,
        !.ignore_duplicates = if.val])

ParseDropDatabaseQuery(i) ==
  LET if == IfExists(i, <<"EXISTS">>)
      name == ParseIdentifier(if.at)
  IN  Read(name.at, [NewQuery("DropDatabase") EXCEPT
        !.table_name = name.val, !.ignore_duplicates = if.val])

ModelInput(i) ==
  LET name == ParseIdentifier(i)
      type == ParseIdentifier(name.at)
  IN  Read(type.at, <<name.val, type.val>>)

ParseString(i) == IF At(i) \in PxQuoted THEN Read(i + 1, PxText[At(i)]) ELSE Read(0, "")

ParseCreateModelQuery(i) ==
  LET if == IfExists(i, <<"NOT", "EXISTS">>)
      name == ParseIdentifier(if.at)
      path == ParseString(Expect(name.at, "USING"))
      inputs == InParens(ModelInput, Expect(path.at, "AS"))
      type == ParseIdentifier(Expect(inputs.at, "RETURNS"))
  IN  Read(type.at, [NewQuery("CreateModel") EXCEPT
        !.if_not_exists = if.val, !.table_name = name.val,
        !.model = <<[path |-> path.val, inputs |-> inputs.val, output |-> type.val]>>])

\* Statements that only name something.
ParseDescribeQuery(i) == Named("Describe", ParseIdentifier(Skip(i, "TABLE")))
ParseUseDatabaseQuery(i) == Named("UseDatabase", ParseIdentifier(i))
ParseCloseDatabaseQuery(i) == Named("CloseDatabase", ParseIdentifier(i))
ParseCreateRoleQuery(i) == Named("CreateRole", ParseIdentifier(i))
ParseCreateUserQuery(i) == Named("CreateUser", ParseIdentifier(i))
ParseDropRoleQuery(i) == Named("DropRole", ParseIdentifier(i))
ParseDropUserQuery(i) == Named("DropUser", ParseIdentifier(i))

\* Permissions in columns, the role in table_alias.
Permissions(type, i, word) ==
  LET permissions == CommaList(ParseIdentifier, i)
      table == ParseIdentifier(Expect(permissions.at, "ON"))
      role == ParseIdentifier(Expect(table.at, word))
  IN  IF role.at = 0 THEN Err
      ELSE Read(role.at, [NewQuery(type) EXCEPT
             !.table_name = table.val, !.table_alias = <<role.val>>,
             !.columns = [k \in DOMAIN permissions.val |-> FieldExpr(permissions.val[k])]])
ParseGrantPermissionQuery(i) == Permissions("GrantPermission", i, "TO")
ParseRevokePermissionQuery(i) == Permissions("RevokePermission", i, "FROM")

\* The role in table_name, the user in table_alias.
Member(type, i, word) ==
  LET role == ParseIdentifier(i)
      user == ParseIdentifier(Expect(role.at, word))
  IN  Read(user.at, [NewQuery(type) EXCEPT !.table_name = role.val, !.table_alias = <<user.val>>])
ParseGrantRoleQuery(i) == Member("GrantRole", i, "TO")
ParseRevokeRoleQuery(i) == Member("RevokeRole", i, "FROM")

ParseTimeSeriesQuery(i) ==
  LET t == ParseCreateTableQuery(i)
  IN  IF t.at = 0 THEN Err ELSE Read(t.at, [t.val EXCEPT !.query_type = "CreateTimeSeriesTable"])

ParseShowStatusQuery(i) ==
  IF At(i) = "FOR" THEN Named("ShowIndexBuildStatus", ParseIdentifier(i + 1))
  ELSE Read(i, NewQuery("ShowIndexBuildStatus"))

(***************************************************************************)
(* parse_query_type: the words that name the statement.                    *)
(***************************************************************************)
ParseQueryType(i) ==
  LET w == At(i)
      x == At(i + 1)
      two == [CREATE |-> [CHECKPOINT |-> "CreateCheckpoint", TABLE |-> "CreateTable",
                INDEX |-> "CreateIndex", DATABASE |-> "CreateDatabase", MODEL |-> "CreateModel",
                ROLE |-> "CreateRole", USER |-> "CreateUser"],
              DROP |-> [TABLE |-> "DropTable", DATABASE |-> "DropDatabase", ROLE |-> "DropRole",
                USER |-> "DropUser"],
              ALTER |-> [TABLE |-> "AlterTable"],
              CLOSE |-> [DATABASE |-> "CloseDatabase"], SHOW |-> [TABLES |-> "ShowTables"],
              GRANT |-> [ROLE |-> "GrantRole"], REVOKE |-> [ROLE |-> "RevokeRole"]]
      one == [SELECT |-> "Select", INSERT |-> "Insert", UPDATE |-> "Update", DELETE |-> "Delete",
              DESCRIBE |-> "Describe", COMMIT |-> "Commit", ROLLBACK |-> "Rollback",
              REINDEX |-> "Reindex", GRANT |-> "GrantPermission", REVOKE |-> "RevokePermission"]
  IN  CASE w \in DOMAIN two /\ x \in DOMAIN two[w] -> Read(i + 2, two[w][x])
        [] w = "CREATE" /\ x = "TIMESERIES" -> Read(Expect(i + 2, "TABLE"), "CreateTimeSeriesTable")
        [] w = "SHOW" /\ x = "INDEX" ->
             Read(ExpectAll(i + 2, <<"BUILD", "STATUS">>), "ShowIndexBuildStatus")
        [] w = "USE" -> Read(Expect(i + 1, "DATABASE"), "UseDatabase")
        [] w = "BEGIN" -> Read(Skip(i + 1, "TRANSACTION"), "BeginTransaction")
        [] OTHER -> IF w \in DOMAIN one THEN Read(i + 1, one[w]) ELSE Read(0, "Other")

\* parse: the statement, then a semicolon.  Nothing checks that the text ends
\* there.
ParseStatement(type, i) ==
  CASE type = "Select" -> ParseSelectQuery(i)
    [] type = "Insert" -> ParseInsertQuery(i)
    [] type = "Update" -> ParseUpdateQuery(i)
    [] type = "Delete" -> ParseDeleteQuery(i)
    [] type = "Describe" -> ParseDescribeQuery(i)
    [] type = "CreateTable" -> ParseCreateTableQuery(i)
    [] type = "CreateTimeSeriesTable" -> ParseTimeSeriesQuery(i)
    [] type = "CreateIndex" -> ParseCreateIndexQuery(i)
    [] type = "CreateDatabase" -> ParseCreateDatabaseQuery(i)
    [] type = "CreateModel" -> ParseCreateModelQuery(i)
    [] type = "CreateRole" -> ParseCreateRoleQuery(i)
    [] type = "CreateUser" -> ParseCreateUserQuery(i)
    [] type = "GrantPermission" -> ParseGrantPermissionQuery(i)
    [] type = "GrantRole" -> ParseGrantRoleQuery(i)
    [] type = "RevokePermission" -> ParseRevokePermissionQuery(i)
    [] type = "RevokeRole" -> ParseRevokeRoleQuery(i)
    [] type = "DropRole" -> ParseDropRoleQuery(i)
    [] type = "DropUser" -> ParseDropUserQuery(i)
    [] type = "UseDatabase" -> ParseUseDatabaseQuery(i)
    [] type = "CloseDatabase" -> ParseCloseDatabaseQuery(i)
    [] type = "DropDatabase" -> ParseDropDatabaseQuery(i)
    [] type = "AlterTable" -> ParseAlterTableQuery(i)
    [] type = "DropTable" -> ParseDropTableQuery(i)
    [] type = "Reindex" -> ParseReindexQuery(i)
    [] type = "ShowIndexBuildStatus" -> ParseShowStatusQuery(i)
    [] OTHER -> Read(i, NewQuery(type))

ParseSqlQuery ==
  LET type == ParseQueryType(1)
      q == ParseStatement(type.val, type.at)
  IN  IF type.at = 0 THEN Err ELSE Read(Skip(q.at, ";"), q.val)

(***************************************************************************)
(* execute_query: the operation a query becomes.  `allowed` is what        *)
(* check_permission says of root, `columns` are the columns of the table,  *)
(* `series` says that the table is a time series.                          *)
(***************************************************************************)
Failure == [op |-> "InternalError"]

SizedTypes == {"INT", "INTEGER", "BIGINT", "TINYINT", "SMALLINT", "INT16", "INT32", "INT64",
  "UINT", "UINTEGER", "UBIGINT", "UTINYINT", "USMALLINT", "UINT16", "UINT32", "UINT64", "FLOAT",
  "DOUBLE", "REAL", "FLOAT32", "FLOAT64", "VARCHAR", "CHAR", "TEXT", "BOOL", "BOOLEAN",
  "TIMESTAMP", "TIMESTAMPTZ", "JSON"}

\* parse_data_type_with_precision accepts it: a known type, alone or with a
\* number in parentheses; a VECTOR must have one.
IsDataType(text) ==
  text \in SizedTypes \cup {t \o "(" \o n \o ")" : t \in SizedTypes \cup {"VECTOR"}, n \in {"1", "2"}}

\* What an entry of table_def means is found out from its second part.
AlterOperation(c, columns) ==
  CASE c.type = "DROP" -> [op |-> "DropColumn", name |-> c.name]
    [] IsDataType(c.type) -> [op |-> IF c.name \in columns THEN "ModifyColumn" ELSE "AddColumn",
                              column |-> c]
    [] OTHER -> [op |-> "RenameColumn", name |-> c.name, new |-> c.type]

ExecuteQuery(q, allowed, columns, series) ==
  LET type == q.query_type
  IN  CASE type \in {"Select", "Insert", "Update", "Delete"} ->
             IF ~allowed THEN Failure
             ELSE [op |-> IF type = "Select" /\ series THEN "SelectTimeSeries" ELSE type, query |-> q]
        [] type = "AlterTable" -> AlterOperation(q.table_def[1], columns)
        [] type = "DropTable" -> [op |-> "drop_table", name |-> q.table_name,
             if_exists |-> q.table_def[1].name = "true", deferred |-> q.table_def[1].type = "true"]
        [] type \in {"CreateDatabase", "UseDatabase", "CloseDatabase", "DropDatabase", "CreateRole",
                     "DropRole"} -> [op |-> type, name |-> q.table_name]
        [] type \in {"GrantPermission", "RevokePermission", "GrantRole", "RevokeRole"} ->
             IF q.table_def = <<>> THEN Failure
             ELSE [op |-> type, to |-> q.table_name, what |-> q.table_def[1]]
        [] type \in {"CreateUser", "DropUser"} -> Failure
        [] OTHER -> [op |-> type, query |-> q]
=============================================================================
