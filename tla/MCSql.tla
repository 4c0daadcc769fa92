------------------------------- MODULE MCSql --------------------------------
(***************************************************************************)
(* The SQL engine and the components its statements reach.  A behaviour    *)
(* runs one of them, named by `which`: statements that change a table,     *)
(* the time series tables, the databases, the roles and users, the models; *)
(* or the executor is given one input, or the parser one text.             *)
(***************************************************************************)
EXTENDS SqlDml, SqlReference, SqlGrammar, TimeSeries, DatabaseManager,
        AccessControl, ModelInference

CONSTANT conn1

MCBits == [ty \in Ints |-> IF ty \in {"UInt8", "Int8"} THEN 2
                           ELSE IF ty \in {"Int64", "UInt64"} THEN 4 ELSE 3]
MCZero == {0}
MCNormal == {FALSE}
MCOne == {conn1}
MCPks == 0 .. 3
MCPayloads == [c \in {conn1} |-> {}]

IntLit(n) == Literal("Integer", n, 1, <<>>)
TextLit(s) == Literal("String", 0, 1, s)
Column(name, ty, auto, def) ==
  [name |-> name, ty |-> ty, size |-> 1, len |-> 1, auto |-> auto, def |-> def]

MCColumns ==
  {<<Column("k", "UInt8", auto, Num("UInt8", 0)), Column("v", "UInt8", FALSE, Num("UInt8", 1))>> : auto \in BOOLEAN}
  \cup {<<Column("k", "Int8", TRUE, Num("Int8", 0)), Column("v", "VarChar", FALSE, Str("VarChar", <<>>))>>}
MCKeyLits == {NoValue, IntLit(3)}
MCValLits == {IntLit(5), TextLit(<<1, 1>>)}
MCConds == {<<"all">>, <<"compare", Field("v", FALSE), "=", IntLit(5)>>}
Ref(f) == <<"field", Field(f, FALSE)>>
MCSets == {<<"v", <<"binary", "+", Ref("v"), <<"constant", IntLit(1)>>>> >>,
           <<"v", Ref("k")>>, <<"k", <<"constant", IntLit(1)>> >>}


(***************************************************************************)
(* Inputs of conditions, queries and joins                                 *)
(***************************************************************************)
FltLit(n, d) == Literal("Float", n, d, <<>>)
BoolLit(n) == Literal("Boolean", n, 1, <<>>)

MCWhere ==
  LET ints == {Num(ty, n) : ty \in {"UInt8", "Int8", "Int64"}, n \in -2 .. 3} \cup
              {Num("UInt64", n) : n \in {0, 8, 9, 15}}
      typed == {v \in ints : v.n \in TypeMin(v.ty) .. TypeMax(v.ty)}
      values == typed \cup {Flt(n, d) : n \in {-1, 3}, d \in {1, 2}}
                  \cup {Num("Timestamp", n) : n \in {0, 2}}
                  \cup {Bool(b) : b \in BOOLEAN}
                  \cup {Str(ty, s) : ty \in {"VarChar", "Text"}, s \in {<<>>, <<1>>, <<1, 2>>}}
      lits == {IntLit(n) : n \in {-1, 0, 1, 2, 3, 8}} \cup {FltLit(3, 2)}
                \cup {BoolLit(1), TextLit(<<1>>), TextLit(<<1, 1>>)}
  IN  [kind : {"where"}, v : values, op : {"=", "#", "<", "<=", ">", ">="}, c : lits, d : lits]

Strings3(S) == UNION {[1 .. n -> S] : n \in 0 .. 3}
MCLike == [kind : {"like"}, s : Strings3({1, 2}), pattern : Strings3({1, 2, Percent, Underscore, Backslash})]

MCSchema == <<Column("g", "VarChar", FALSE, Num("VarChar", 0)), Column("x", "Int64", FALSE, Num("Int64", 0))>>
MCRow(g, x) == <<Str("VarChar", <<g>>), Num("Int64", x)>>
MCRecords == UNION {[1 .. n -> {MCRow(1, 1), MCRow(1, 2), MCRow(2, -1), MCRow(2, 0)}] : n \in 0 .. 3}
Query(exprs, where, order, limit, distinct, by, items) ==
  [cols |-> exprs, where |-> where, order |-> order, limit |-> limit,
   distinct |-> distinct, by |-> by, items |-> items]
MCWheres == {<<"all">>, <<"compare", Field("x", FALSE), ">", IntLit(0)>>,
             <<"compare", Field("x", FALSE), "=", IntLit(1)>>}
MCOrders == {{}} \cup {{[pos |-> 2, field |-> "", desc |-> d]} : d \in BOOLEAN}
MCQueries ==
  {Query(<<Ref("g"), Ref("x")>>, w, o, l, d, <<>>, <<>>) :
     w \in MCWheres, o \in MCOrders, l \in {-1, 2}, d \in BOOLEAN}
  \cup {Query(<<Ref("g")>>, w, {}, -1, d, <<>>, <<>>) : w \in MCWheres, d \in BOOLEAN}
  \cup {Query(<<>>, w, {}, -1, FALSE, by,
              IF by = <<>> THEN <<<<"COUNT", "x">>, <<"SUM", "x">>, <<"MIN", "x">>, <<"MAX", "x">>,
                                  <<"VAR", "x">>, <<"VAR_SAMP", "x">>, <<"MOVING_SUM", "x">>,
                                  <<"MOVING_AVERAGE", "x">>>>
              ELSE <<<<"field", "g">>, <<"COUNT", "x">>, <<"SUM", "x">>, <<"AVG", "x">>,
                     <<"MIN", "x">>, <<"MAX", "x">>>>) :
          w \in MCWheres, by \in {<<>>, <<Ref("g")>>}}
MCSelect ==
  UNION {{[kind |-> "select", schema |-> MCSchema, recs |-> recs, q |-> q,
           indexed |-> [field |-> "x", ids |-> ids]] :
            q \in MCQueries, ids \in {{}, {1} \cap DOMAIN recs}} : recs \in MCRecords}

MCOther == <<Column("y", "Int64", FALSE, Num("Int64", 0)), Column("z", "UInt8", FALSE, Num("UInt8", 0))>>
MCOtherRecords == UNION {[1 .. n -> {<<Num("Int64", 1), Num("UInt8", 1)>>,
                                     <<Num("Int64", 2), Num("UInt8", 1)>>}] : n \in 0 .. 2}
OnRef(t, f) == [t |-> t, f |-> f]
MCJoin ==
  {[kind |-> "join", schema |-> MCSchema, recs |-> recs, names |-> <<"g", "x", "z">>, at |-> <<2, at>>,
    clause |-> [type |-> type, schema |-> MCOther, recs |-> other,
                on |-> <<"fields", OnRef(t, "x"), "=", OnRef("join", MCOther[at].name)>>]] :
     recs \in {r \in MCRecords : Len(r) <= 2}, other \in MCOtherRecords, at \in {1, 2},
     type \in {"INNER", "LEFT", "RIGHT", "FULL"}, t \in {"main", ""}}

(***************************************************************************)
(* Texts of statements and conditions                                      *)
(***************************************************************************)
One == PxValue("Integer", "1")
Half == PxValue("Float", "2.5")
Some(S) == {<<>>} \cup {<<x>> : x \in S}

MCLeaf == {Comparison("A", "=", One), Comparison("B", "LIKE", PxValue("String", "S")),
           Between("A", One, Half)}
MCTree == MCLeaf \cup {Negation(c) : c \in MCLeaf}
             \cup {Junction(op, l, r) : op \in {"AND", "OR"}, l \in MCLeaf, r \in MCLeaf}
MCCond == MCTree \cup {Negation(c) : c \in MCTree}
             \cup {Junction(op, l, r) : op \in {"AND", "OR"}, l \in MCTree, r \in MCLeaf}

MCOperand == {FieldExpr("A"), ConstantExpr(Half), ConstantExpr(PxValue("Null", "")),
              CallExpr("COUNT", <<FieldExpr("*")>>), CallExpr("F", <<FieldExpr("A"), ConstantExpr(One)>>)}
MCExpr == MCOperand \cup {BinaryExpr(l, op, r) : l \in MCOperand, op \in {"+", "<->"}, r \in MCOperand}
MCAliased == {[e EXCEPT !.alias = x] : e \in MCExpr, x \in {<<>>, <<"X">>, <<"N_X">>}}

MCSelects ==
  LET clauses(j) == {<<>>, <<[join_type |-> j, table_name |-> "U", table_alias |-> <<"Y">>,
                             on_condition |-> Comparison("X", "=", PxValue("Identifier", "Y"))]>>}
      q0 == [NewQuery("Select") EXCEPT !.table_name = "T"]
      star == [q0 EXCEPT !.select_all = TRUE]
      groups == Some({[expressions |-> <<FieldExpr("A"), CallExpr("F", <<FieldExpr("B")>>)>>,
                       fields |-> <<"A">>]})
      c1 == CHOOSE c \in MCLeaf : TRUE
  IN  {[q0 EXCEPT !.columns = cs] : cs \in {<<e>> : e \in MCAliased} \cup {<<e, FieldExpr("B")>> : e \in MCAliased}}
      \cup {[star EXCEPT !.where_clause = <<c>>] : c \in MCCond}
      \cup {[star EXCEPT !.distinct = d, !.table_alias = x, !.joins = js, !.where_clause = w,
               !.group_by = g, !.having_clause = IF g = <<>> THEN <<>> ELSE h, !.order_by = o,
               !.limit = l, !.sample_by = s, !.fill_clause = IF s = <<>> THEN <<>> ELSE f] :
             d \in BOOLEAN, x \in Some({"X"}), js \in UNION {clauses(j) : j \in {"Inner", "Left", "Full"}},
             w \in Some({c1}), g \in groups, h \in Some({c1}),
             o \in Some({[field |-> "A", desc |-> TRUE], [field |-> "2", desc |-> FALSE]}),
             l \in Some({"1"}), s \in Some({"1H"}), f \in Some({"PREV", "2"})}

MCDml ==
  LET row == <<One, PxValue("String", "S"), PxValue("Null", "")>>
      set(e) == <<"A", e>>
  IN  {[NewQuery("Insert") EXCEPT !.table_name = "T", !.ignore_duplicates = i, !.insert_columns = cs,
          !.values = vs] :
         i \in BOOLEAN, cs \in {<<>>, <<"A", "B", "C">>}, vs \in {<<row>>, <<row, row>>, <<<<Half>>, row>>}}
      \cup {[NewQuery("Update") EXCEPT !.table_name = "T", !.update_pairs = ps, !.where_clause = w] :
         ps \in {<<set(e)>> : e \in MCExpr} \cup {<<set(e), <<"B", FieldExpr("A")>>>> : e \in MCOperand},
         w \in Some(MCLeaf)}
      \cup {[NewQuery("Delete") EXCEPT !.table_name = "T", !.where_clause = w] : w \in Some(MCCond)}

MCDdl ==
  LET col(name, type, key, nn, u, d) == [NewColumn(name, type) EXCEPT
        !.pk = name \in key, !.not_null = nn, !.unique = u, !.def = d]
      flags(x, d) == NewColumn(IF x THEN "true" ELSE "false", IF d THEN "true" ELSE "false")
  IN  {[NewQuery("CreateTable") EXCEPT !.table_name = "T", !.if_not_exists = x,
          !.primary_key = IF two THEN <<"A", "B">> ELSE <<"A">>,
          !.table_def = <<col("A", "INTEGER", {"A"}, nn, FALSE, <<>>),
                          col("B", type, IF two THEN {"B"} ELSE {}, nn, u, d)>>] :
         x \in BOOLEAN, two \in BOOLEAN, nn \in BOOLEAN, u \in BOOLEAN, type \in {"TEXT", "INTEGER"},
         d \in Some({One, PxValue("String", "S")})}
      \cup {[NewQuery("CreateIndex") EXCEPT !.table_name = "T", !.index_column = cs, !.index_type = ty,
               !.params = ps, !.index_online = on] :
         cs \in {<<"A">>, <<"A", "B">>}, ty \in Some({"HNSW"}), ps \in Some({[n \in {"M"} |-> "2"]}),
         on \in BOOLEAN}
      \cup {[NewQuery("DropTable") EXCEPT !.table_name = "T", !.table_def = <<flags(x, d)>>] :
         x \in BOOLEAN, d \in BOOLEAN}

MCOperation(q) ==
  IF q.query_type = "DropTable" THEN "drop_table" ELSE q.query_type

\* The other statements, with the operation each asks for.  Users and grants
\* are read, but execute_query looks for them in table_def, which the parser
\* leaves empty, and refuses them.
MCOthers ==
  LET alter(c) == [NewQuery("AlterTable") EXCEPT !.table_name = "T", !.table_def = <<c>>]
      named(type) == [NewQuery(type) EXCEPT !.table_name = "D"]
      text(tokens, q, op) == [tokens |-> tokens, query |-> q, op |-> op]
      plain(tokens, type) == text(tokens, NewQuery(type), type)
      of(tokens, type) == text(tokens, named(type), type)
      refused(tokens, type, alias, exprs) ==
        text(tokens, [named(type) EXCEPT !.table_alias = alias, !.columns = exprs], "InternalError")
  IN  {text(<<"ALTER", "TABLE", "T", "ADD", "COLUMN", "N_X", "VECTOR", "(", "2", ")">>,
            alter(NewColumn("N_X", "VECTOR(2)")), "AddColumn"),
       text(<<"ALTER", "TABLE", "T", "MODIFY", "A", "BIGINT">>, alter(NewColumn("A", "BIGINT")), "ModifyColumn"),
       text(<<"ALTER", "TABLE", "T", "DROP", "COLUMN", "A">>, alter(NewColumn("A", "DROP")), "DropColumn"),
       text(<<"ALTER", "TABLE", "T", "RENAME", "A", "TO", "Z">>, alter(NewColumn("A", "Z")), "RenameColumn"),
       text(<<"CREATE", "DATABASE", "IF", "NOT", "EXISTS", "D", "USING", "SCHEMA", "S">>,
            [named("CreateDatabase") EXCEPT !.ignore_duplicates = TRUE, !.table_alias = <<"S">>],
            "CreateDatabase"),
       text(<<"DROP", "DATABASE", "IF", "EXISTS", "D">>,
            [named("DropDatabase") EXCEPT !.ignore_duplicates = TRUE], "DropDatabase"),
       text(<<"CREATE", "MODEL", "D", "USING", "'S'", "AS", "(", "A", "FLOAT", ")", "RETURNS", "FLOAT">>,
            [named("CreateModel") EXCEPT
               !.model = <<[path |-> "S", inputs |-> <<<<"A", "FLOAT">>>>, output |-> "FLOAT"]>>],
            "CreateModel"),
       text(<<"CREATE", "TIMESERIES", "TABLE", "D", "(", "A", "INTEGER", "PRIMARY", "KEY", ")">>,
            [named("CreateTimeSeriesTable") EXCEPT !.primary_key = <<"A">>,
               !.table_def = <<[NewColumn("A", "INTEGER") EXCEPT !.pk = TRUE, !.auto = TRUE]>>],
            "CreateTimeSeriesTable"),
       text(<<"REINDEX", "D", "OFFLINE">>, [named("Reindex") EXCEPT !.index_online = FALSE], "Reindex"),
       of(<<"USE", "DATABASE", "D">>, "UseDatabase"), of(<<"CLOSE", "DATABASE", "D">>, "CloseDatabase"),
       of(<<"CREATE", "ROLE", "D">>, "CreateRole"), of(<<"DROP", "ROLE", "D">>, "DropRole"),
       of(<<"DESCRIBE", "TABLE", "D">>, "Describe"), of(<<"DESCRIBE", "D">>, "Describe"),
       of(<<"SHOW", "INDEX", "BUILD", "STATUS", "FOR", "D">>, "ShowIndexBuildStatus"),
       refused(<<"CREATE", "USER", "D">>, "CreateUser", <<>>, <<>>),
       refused(<<"GRANT", "SELECT", ",", "INSERT", "ON", "D", "TO", "R">>, "GrantPermission",
               <<"R">>, <<FieldExpr("SELECT"), FieldExpr("INSERT")>>),
       refused(<<"REVOKE", "SELECT", "ON", "D", "FROM", "R">>, "RevokePermission",
               <<"R">>, <<FieldExpr("SELECT")>>),
       refused(<<"GRANT", "ROLE", "D", "TO", "R">>, "GrantRole", <<"R">>, <<>>),
       refused(<<"REVOKE", "ROLE", "D", "FROM", "R">>, "RevokeRole", <<"R">>, <<>>),
       plain(<<"SHOW", "INDEX", "BUILD", "STATUS">>, "ShowIndexBuildStatus"),
       plain(<<"SHOW", "TABLES">>, "ShowTables"), plain(<<"BEGIN", "TRANSACTION">>, "BeginTransaction"),
       plain(<<"COMMIT">>, "Commit"), plain(<<"ROLLBACK">>, "Rollback"),
       plain(<<"CREATE", "CHECKPOINT">>, "CreateCheckpoint")}

MCStatements ==
  {[tokens |-> StatementTokens(q), query |-> q, op |-> MCOperation(q)] :
     q \in {s \in MCSelects : AliasesWritten(s)} \cup MCDml \cup MCDdl}
  \cup MCOthers

MCChains ==
  UNION {[names : {SubSeq(<<"A", "B", "C", "D">>, 1, n)}, ops : [1 .. n - 1 -> {"AND", "OR"}],
          negated : 0 .. n] : n \in 1 .. 4}

MCText ==
  \/ \E s \in MCStatements, end \in {<<>>, <<";">>} :
       /\ input = s.tokens \o end
       /\ txt = [kind |-> "statement", query |-> s.query, op |-> s.op]
  \/ \E ch \in MCChains : input = ChainTokens(ch) /\ txt = [kind |-> "chain", chain |-> ch]

(***************************************************************************)
(* Constants of the components behind the other statements                 *)
(***************************************************************************)
MCSrRecords == {[t |-> 0, v |-> 1, tag |-> 0], [t |-> 3, v |-> 2, tag |-> 0],
                [t |-> 8, v |-> 0, tag |-> 1]}
MCSrAggregations == {[interval |-> 1, agg |-> "sum"], [interval |-> 1, agg |-> "max"],
                     [interval |-> 2, agg |-> "avg"]}
TimeCmp(op, n) == [kind |-> "cmp", field |-> "time", op |-> op, n |-> n, int |-> TRUE]
MCSrLeaves ==
  {TimeCmp(op, n) : op \in {">=", ">", "="}, n \in {3}} \cup
  {TimeCmp("<=", 8), TimeCmp("<", 8), TimeCmp(">=", -1),
   [TimeCmp("=", 1) EXCEPT !.field = "value"], [TimeCmp("<", 1) EXCEPT !.int = FALSE],
   [kind |-> "between", field |-> "time", from |-> 1, to |-> 8]}
MCSrConditions ==
  MCSrLeaves \cup [kind : {"and"}, left : MCSrLeaves, right : MCSrLeaves]
    \cup {[kind |-> "or", left |-> TimeCmp("=", 3), right |-> TimeCmp("=", 4)]}
MCSrSamples ==
  {<<[n |-> 1, unit |-> "s"]>>, <<[n |-> 1, unit |-> "d"]>>,
   <<[n |-> 1, unit |-> "s"], [n |-> 1, unit |-> "none"]>>}

MCPermissions == <<"SELECT", "INSERT">>
MCGrants ==
  {[perm |-> "SELECT", table |-> t, column |-> ""] : t \in {"t", "u"}} \cup
  {[perm |-> "INSERT", table |-> "", column |-> "c"]}

MCMwArgs == {[type |-> "text", val |-> 1], [type |-> "number", val |-> 1],
             [type |-> "blob", val |-> 0]}
MCMwSize == [p |-> 1, q |-> 2]

VARIABLE which
mcVars == <<which, sqIn, input, txt, dmlVars, srVars, dmVars, acVars, mwVars>>

\* The components a behaviour does not run stay in an initial state.
MCInit ==
  /\ which \in {"statements", "inputs", "text", "series", "databases", "roles", "models"}
  /\ DmlInit /\ SrInit /\ DmInit /\ AcInit /\ MwInit
  /\ which # "statements" => cols = CHOOSE c \in SqColumns : TRUE
  /\ which # "models" => ~mwDb.use_worker
  /\ IF which = "inputs" THEN sqIn \in MCWhere \cup MCLike \cup MCSelect \cup MCJoin
     ELSE sqIn = NoInput
  /\ IF which = "text" THEN MCText ELSE input = <<>> /\ txt = NoText

MCNext ==
  /\ UNCHANGED which
  /\ \/ /\ UNCHANGED <<sqIn, input, txt>>
        /\ \/ which = "statements" /\ DmlNext /\ UNCHANGED <<srVars, dmVars, acVars, mwVars>>
           \/ which = "series" /\ SrNext /\ UNCHANGED <<dmlVars, dmVars, acVars, mwVars>>
           \/ which = "databases" /\ DmNext /\ UNCHANGED <<dmlVars, srVars, acVars, mwVars>>
           \/ which = "roles" /\ AcNext /\ UNCHANGED <<dmlVars, srVars, dmVars, mwVars>>
           \/ which = "models" /\ MwNext /\ UNCHANGED <<dmlVars, srVars, dmVars, acVars>>
     \/ /\ UNCHANGED <<dmlVars, srVars, dmVars, acVars, mwVars>>
        /\ \/ AnswerInput /\ UNCHANGED <<input, txt>>
           \/ ParseText /\ UNCHANGED sqIn

MCSpec == MCInit /\ [][MCNext]_mcVars
=============================================================================
