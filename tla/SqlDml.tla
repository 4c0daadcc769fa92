------------------------------- MODULE SqlDml -------------------------------
(***************************************************************************)
(* INSERT, UPDATE and DELETE of sql/query_executor.rs on a table with a    *)
(* primary key column `k`, which may be AUTO_INCREMENT, and a column `v`,  *)
(* together with BEGIN, COMMIT and ROLLBACK.  A statement that finds no    *)
(* active transaction runs in one of its own (auto).                       *)
(*                                                                         *)
(* The transaction manager is that of Transaction.  A statement handles    *)
(* its rows one step at a time.  SQL never touches the primary index.      *)
(***************************************************************************)
EXTENDS Transaction, SqlValues

CONSTANTS SqC,          \* the client that runs the statements
          SqColumns,    \* pairs of columns to try: <<k, v>>
          SqKeyLits,    \* literals given for k
          SqValLits,    \* literals given for v
          SqConds,      \* WHERE clauses; <<"all">> when there is none
          SqSets,       \* SET lists of UPDATE: <<field, expression>>
          SqMaxRows,    \* rows of one INSERT
          SqMaxStmts    \* bound on the number of statements that change rows

VARIABLES st,      \* the statement being executed
          done,    \* statements so far
          cols,    \* the columns of the table
          touched, \* history: UPDATE wrote since the last BEGIN
          keyed,   \* history: UPDATE wrote a key
          wrapped  \* history: AUTO_INCREMENT started again from 1

dmlVars == <<vars, st, done, cols, touched, keyed, wrapped>>

Idle == [kind |-> "none", rows |-> <<>>, ignore |-> FALSE, auto |-> FALSE,
         set |-> <<>>, before |-> <<>>]
NoValue == Literal("None", 0, 1, <<>>)

DmlInit ==
  /\ Init
  /\ cols \in SqColumns
  /\ st = Idle /\ done = 0
  /\ touched = FALSE /\ keyed = FALSE /\ wrapped = FALSE

TxVars == <<cur, buf, counter, undo, saved, dropped>>

\* A statement of the given kind starts: begin unless there is a transaction.
Start(s) ==
  /\ st = Idle
  /\ done < SqMaxStmts /\ done' = done + 1
  /\ \/ cur = NoTx /\ Begin(SqC)
     \/ cur # NoTx /\ UNCHANGED vars
  /\ st' = [s EXCEPT !.auto = (cur = NoTx), !.before = Content(tbl)]
  /\ UNCHANGED <<cols, touched, keyed, wrapped>>

\* Mutant: the statement's own transaction stays open.
FinishOpen(kind) ==
  /\ st.kind = kind /\ st.rows = <<>>
  /\ UNCHANGED vars
  /\ st' = Idle
  /\ UNCHANGED <<done, cols, touched, keyed, wrapped>>

\* The statement is over: commit if the transaction is its own.
Finish(kind) ==
  /\ st.kind = kind /\ st.rows = <<>>
  /\ IF st.auto THEN Commit(SqC) ELSE UNCHANGED vars
  /\ st' = Idle
  /\ UNCHANGED <<done, cols, touched, keyed, wrapped>>

(***************************************************************************)
(* INSERT                                                                  *)
(***************************************************************************)
\* Mutant: the last item is not undone.
AbortShort(T) ==
  /\ tbl' = T
  /\ UNCHANGED idx
  /\ IF st.auto
     THEN /\ cur' = NoTx
          /\ undo' = [undo EXCEPT ![SqC] = IF cur.count = 0 THEN 0 ELSE cur.count - 1]
          /\ st' = [st EXCEPT !.kind = "undo", !.rows = <<>>]
          /\ UNCHANGED <<buf, counter, saved, dropped>>
     ELSE UNCHANGED TxVars /\ st' = Idle

\* The error path: roll back if the transaction is the statement's own.
Abort(T) ==
  /\ tbl' = T
  /\ UNCHANGED idx
  /\ IF st.auto
     THEN /\ cur' = NoTx
          /\ undo' = [undo EXCEPT ![SqC] = cur.count]
          /\ st' = [st EXCEPT !.kind = "undo", !.rows = <<>>]
          /\ UNCHANGED <<buf, counter, saved, dropped>>
     ELSE UNCHANGED TxVars /\ st' = Idle

AutoKey(ty, max_pk) == IF max_pk >= TypeMax(ty) THEN 1 ELSE max_pk + 1

\* The value of column c in a new row: as given, or the default.
FieldValue(c, lit) ==
  IF lit = NoValue THEN c.def
  ELSE IF c.ty \in {"VarChar", "Char"} /\ lit.k = "String" /\ Len(lit.s) > c.len
  THEN Fail("TypeMismatch")
  ELSE IF c.ty = "Text" /\ lit.k = "String" THEN Str("Text", lit.s)
  ELSE Store(c.ty, c.size, ConstantValue(lit))

SqInsert ==
  \E n \in 1 .. SqMaxRows : \E rows \in [1 .. n -> SqKeyLits \X SqValLits] :
    \E ignore \in BOOLEAN :
       Start([Idle EXCEPT !.kind = "insert", !.rows = rows, !.ignore = ignore])

\* One row.  max_pk is raised before the row is known to go in.
InsertOne ==
  /\ st.kind = "insert" /\ st.rows # <<>>
  /\ LET lits == Head(st.rows)
         auto == cols[1].auto /\ lits[1] = NoValue
         T == IF auto THEN [tbl EXCEPT !.max_pk = AutoKey(cols[1].ty, @)] ELSE tbl
         key == IF auto THEN Num(cols[1].ty, Wrap(cols[1].ty, T.max_pk))
                ELSE FieldValue(cols[1], lits[1])
         val == FieldValue(cols[2], lits[2])
         row == [pk |-> key.n, val |-> val]
         valid == ~Failed(key) /\ ~Failed(val)
         next == [st EXCEPT !.rows = Tail(@)]
     IN  /\ wrapped' = (wrapped \/ (auto /\ T.max_pk < tbl.max_pk))
         /\ \/ ~valid /\ Abort(T)
            \/ /\ valid /\ Conflict(T, row, {}, counter)
               /\ \/ ~st.ignore /\ Abort(T)
                  \/ /\ st.ignore
                     /\ tbl' = T /\ st' = next /\ UNCHANGED <<idx, TxVars>>
            \/ /\ valid /\ ~Conflict(T, row, {}, counter)
               /\ InsertSlot(T) = {} /\ Abort(T)
            \/ /\ valid /\ ~Conflict(T, row, {}, counter)
               /\ \E s \in InsertSlot(T) :
                    /\ tbl' = InsertRow(T, s, row)
                    /\ Log("Insert", s, ZeroRow, row)
               /\ st' = next
               /\ UNCHANGED <<idx, counter, undo, saved>>
  /\ UNCHANGED <<done, cols, touched, keyed>>

(***************************************************************************)
(* DELETE and UPDATE: the matching slots are collected first               *)
(***************************************************************************)
RowValues(row) == <<Num(cols[1].ty, row.pk), row.val>>

Matching(cond) ==
  {s \in Used(tbl) : \/ cond[1] = "all"
                     \/ EvaluateCondition(cols, RowValues(tbl.data[s]), cond)}

InSlotOrder(S) ==
  CHOOSE f \in [1 .. Cardinality(S) -> S] :
    \A i, j \in 1 .. Cardinality(S) : i < j => f[i] < f[j]

SqDelete ==
  \E cond \in SqConds :
    Start([Idle EXCEPT !.kind = "delete", !.rows = InSlotOrder(Matching(cond))])

DeleteOne ==
  /\ st.kind = "delete" /\ st.rows # <<>>
  /\ DoDelete(Head(st.rows))
  /\ st' = [st EXCEPT !.rows = Tail(@)]
  /\ UNCHANGED <<idx, counter, undo, saved, done, cols, touched, keyed, wrapped>>

SqUpdate ==
  \E cond \in SqConds, set \in SqSets :
    Start([Idle EXCEPT !.kind = "update", !.set = set,
                       !.rows = InSlotOrder(Matching(cond))])

\* Expressions of SET see a time column as 0.
SeenValues(row) ==
  [i \in 1 .. 2 |-> LET v == RowValues(row)[i]
                    IN  IF v.ty \in Times THEN Num(v.ty, 0) ELSE v]

\* The new value is written to the record: no constraint is checked and no
\* log item is made.  An error leaves the statement's own transaction open,
\* on buffers that are gone with the call.
UpdateOne ==
  /\ st.kind = "update" /\ st.rows # <<>>
  /\ LET s == Head(st.rows)
         P == Positions(cols, st.set[1])
         c == CHOOSE i \in P : TRUE
         x == EvaluateExpression(cols, SeenValues(tbl.data[s]), st.set[2], 1)
         y == IF P = {} THEN Fail("FieldNotFound")
              ELSE IF Failed(x) THEN x ELSE Store(cols[c].ty, cols[c].size, x)
         row == IF c = 1 THEN [tbl.data[s] EXCEPT !.pk = y.n]
                ELSE [tbl.data[s] EXCEPT !.val = y]
     IN  \/ /\ Failed(y)
            /\ st' = IF st.auto THEN [Idle EXCEPT !.kind = "dangling"] ELSE Idle
            /\ UNCHANGED <<tbl, touched, keyed>>
         \/ /\ ~Failed(y)
            /\ tbl' = UpdateRow(tbl, s, row)
            /\ st' = [st EXCEPT !.rows = Tail(@)]
            /\ touched' = TRUE
            /\ keyed' = (keyed \/ c = 1)
  /\ UNCHANGED <<idx, TxVars, done, cols, wrapped>>

(***************************************************************************)
(* BEGIN, COMMIT, ROLLBACK                                                 *)
(***************************************************************************)
SqBegin ==
  /\ st = Idle /\ Begin(SqC)
  /\ touched' = FALSE
  /\ UNCHANGED <<st, done, cols, keyed, wrapped>>

SqCommit == st = Idle /\ Commit(SqC) /\ UNCHANGED <<st, done, cols, touched, keyed, wrapped>>

SqRollback ==
  /\ st = Idle /\ RollbackBegin(SqC)
  /\ st' = [Idle EXCEPT !.kind = "undo", !.before = saved[SqC]]
  /\ UNCHANGED <<done, cols, touched, keyed, wrapped>>

UndoStep ==
  /\ st.kind = "undo"
  /\ \/ UndoNext(SqC) /\ UNCHANGED st
     \/ RollbackEnd(SqC) /\ st' = Idle
  /\ UNCHANGED <<done, cols, touched, keyed, wrapped>>

DmlNext ==
  \/ SqInsert \/ InsertOne \/ Finish("insert")
  \/ SqDelete \/ DeleteOne \/ Finish("delete")
  \/ SqUpdate \/ UpdateOne \/ Finish("update")
  \/ SqBegin \/ SqCommit \/ SqRollback \/ UndoStep

(***************************************************************************)
(* Properties                                                              *)
(***************************************************************************)
\* An INSERT that fails in its own transaction, and a ROLLBACK of a
\* transaction without UPDATE whose operations all fit in the log, leave the
\* records as they were (execute_insert_query, rollback).
SqUndone ==
  st.kind = "undo" /\ undo[SqC] = 0 /\ ~dropped /\ (st.auto \/ ~touched)
    => Content(tbl) = st.before

\* While UPDATE wrote no key and the log took every operation, keys are unique; until AUTO_INCREMENT starts
\* again from 1 no key is above max_pk, so that a generated key is new
\* (execute_insert_query, validate_constraints).
SqKeys ==
  ~keyed /\ ~dropped => /\ UniquePks(tbl)
                         /\ ~wrapped => \A s \in Used(tbl) : tbl.data[s].pk <= tbl.max_pk

\* A failed INSERT and a ROLLBACK leave no trace, and keys stay unique.
StatementsSound == SqUndone /\ SqKeys

\* Between statements the only open transaction is one BEGIN opened: INSERT,
\* DELETE and an UPDATE that succeeds end the transaction they began.
SqNoneLeft ==
  [][st.auto /\ st' = Idle => cur' = NoTx]_dmlVars

\* ROLLBACK gives back the records the transaction began with, whatever
\* statements it ran.
SqRollbackComplete ==
  st.kind = "undo" /\ undo[SqC] = 0 /\ ~dropped => Content(tbl) = st.before
=============================================================================
