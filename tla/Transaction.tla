---------------------------- MODULE Transaction -----------------------------
(***************************************************************************)
(* The global transaction manager (TransactionManager of transaction.rs),  *)
(* one table with its primary index, and clients that use them through the *)
(* record methods of MemoryTable or through the C API.                     *)
(*                                                                         *)
(* There is one current transaction for the whole process.  Every insert,  *)
(* update and delete made while there is one is recorded in its log, a     *)
(* static buffer of max_log_items items that the next transaction reuses.  *)
(* rollback clears current_tx and then undoes the items one by one without *)
(* the manager's lock and without the table's lock.                        *)
(*                                                                         *)
(* The steps inside one record operation are those of TableThreads; here   *)
(* an operation is one step.                                               *)
(***************************************************************************)
EXTENDS MemoryTable, PrimaryIndex

CONSTANTS Clients,
          MaxLog,      \* max_log_items
          MaxTx,       \* bound on the number of transactions
          IdMod,       \* record ids are logged and indexed as u16: 2^16
          PowerModes,  \* whether the table is in low power mode
          KeyChanges,  \* clients of the C API change keys in updates
          Payloads,    \* Payloads[c]: what client c writes in its records
          NoTx         \* current_tx = None

ASSUME TxAssumption ==
  /\ MaxLog \in Nat /\ MaxTx \in Nat
  /\ IdMod \in Nat \ {0}
  /\ PowerModes \subseteq BOOLEAN /\ KeyChanges \in BOOLEAN
  /\ Payloads \in [Clients -> SUBSET Vals]
  /\ NoTx \notin [id : Nat, owner : Clients, count : 0 .. MaxLog] \cup Nat

VARIABLES tbl,      \* the table
          idx,      \* its primary index
          cur,      \* current_tx: NoTx, or the transaction's id, log_item_count
          buf,      \* log_items
          counter,  \* tx_id_counter
          undo,     \* items each client has still to undo; NoTx when not in rollback
          saved,    \* history: the records when each client's transaction began
          dropped   \* history: an operation did not fit in a transaction's log

vars == <<tbl, idx, cur, buf, counter, undo, saved, dropped>>

LogItem(op, s, tx, old, new) ==
  [op |-> op, id |-> s % IdMod, tx |-> tx, old |-> old, new |-> new]

LogItems ==
  [op : {"Insert", "Update", "Delete"}, id : Slots, tx : Nat,
   old : Rows \cup {ZeroRow}, new : Rows \cup {ZeroRow}]

NoItem == LogItem("Insert", 0, 0, ZeroRow, ZeroRow)

\* The records of a table by slot.
Content(T) == [s \in Used(T) |-> T.data[s]]

TypeOK ==
  /\ tbl \in TableType
  /\ idx \in IndexType(Pks \cup {0}, Slots)
  /\ cur \in [id : Nat, owner : Clients, count : 0 .. MaxLog] \cup {NoTx}
  /\ buf \in [1 .. MaxLog -> LogItems]
  /\ counter \in Nat
  /\ undo \in [Clients -> (0 .. MaxLog) \cup {NoTx}]
  /\ dropped \in BOOLEAN

Init ==
  /\ \E T \in NewTables, on \in PowerModes : tbl = SetLowPowerMode(T, on)
  /\ idx = NewIndex
  /\ cur = NoTx
  /\ buf = [i \in 1 .. MaxLog |-> NoItem]
  /\ counter = 1
  /\ undo = [c \in Clients |-> NoTx]
  /\ saved = [c \in Clients |-> NoTx]
  /\ dropped = FALSE

Ready(c) == undo[c] = NoTx

(***************************************************************************)
(* begin, commit, rollback                                                 *)
(***************************************************************************)
Begin(c) ==
  /\ Ready(c) /\ cur = NoTx
  /\ counter <= MaxTx
  /\ cur' = [id |-> counter, owner |-> c, count |-> 0]
  /\ counter' = counter + 1
  /\ saved' = [saved EXCEPT ![c] = Content(tbl)]
  /\ UNCHANGED <<tbl, idx, buf, undo, dropped>>

\* The id is spent before the null check of tx_buffer.
BeginNullBuffer(c) ==
  /\ Ready(c) /\ cur = NoTx
  /\ counter <= MaxTx
  /\ counter' = counter + 1
  /\ UNCHANGED <<tbl, idx, cur, buf, undo, saved, dropped>>

Owns(c) == cur # NoTx /\ cur.owner = c

\* Whatever the write-ahead log answers, the transaction is over.
Commit(c) ==
  /\ Ready(c) /\ Owns(c)
  /\ cur' = NoTx
  /\ saved' = [saved EXCEPT ![c] = NoTx]
  /\ UNCHANGED <<tbl, idx, buf, counter, undo, dropped>>

\* Mutant: the last item of the log is not undone.
RollbackBeginShort(c) ==
  /\ Ready(c) /\ Owns(c)
  /\ cur' = NoTx
  /\ undo' = [undo EXCEPT ![c] = IF cur.count = 0 THEN 0 ELSE cur.count - 1]
  /\ UNCHANGED <<tbl, idx, buf, counter, saved, dropped>>

RollbackBegin(c) ==
  /\ Ready(c) /\ Owns(c)
  /\ cur' = NoTx
  /\ undo' = [undo EXCEPT ![c] = cur.count]
  /\ UNCHANGED <<tbl, idx, buf, counter, saved, dropped>>

RollbackEnd(c) ==
  /\ undo[c] = 0
  /\ undo' = [undo EXCEPT ![c] = NoTx]
  /\ saved' = [saved EXCEPT ![c] = NoTx]
  /\ UNCHANGED <<tbl, idx, cur, buf, counter, dropped>>

(***************************************************************************)
(* The three kinds of undo, on a table                                     *)
(***************************************************************************)
\* rollback of an insert has the body of delete.
UndoInsert(T, s) == DeleteRow(T, s)

\* Mutant: the top of the stack goes, whichever slot it is.
RemoveFreeTop(T, s) == [T EXCEPT !.free_slot_count = @ - 1]

\* The cell of the stack that holds s is overwritten by the top cell.
RemoveFree(T, s) ==
  LET P == {i \in 0 .. T.free_slot_count - 1 : T.free_slots[i] = s}
      i == CHOOSE i \in P : \A j \in P : i <= j
  IN  IF P = {} THEN T
      ELSE [T EXCEPT !.free_slots[i] = T.free_slots[T.free_slot_count - 1],
                     !.free_slot_count = @ - 1]

UndoDelete(T, s, old, id) ==
  [RemoveFree(T, s) EXCEPT
     !.data[s] = old,
     !.status[s] = "Used",
     !.version[s] = Bump(@),
     !.create[s] = id,
     !.delete[s] = 0,
     !.record_count = @ + 1]

UndoUpdate(T, s, old, id) ==
  [T EXCEPT !.data[s] = old, !.version[s] = Bump(@), !.create[s] = id]

UndoItem(item) ==
  LET s == item.id
      used == tbl.status[s] = "Used"
  IN  \/ /\ item.op = "Insert" /\ used
         /\ tbl' = UndoInsert(tbl, s)
         /\ idx' = IndexDelete(idx, tbl.data[s].pk)
      \/ /\ item.op = "Delete" /\ ~used
         /\ tbl' = UndoDelete(tbl, s, item.old, item.tx)
         /\ idx' = IndexInsert(idx, MaxRecords, item.old.pk, s)
      \/ /\ item.op = "Update" /\ used
         /\ tbl' = UndoUpdate(tbl, s, item.old, item.tx)
         /\ idx' = IndexInsert(IndexDelete(idx, tbl.data[s].pk), MaxRecords,
                               item.old.pk, s)
      \/ /\ (item.op = "Delete") = used
         /\ UNCHANGED <<tbl, idx>>

\* The loop of rollback reads the item from the buffer when it gets to it.
UndoNext(c) ==
  /\ undo[c] \notin {NoTx, 0}
  /\ UndoItem(buf[undo[c]])
  /\ undo' = [undo EXCEPT ![c] = @ - 1]
  /\ UNCHANGED <<cur, buf, counter, saved, dropped>>

(***************************************************************************)
(* begin_log_item, called by insert, update and delete when there is a     *)
(* current transaction, whichever client began it; the callers ignore its  *)
(* answer when the log is full.                                            *)
(***************************************************************************)

Log(op, s, old, new) ==
  \/ cur = NoTx /\ UNCHANGED <<cur, buf, dropped>>
  \/ /\ cur # NoTx /\ cur.count >= MaxLog
     /\ dropped' = TRUE
     /\ UNCHANGED <<cur, buf>>
  \/ /\ cur # NoTx /\ cur.count < MaxLog
     /\ buf' = [buf EXCEPT ![cur.count + 1] = LogItem(op, s, cur.id, old, new)]
     /\ cur' = [cur EXCEPT !.count = @ + 1]
     /\ UNCHANGED dropped

RowsOf(c) == {row \in Rows : row.val \in Payloads[c]}
Mine(c) == {s \in Used(tbl) : tbl.data[s].val \in Payloads[c]}

(***************************************************************************)
(* MemoryTable::insert, update, delete                                     *)
(***************************************************************************)
DoInsert(row, s) ==
  /\ tbl' = InsertRow(tbl, s, row)
  /\ Log("Insert", s, ZeroRow, row)

DoUpdate(s, row) ==
  /\ ~Conflict(tbl, row, {s}, counter)
  /\ tbl' = UpdateRow(tbl, s, row)
  /\ Log("Update", s, tbl.data[s], row)

DoDelete(s) ==
  /\ tbl' = DeleteRow(tbl, s)
  /\ Log("Delete", s, tbl.data[s], ZeroRow)

Insert(c) ==
  /\ Ready(c)
  /\ \E row \in RowsOf(c) : \E s \in InsertSlot(tbl) :
       ~Conflict(tbl, row, {}, counter) /\ DoInsert(row, s)
  /\ UNCHANGED <<idx, counter, undo, saved>>

Update(c) ==
  /\ Ready(c)
  /\ \E s \in Mine(c), row \in RowsOf(c) : DoUpdate(s, row)
  /\ UNCHANGED <<idx, counter, undo, saved>>

Delete(c) ==
  /\ Ready(c)
  /\ \E s \in Mine(c) : DoDelete(s)
  /\ UNCHANGED <<idx, counter, undo, saved>>

(***************************************************************************)
(* remdb_table_insert, remdb_table_update, remdb_table_delete              *)
(***************************************************************************)
\* When the index has no free item the call fails and the record stays.
ApiInsert(c) ==
  /\ Ready(c)
  /\ \E row \in RowsOf(c) : \E s \in InsertSlot(tbl) :
       /\ ~Conflict(tbl, row, {}, counter)
       /\ DoInsert(row, s)
       /\ idx' = IndexInsert(idx, MaxRecords, row.pk, s % IdMod)
  /\ UNCHANGED <<counter, undo, saved>>

ApiUpdate(c) ==
  /\ Ready(c)
  /\ \E key \in Pks : HasKey(idx, key) /\
       LET s == IndexFind(idx, key)
       IN  /\ s \in Mine(c)
           /\ \E row \in RowsOf(c) :
                /\ KeyChanges \/ row.pk = key
                /\ DoUpdate(s, row)
  /\ UNCHANGED <<idx, counter, undo, saved>>

ApiDelete(c) ==
  /\ Ready(c)
  /\ \E key \in Pks : HasKey(idx, key) /\
       LET s == IndexFind(idx, key)
       IN  /\ idx' = IndexDelete(idx, key)
           /\ \/ s \in Mine(c) /\ DoDelete(s)
              \/ s \notin Used(tbl) /\ UNCHANGED <<tbl, cur, buf, dropped>>
  /\ UNCHANGED <<counter, undo, saved>>

(***************************************************************************)
(* Spec: the record methods.  ApiSpec: the C API.                          *)
(***************************************************************************)
TxSteps(c) ==
  \/ Begin(c) \/ BeginNullBuffer(c) \/ Commit(c)
  \/ RollbackBegin(c) \/ UndoNext(c) \/ RollbackEnd(c)

Next == \E c \in Clients : TxSteps(c) \/ Insert(c) \/ Update(c) \/ Delete(c)
ApiNext ==
  \E c \in Clients : TxSteps(c) \/ ApiInsert(c) \/ ApiUpdate(c) \/ ApiDelete(c)

Spec == Init /\ [][Next]_vars
ApiSpec == Init /\ [][ApiNext]_vars

(***************************************************************************)
(* Properties                                                              *)
(***************************************************************************)
\* Whatever was logged, begun, committed or rolled back, and by whom: the free
\* stack is exact and record_count is the number of records, also between two
\* items of a rollback.
TableConsistent ==
  /\ StackDistinct(tbl)
  /\ Partition(tbl, {})
  /\ tbl.record_count = Cardinality(Used(tbl))

\* The records in f that client c wrote, with their slots.
Own(c, f) == {<<s, f[s]>> : s \in {u \in DOMAIN f : f[u].val \in Payloads[c]}}

\* As long as the operations of the transactions fit in their log, a rollback
\* leaves, when it has undone the last item, exactly the records of its client
\* that were there when the transaction began, each in its slot.
RollbackRestores ==
  \A c \in Clients :
     undo[c] = 0 /\ ~dropped => Own(c, Content(tbl)) = Own(c, saved[c])

Quiet == \A c \in Clients : Ready(c)

\* As long as the log is large enough, no two records have the same primary key,
\* after rollbacks too: validate_constraints sees the records that a rollback
\* has put back under the transaction's id.
KeysStayUnique == Quiet /\ ~dropped => UniquePks(tbl)

ItemsMatchRecords ==
  /\ {<<idx[i].key, idx[i].id>> : i \in DOMAIN idx}
       = {<<tbl.data[s].pk, s>> : s \in Used(tbl)}
  /\ Len(idx) = Cardinality(Used(tbl))

\* For clients of the C API that keep keys in updates: when no rollback is under
\* way the primary index has one item per record, with its key and its slot,
\* and no other, also after rollbacks.
IndexExact == Quiet /\ ~dropped => ItemsMatchRecords
\* Keys unique and the primary index in step with the records, whatever was
\* rolled back (transaction.rs rollback, c_api.rs).
KeysAndIndex == KeysStayUnique /\ IndexExact
=============================================================================
