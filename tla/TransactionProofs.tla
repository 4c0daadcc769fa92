------------------------- MODULE TransactionProofs --------------------------
(***************************************************************************)
(* Transactions, for every number of slots, keys and log items.            *)
(*                                                                         *)
(* Whatever any number of clients do, the table stays consistent through   *)
(* transactions and rollbacks (Spec and ApiSpec of Transaction), in and    *)
(* out of low power mode.  When one client uses the database, a rollback   *)
(* brings back the records of the begin of the transaction, keys stay      *)
(* unique and the primary index has exactly the records.                   *)
(*                                                                         *)
(* The argument about rollbacks is a history of the transaction: the       *)
(* contents of the table before each of its items.  Logging an operation   *)
(* extends the history, undoing an item goes one content back.             *)
(***************************************************************************)
EXTENDS Transaction, MemoryTableLemmas

USE ZenonT(30)

\* rollback takes the slot of a deleted record out of the stack: the cell that
\* holds it gets the top of the stack.
LEMMA RemoveFreeEffect ==
  ASSUME NEW T, WF(T, {}), NEW s \in Slots \ Used(T)
  PROVE  LET N == RemoveFree(T, s)
         IN  /\ N \in TableType
             /\ StackDistinct(N)
             /\ Stack(N) = Stack(T) \ {s}
             /\ N.status = T.status
             /\ N.record_count = T.record_count
             /\ N.low_power_mode = T.low_power_mode
<1> DEFINE c == T.free_slot_count
           P == {i \in 0 .. c - 1 : T.free_slots[i] = s}
           N == RemoveFree(T, s)
<1>0. /\ T \in TableType /\ c \in 0 .. MaxRecords /\ MaxRecords \in Nat
      /\ T.free_slots \in [Slots -> Slots]
  BY Fields, SizesAssumption DEF WF
<1>1. \A i \in 0 .. c - 1 : i \in Slots
  BY <1>0, SMTT(30) DEF Slots
<1>2. s \in Stack(T)
  BY DEF WF, Partition
<1>3. PICK k \in 0 .. c - 1 : T.free_slots[k] = s
  BY <1>2 DEF Stack
<1>4. \A i \in 0 .. c - 1 : T.free_slots[i] = s => i = k
  BY <1>3 DEF WF, StackDistinct
<1>5. P = {k}
  BY <1>3, <1>4
<1>6. (CHOOSE i \in P : \A j \in P : i <= j) = k
  <2>1. k <= k
    BY <1>0, <1>3, SMTT(30)
  <2> HIDE DEF P
  <2>2. QED
    BY <1>5, <2>1
<1>7. N = [T EXCEPT !.free_slots[k] = T.free_slots[c - 1],
                    !.free_slot_count = c - 1]
  BY <1>5, <1>6 DEF RemoveFree
<1> HIDE DEF N, P
<1>8. c - 1 \in 0 .. c - 1 /\ c - 1 \in 0 .. MaxRecords
  BY <1>0, <1>3, SMTT(30)
<1>9. /\ N.free_slots = [T.free_slots EXCEPT ![k] = T.free_slots[c - 1]]
      /\ N.free_slot_count = c - 1
      /\ N.status = T.status /\ N.record_count = T.record_count
      /\ N.low_power_mode = T.low_power_mode
      /\ N \in TableType
  <2>1. [T.free_slots EXCEPT ![k] = T.free_slots[c - 1]] \in [Slots -> Slots]
    BY <1>0, <1>1, <1>3, <1>8
  <2>2. QED
    BY <1>0, <1>7, <1>8, <2>1 DEF TableType
<1>10. /\ \A i \in 0 .. c - 2 : i # k => N.free_slots[i] = T.free_slots[i]
       /\ N.free_slots[k] = T.free_slots[c - 1]
  <2>1. \A i \in 0 .. c - 2 : i \in Slots
    BY <1>0, SMTT(30) DEF Slots
  <2>2. k \in Slots
    BY <1>1, <1>3
  <2>3. QED
    BY <1>0, <1>9, <2>1, <2>2
<1>11. c - 1 - 1 = c - 2 /\ c \in Int
  BY <1>0, SMTT(30)
<1>12. \A i, j \in 0 .. c - 1 : T.free_slots[i] = T.free_slots[j] => i = j
  BY DEF WF, StackDistinct
<1>13. StackDistinct(N)
  <2>1. SUFFICES ASSUME NEW i \in 0 .. c - 2, NEW j \in 0 .. c - 2,
                        N.free_slots[i] = N.free_slots[j]
                 PROVE  i = j
    BY <1>9, <1>11 DEF StackDistinct
  <2>2. i \in 0 .. c - 1 /\ j \in 0 .. c - 1 /\ i # c - 1 /\ j # c - 1
    BY <1>11, SMTT(30)
  <2>3. QED
    BY <1>8, <1>10, <1>12, <2>1, <2>2
<1>14. ASSUME NEW x PROVE x \in Stack(N) <=> x \in Stack(T) \ {s}
  <2>1. ASSUME x \in Stack(N) PROVE x \in Stack(T) \ {s}
    <3>1. PICK i \in 0 .. c - 2 : x = N.free_slots[i]
      BY <1>9, <1>11, <2>1 DEF Stack
    <3>2. i \in 0 .. c - 1 /\ i # c - 1
      BY <1>11, SMTT(30)
    <3>3. CASE i = k
      BY <1>3, <1>4, <1>8, <1>10, <3>1, <3>2, <3>3 DEF Stack
    <3>4. CASE i # k
      BY <1>3, <1>4, <1>10, <3>1, <3>2, <3>4 DEF Stack
    <3>5. QED
      BY <3>3, <3>4
  <2>2. ASSUME x \in Stack(T) \ {s} PROVE x \in Stack(N)
    <3>1. PICK i \in 0 .. c - 1 : x = T.free_slots[i]
      BY <2>2 DEF Stack
    <3>2. i # k
      BY <1>3, <2>2, <3>1
    <3>3. CASE i = c - 1
      <4>1. k \in 0 .. c - 2
        BY <1>3, <1>11, <3>2, <3>3, SMTT(30)
      <4>2. QED
        BY <1>9, <1>10, <1>11, <3>1, <3>3, <4>1 DEF Stack
    <3>4. CASE i # c - 1
      <4>1. i \in 0 .. c - 2
        BY <1>11, <3>4, SMTT(30)
      <4>2. QED
        BY <1>9, <1>10, <1>11, <3>1, <3>2, <4>1 DEF Stack
    <3>5. QED
      BY <3>3, <3>4
  <2>3. QED
    BY <2>1, <2>2
<1>15. QED
  BY <1>9, <1>13, <1>14 DEF N

\* Putting a deleted record back keeps a table sound.
LEMMA UndoDeleteSound ==
  ASSUME NEW T, Sound(T), NEW s \in Slots \ Used(T),
         NEW old \in Rows \cup {ZeroRow}, NEW id \in Nat
  PROVE  Sound(UndoDelete(T, s, old, id))
<1> DEFINE M == RemoveFree(T, s)
           N == UndoDelete(T, s, old, id)
<1>1. /\ M \in TableType /\ StackDistinct(M) /\ Stack(M) = Stack(T) \ {s}
      /\ M.status = T.status /\ M.record_count = T.record_count
  BY RemoveFreeEffect DEF Sound
<1> HIDE DEF M
<1>2. N = [M EXCEPT !.data[s] = old, !.status[s] = "Used",
                    !.version[s] = Bump(M.version[s]), !.create[s] = id,
                    !.delete[s] = 0,
                    !.record_count = M.record_count + 1]
  BY DEF UndoDelete, M
<1> HIDE DEF N
<1>3. /\ N \in TableType
      /\ N.status = [T.status EXCEPT ![s] = "Used"]
      /\ N.free_slots = M.free_slots /\ N.free_slot_count = M.free_slot_count
      /\ N.record_count = T.record_count + 1
  <2>1. /\ [M.data EXCEPT ![s] = old] \in [Slots -> Rows \cup {ZeroRow}]
        /\ [M.status EXCEPT ![s] = "Used"] \in [Slots -> {"Free", "Used"}]
        /\ [M.version EXCEPT ![s] = Bump(M.version[s])]
              \in [Slots -> 0 .. VersionMod - 1]
        /\ [M.create EXCEPT ![s] = id] \in [Slots -> Nat]
        /\ [M.delete EXCEPT ![s] = 0] \in [Slots -> Nat]
        /\ M.record_count + 1 \in Int
    BY <1>1, BumpType, Fields, SMTT(30)
  <2>2. QED
    BY <1>1, <1>2, <2>1 DEF TableType
<1>4. T.status \in [Slots -> {"Free", "Used"}]
  BY Fields DEF Sound, WF
<1>5. Used(N) = Used(T) \cup {s}
  BY <1>3, <1>4 DEF Used
<1>6. Stack(N) = Stack(T) \ {s} /\ StackDistinct(N)
  BY <1>1, <1>3, SMTT(30) DEF Stack, StackDistinct
<1>7. Partition(N, {})
  BY <1>5, <1>6 DEF Sound, WF, Partition
<1>8. N.record_count = Cardinality(Used(N))
  BY <1>3, <1>5, CountAdd DEF Sound
<1>9. QED
  BY <1>3, <1>6, <1>7, <1>8 DEF Sound, WF, N

\* Writing the old row back keeps a table sound.
LEMMA UndoUpdateSound ==
  ASSUME NEW T, Sound(T), NEW s \in Slots,
         NEW old \in Rows \cup {ZeroRow}, NEW id \in Nat
  PROVE  Sound(UndoUpdate(T, s, old, id))
<1> DEFINE N == UndoUpdate(T, s, old, id)
<1>1. T \in TableType
  BY DEF Sound, WF
<1>2. /\ N \in TableType /\ N.status = T.status
      /\ N.free_slots = T.free_slots /\ N.free_slot_count = T.free_slot_count
      /\ N.record_count = T.record_count
  BY <1>1, BumpType, Fields DEF UndoUpdate, TableType
<1> HIDE DEF N
<1>3. Used(N) = Used(T) /\ Stack(N) = Stack(T) /\ StackDistinct(N)
  BY <1>2, SMTT(30) DEF Used, Stack, StackDistinct, Sound, WF
<1>4. QED
  BY <1>2, <1>3 DEF Sound, WF, Partition, N

----------------------------------------------------------------------------
(* The log and the index *)

\* What log_operation writes is a log item.
LEMMA ItemType ==
  ASSUME NEW op \in {"Insert", "Update", "Delete"}, NEW s \in Slots,
         NEW tx \in Nat, NEW old \in Rows \cup {ZeroRow},
         NEW new \in Rows \cup {ZeroRow}
  PROVE  LogItem(op, s, tx, old, new) \in LogItems
<1>1. /\ s \in Nat /\ s < MaxRecords /\ MaxRecords \in Nat
      /\ IdMod \in Nat /\ IdMod > 0
  BY SizesAssumption, TxAssumption, SMTT(30) DEF Slots
<1>2. s % IdMod \in Nat /\ s % IdMod < IdMod
  BY <1>1, SMTT(30)
<1>3. s % IdMod < MaxRecords
  <2>1. CASE s < IdMod
    <3>1. s % IdMod = s
      BY <1>1, <2>1, SMTT(30)
    <3>2. QED
      BY <1>1, <3>1
  <2>2. CASE IdMod <= s
    BY <1>1, <1>2, <2>2, SMTT(30)
  <2>3. QED
    BY <1>1, <2>1, <2>2, SMTT(30)
<1>4. s % IdMod \in Slots
  BY <1>1, <1>2, <1>3, SMTT(30) DEF Slots
<1>5. QED
  BY <1>4 DEF LogItem, LogItems

\* The log of the current transaction keeps its type, full or not.
LEMMA LogType ==
  ASSUME TypeOK, NEW op \in {"Insert", "Update", "Delete"}, NEW s \in Slots,
         NEW old \in Rows \cup {ZeroRow}, NEW new \in Rows \cup {ZeroRow},
         Log(op, s, old, new)
  PROVE  /\ cur' \in [id : Nat, owner : Clients, count : 0 .. MaxLog] \cup {NoTx}
         /\ buf' \in [1 .. MaxLog -> LogItems]
         /\ dropped' \in BOOLEAN
<1>1. CASE UNCHANGED <<cur, buf>>
  BY <1>1 DEF Log, TypeOK
<1>2. CASE /\ cur # NoTx /\ cur.count < MaxLog
           /\ buf' = [buf EXCEPT ![cur.count + 1] =
                                    LogItem(op, s, cur.id, old, new)]
           /\ cur' = [cur EXCEPT !.count = @ + 1]
           /\ UNCHANGED dropped
  <2>1. cur \in [id : Nat, owner : Clients, count : 0 .. MaxLog]
    BY <1>2 DEF TypeOK
  <2>2. cur.count + 1 \in 1 .. MaxLog /\ cur.count + 1 \in 0 .. MaxLog
    BY <1>2, <2>1, TxAssumption, SMTT(30)
  <2>3. LogItem(op, s, cur.id, old, new) \in LogItems
    BY <2>1, ItemType
  <2>4. QED
    BY <1>2, <2>1, <2>2, <2>3 DEF TypeOK
<1>3. QED
  BY <1>1, <1>2 DEF Log

IInv == TypeOK /\ Sound(tbl)

\* A new table, in either power mode, is sound.
LEMMA FreshSound ==
  ASSUME NEW T \in NewTables, NEW on \in PowerModes
  PROVE  Sound(SetLowPowerMode(T, on))
<1> DEFINE N == SetLowPowerMode(T, on)
<1>1. /\ WF(T, {}) /\ T \in TableType /\ Used(T) = {} /\ T.record_count = 0
  BY NewTableWF DEF WF
<1>2. N = [T EXCEPT !.low_power_mode = on] /\ on \in BOOLEAN
  BY TxAssumption DEF SetLowPowerMode
<1> HIDE DEF N
<1>3. /\ N \in TableType /\ N.status = T.status
      /\ N.free_slots = T.free_slots
      /\ N.free_slot_count = T.free_slot_count
      /\ N.record_count = 0
  BY <1>1, <1>2 DEF TableType
<1>4. Used(N) = {}
  BY <1>1, <1>3 DEF Used
<1>5. Used(N) = Used(T) /\ Stack(N) = Stack(T)
  BY <1>3 DEF Used, Stack
<1>6. WF(N, {})
  BY <1>1, <1>3, <1>5 DEF WF, StackDistinct, Partition
<1>7. Cardinality(Used(N)) = 0
  BY <1>4, FS_EmptySet
<1>8. QED
  BY <1>3, <1>6, <1>7 DEF Sound, N

\* An empty cell of the log buffer has the type of a log item.
LEMMA NoItemType == NoItem \in LogItems
<1>1. 0 \in Slots
  BY SizesAssumption, SMTT(30) DEF Slots
<1>2. QED
  BY <1>1, ItemType DEF NoItem

\* The invariant holds in a new database.
LEMMA InitIInv == Init => IInv
<1> SUFFICES ASSUME Init PROVE IInv
  OBVIOUS
<1>1. Sound(tbl)
  BY FreshSound DEF Init
<1>2. tbl \in TableType
  BY <1>1 DEF Sound, WF
<1>3. idx \in IndexType(Pks \cup {0}, Slots)
  BY SMTT(30) DEF Init, NewIndex, IndexType
<1>4. TypeOK
  BY <1>2, <1>3, NoItemType, TxAssumption DEF Init, TypeOK
<1>5. QED
  BY <1>1, <1>4 DEF IInv

\* begin, commit and the ends of a rollback leave the table alone.
LEMMA BoundaryStep ==
  ASSUME IInv, NEW c \in Clients,
         \/ Begin(c) \/ BeginNullBuffer(c) \/ Commit(c)
         \/ RollbackBegin(c) \/ RollbackEnd(c)
  PROVE  IInv'
<1>1. tbl' = tbl /\ idx' = idx /\ buf' = buf /\ dropped' = dropped
  BY DEF Begin, BeginNullBuffer, Commit, RollbackBegin, RollbackEnd
<1>2. /\ cur' \in [id : Nat, owner : Clients, count : 0 .. MaxLog] \cup {NoTx}
      /\ counter' \in Nat
      /\ undo' \in [Clients -> (0 .. MaxLog) \cup {NoTx}]
  <2>1. CASE Begin(c) \/ BeginNullBuffer(c)
    BY <2>1, TxAssumption, SMTT(30) DEF Begin, BeginNullBuffer, IInv, TypeOK
  <2>2. CASE Commit(c)
    BY <2>2 DEF Commit, IInv, TypeOK
  <2>3. CASE RollbackBegin(c)
    <3>1. cur \in [id : Nat, owner : Clients, count : 0 .. MaxLog]
      BY <2>3 DEF RollbackBegin, Owns, IInv, TypeOK
    <3>2. QED
      BY <2>3, <3>1 DEF RollbackBegin, IInv, TypeOK
  <2>4. CASE RollbackEnd(c)
    BY <2>4 DEF RollbackEnd, IInv, TypeOK
  <2>5. QED
    BY <2>1, <2>2, <2>3, <2>4
<1>3. QED
  BY <1>1, <1>2 DEF IInv, TypeOK

\* One item of a rollback.
LEMMA UndoStep ==
  ASSUME IInv, NEW c \in Clients, UndoNext(c)
  PROVE  IInv'
<1> DEFINE item == buf[undo[c]]
           s == item.id
           Keys == Pks \cup {0}
<1>1. undo[c] \in 1 .. MaxLog
  BY TxAssumption, SMTT(30) DEF UndoNext, IInv, TypeOK
<1>2. item \in LogItems
  BY <1>1 DEF IInv, TypeOK
<1>3. UndoItem(item)
  BY DEF UndoNext
<1> HIDE DEF item
<1>4. /\ s \in Slots /\ item.old \in Rows \cup {ZeroRow} /\ item.tx \in Nat
      /\ item.old.pk \in Keys
  BY <1>2, SMTT(30) DEF LogItems, Rows, ZeroRow
<1>5. tbl.status[s] \in {"Free", "Used"}
  BY <1>4, Fields DEF IInv, TypeOK
<1>6. idx \in IndexType(Keys, Slots)
  BY DEF IInv, TypeOK
<1>7. Sound(tbl') /\ idx' \in IndexType(Keys, Slots)
  <2>1. CASE /\ tbl.status[s] = "Used"
             /\ tbl' = UndoInsert(tbl, s)
             /\ idx' = IndexDelete(idx, tbl.data[s].pk)
    BY <1>4, <1>6, <2>1, DeleteSound, IndexOpsType DEF UndoInsert, Used, IInv
  <2>2. CASE /\ tbl.status[s] # "Used"
             /\ tbl' = UndoDelete(tbl, s, item.old, item.tx)
             /\ idx' = IndexInsert(idx, MaxRecords, item.old.pk, s)
    BY <1>4, <1>6, <2>2, UndoDeleteSound, IndexOpsType DEF Used, IInv
  <2>3. CASE /\ tbl' = UndoUpdate(tbl, s, item.old, item.tx)
             /\ idx' = IndexInsert(IndexDelete(idx, tbl.data[s].pk), MaxRecords,
                                   item.old.pk, s)
    BY <1>4, <1>6, <2>3, UndoUpdateSound, IndexOpsType DEF IInv
  <2>4. CASE UNCHANGED <<tbl, idx>>
    BY <1>6, <2>4 DEF IInv, Sound
  <2>5. QED
    BY <1>3, <2>1, <2>2, <2>3, <2>4 DEF UndoItem
<1>8. /\ cur' = cur /\ buf' = buf /\ counter' = counter /\ dropped' = dropped
      /\ undo' = [undo EXCEPT ![c] = undo[c] - 1]
  BY DEF UndoNext
<1>9. undo' \in [Clients -> (0 .. MaxLog) \cup {NoTx}]
  <2>1. undo[c] - 1 \in 0 .. MaxLog
    BY <1>1, TxAssumption, SMTT(30)
  <2>2. QED
    BY <1>8, <2>1 DEF IInv, TypeOK
<1>10. tbl' \in TableType
  BY <1>7 DEF Sound, WF
<1>11. QED
  BY <1>7, <1>8, <1>9, <1>10 DEF IInv, TypeOK

\* The three record operations, logged or not.
LEMMA OperationStep ==
  ASSUME IInv, counter' = counter, undo' = undo,
         idx' \in IndexType(Pks \cup {0}, Slots),
         \/ \E row \in Rows : \E s \in InsertSlot(tbl) : DoInsert(row, s)
         \/ \E s \in Used(tbl), row \in Rows : DoUpdate(s, row)
         \/ \E s \in Used(tbl) : DoDelete(s)
  PROVE  IInv'
<1>1. /\ Used(tbl) \subseteq Slots
      /\ \A s \in Used(tbl) : tbl.data[s] \in Rows \cup {ZeroRow}
  BY Fields DEF Used, IInv, TypeOK
<1>2. ASSUME NEW row \in Rows, NEW s \in InsertSlot(tbl), DoInsert(row, s)
      PROVE  Sound(tbl') /\ s \in Slots /\ Log("Insert", s, ZeroRow, row)
  <2>1. s \in Slots
    BY SlotOfInsert DEF IInv, Sound
  <2>2. QED
    BY <1>2, <2>1, InsertSound DEF DoInsert, IInv
<1>3. ASSUME NEW row \in Rows, NEW s \in Used(tbl), DoUpdate(s, row)
      PROVE  Sound(tbl') /\ Log("Update", s, tbl.data[s], row)
  BY <1>1, <1>3, UpdateSound DEF DoUpdate, IInv
<1>4. ASSUME NEW s \in Used(tbl), DoDelete(s)
      PROVE  Sound(tbl') /\ Log("Delete", s, tbl.data[s], ZeroRow)
  BY <1>4, DeleteSound DEF DoDelete, IInv
<1>5. PICK op \in {"Insert", "Update", "Delete"}, s \in Slots,
           old \in Rows \cup {ZeroRow}, new \in Rows \cup {ZeroRow} :
             Sound(tbl') /\ Log(op, s, old, new)
  BY <1>1, <1>2, <1>3, <1>4
<1>6. /\ cur' \in [id : Nat, owner : Clients, count : 0 .. MaxLog] \cup {NoTx}
      /\ buf' \in [1 .. MaxLog -> LogItems] /\ dropped' \in BOOLEAN
  BY <1>5, LogType DEF IInv
<1>7. QED
  BY <1>5, <1>6 DEF IInv, TypeOK, Sound, WF

\* The record methods of MemoryTable do not touch the index.
LEMMA MethodStep ==
  ASSUME IInv, NEW c \in Clients, Insert(c) \/ Update(c) \/ Delete(c)
  PROVE  IInv'
<1>1. /\ counter' = counter /\ undo' = undo /\ idx' = idx
      /\ idx \in IndexType(Pks \cup {0}, Slots)
  BY DEF Insert, Update, Delete, IInv, TypeOK
<1>2. \/ \E row \in Rows : \E s \in InsertSlot(tbl) : DoInsert(row, s)
      \/ \E s \in Used(tbl), row \in Rows : DoUpdate(s, row)
      \/ \E s \in Used(tbl) : DoDelete(s)
  BY DEF Insert, Update, Delete, Mine, RowsOf
<1>3. QED
  BY <1>1, <1>2, OperationStep

\* The calls of the C API look records up in the index and maintain it.
LEMMA ApiStep ==
  ASSUME IInv, NEW c \in Clients, ApiInsert(c) \/ ApiUpdate(c) \/ ApiDelete(c)
  PROVE  IInv'
<1> DEFINE Keys == Pks \cup {0}
<1>1. counter' = counter /\ undo' = undo /\ idx \in IndexType(Keys, Slots)
  BY DEF ApiInsert, ApiUpdate, ApiDelete, IInv, TypeOK
<1>2. CASE ApiInsert(c)
  <2>1. PICK row \in Rows, s \in InsertSlot(tbl) :
               /\ DoInsert(row, s)
               /\ idx' = IndexInsert(idx, MaxRecords, row.pk, s % IdMod)
    BY <1>2 DEF ApiInsert, RowsOf
  <2>2. s \in Slots
    BY SlotOfInsert DEF IInv, Sound
  <2>3. row.pk \in Keys
    BY DEF Rows
  <2>4. s % IdMod \in Slots
    <3>1. LogItem("Insert", s, 0, ZeroRow, ZeroRow) \in LogItems
      BY <2>2, ItemType
    <3>2. QED
      BY <3>1 DEF LogItem, LogItems
  <2>5. idx' \in IndexType(Keys, Slots)
    BY <1>1, <2>1, <2>3, <2>4, IndexOpsType
  <2>6. QED
    BY <1>1, <2>1, <2>5, OperationStep
<1>3. CASE ApiUpdate(c)
  <2>1. idx' = idx /\ \E s \in Used(tbl), row \in Rows : DoUpdate(s, row)
    BY <1>3 DEF ApiUpdate, Mine, RowsOf
  <2>2. QED
    BY <1>1, <2>1, OperationStep
<1>4. CASE ApiDelete(c)
  <2>1. PICK key : /\ idx' = IndexDelete(idx, key)
                   /\ \/ \E s \in Used(tbl) : DoDelete(s)
                      \/ UNCHANGED <<tbl, cur, buf, dropped>>
    BY <1>4 DEF ApiDelete, Mine
  <2>2. idx' \in IndexType(Keys, Slots)
    BY <1>1, <2>1, IndexOpsType
  <2>3. CASE \E s \in Used(tbl) : DoDelete(s)
    BY <1>1, <2>2, <2>3, OperationStep
  <2>4. CASE UNCHANGED <<tbl, cur, buf, dropped>>
    BY <1>1, <2>2, <2>4 DEF IInv, TypeOK
  <2>5. QED
    BY <2>1, <2>3, <2>4
<1>5. QED
  BY <1>2, <1>3, <1>4

\* Every step of a client, by record methods or by the C API, keeps the
\* invariant.
LEMMA StepIInv == IInv /\ [Next \/ ApiNext]_vars => IInv'
<1> SUFFICES ASSUME IInv, [Next \/ ApiNext]_vars PROVE IInv'
  OBVIOUS
<1>1. CASE UNCHANGED vars
  BY <1>1 DEF vars, IInv, TypeOK
<1>2. ASSUME NEW c \in Clients, TxSteps(c) PROVE IInv'
  BY <1>2, BoundaryStep, UndoStep DEF TxSteps
<1>3. CASE Next
  BY <1>2, <1>3, MethodStep DEF Next
<1>4. CASE ApiNext
  BY <1>2, <1>4, ApiStep DEF ApiNext
<1>5. QED
  BY <1>1, <1>3, <1>4

\* Type correctness of the transaction manager, the table and the index, with
\* record ids cut to u16 in the log and the index.
THEOREM TransactionTypes == (Spec => []TypeOK) /\ (ApiSpec => []TypeOK)
<1>1. IInv => TypeOK
  BY DEF IInv
<1>2. IInv /\ [Next]_vars => IInv'
  BY StepIInv
<1>3. IInv /\ [ApiNext]_vars => IInv'
  BY StepIInv
<1>4. Spec => []TypeOK
  BY <1>1, <1>2, InitIInv, PTL DEF Spec
<1>5. ApiSpec => []TypeOK
  BY <1>1, <1>3, InitIInv, PTL DEF ApiSpec
<1>6. QED
  BY <1>4, <1>5

\* Whatever clients do inside and outside transactions, and at every point of
\* a rollback: the free stack of the table is exact and record_count is the
\* number of records (TableConsistent), for record methods and for the C API.
THEOREM TransactionsKeepTable ==
  (Spec => []TableConsistent) /\ (ApiSpec => []TableConsistent)
<1>1. IInv => TableConsistent
  BY DEF IInv, Sound, WF, TableConsistent
<1>2. IInv /\ [Next]_vars => IInv'
  BY StepIInv
<1>3. IInv /\ [ApiNext]_vars => IInv'
  BY StepIInv
<1>4. Spec => []TableConsistent
  BY <1>1, <1>2, InitIInv, PTL DEF Spec
<1>5. ApiSpec => []TableConsistent
  BY <1>1, <1>3, InitIInv, PTL DEF ApiSpec
<1>6. QED
  BY <1>4, <1>5

-----------------------------------------------------------------------------
(***************************************************************************)
(* Rollbacks of one client                                                 *)
(***************************************************************************)

\* The content after the operation of an item of the log, and before it.
After(item, f) ==
  [s \in IF item.op = "Delete" THEN DOMAIN f \ {item.id}
         ELSE DOMAIN f \cup {item.id}
     |-> IF s = item.id THEN item.new ELSE f[s]]

Before(item, g) ==
  [s \in IF item.op = "Insert" THEN DOMAIN g \ {item.id}
         ELSE DOMAIN g \cup {item.id}
     |-> IF s = item.id THEN item.old ELSE g[s]]

\* The item is the log's record of an operation on content f.
Records(item, f) ==
  /\ (item.op = "Insert") <=> (item.id \notin DOMAIN f)
  /\ item.op # "Insert" => item.old = f[item.id]

Leads(item, f, g) == Records(item, f) /\ g = After(item, f)

----------------------------------------------------------------------------
(* Contents *)

\* The content of a table is its rows in its used slots.
LEMMA ContentType ==
  ASSUME NEW T \in TableType
  PROVE  /\ Content(T) \in Contents
         /\ DOMAIN Content(T) = Used(T) /\ Used(T) \subseteq Slots
         /\ \A s \in Used(T) : Content(T)[s] = T.data[s]
<1>1. Used(T) \subseteq Slots
  BY DEF Used
<1>2. T.data \in [Slots -> Rows \cup {ZeroRow}]
  BY Fields
<1>3. Content(T) \in [Used(T) -> Rows \cup {ZeroRow}]
  BY <1>1, <1>2 DEF Content
<1>4. Content(T) \in Contents
  BY <1>1, <1>3 DEF Contents
<1>5. QED
  BY <1>1, <1>4 DEF Content

\* Two contents with the same slots and the same rows are the same.
LEMMA ContentsEqual ==
  ASSUME NEW f \in Contents, NEW g \in Contents, DOMAIN f = DOMAIN g,
         \A s \in DOMAIN f : f[s] = g[s]
  PROVE  f = g
BY ContentsDomain

\* An operation leads from a content to a content.
LEMMA AfterType ==
  ASSUME NEW f \in Contents, NEW item \in LogItems
  PROVE  After(item, f) \in Contents
<1> DEFINE D == IF item.op = "Delete" THEN DOMAIN f \ {item.id}
                ELSE DOMAIN f \cup {item.id}
           g == [s \in D |-> IF s = item.id THEN item.new ELSE f[s]]
<1>1. DOMAIN f \subseteq Slots /\ f \in [DOMAIN f -> Rows \cup {ZeroRow}]
  BY ContentsDomain
<1>2. item.id \in Slots /\ item.new \in Rows \cup {ZeroRow}
  BY DEF LogItems
<1>3. D \in SUBSET Slots
  BY <1>1, <1>2
<1>4. \A s \in D : s # item.id => s \in DOMAIN f
  OBVIOUS
<1> HIDE DEF D
<1>5. g \in [D -> Rows \cup {ZeroRow}]
  BY <1>1, <1>2, <1>4
<1>6. QED
  BY <1>3, <1>5 DEF Contents, After, D

\* Undoing an item takes its operation back.
LEMMA BeforeAfter ==
  ASSUME NEW f \in Contents, NEW item \in LogItems, Records(item, f)
  PROVE  /\ Before(item, After(item, f)) = f
         /\ (item.op = "Delete") <=> (item.id \notin DOMAIN After(item, f))
<1> DEFINE g == After(item, f)
           b == Before(item, g)
<1>1. item.op \in {"Insert", "Update", "Delete"}
  BY DEF LogItems
<1>2. /\ DOMAIN g = IF item.op = "Delete" THEN DOMAIN f \ {item.id}
                    ELSE DOMAIN f \cup {item.id}
      /\ \A s \in DOMAIN g : s # item.id => g[s] = f[s]
  BY DEF After
<1> HIDE DEF g
<1>3. DOMAIN b = DOMAIN f
  BY <1>1, <1>2 DEF Before, Records
<1>4. \A s \in DOMAIN b : b[s] = f[s]
  BY <1>1, <1>2, <1>3 DEF Before, Records
<1>5. b = [s \in DOMAIN b |-> b[s]]
  BY DEF Before
<1>6. b = f
  BY <1>3, <1>4, <1>5, ContentsDomain
<1>7. QED
  BY <1>1, <1>2, <1>6 DEF g

----------------------------------------------------------------------------
(* What the operations do to content and transaction ids *)

\* What insert changes: one more used slot, with the row.
LEMMA InsertEffect ==
  ASSUME NEW T, Sound(T), NEW row \in Rows, NEW s \in InsertSlot(T)
  PROVE  LET N == InsertRow(T, s, row)
         IN  /\ Used(N) = Used(T) \cup {s} /\ N.data = [T.data EXCEPT ![s] = row]
             /\ N.create = T.create /\ N.delete = T.delete
             /\ N.low_power_mode = T.low_power_mode
<1> DEFINE P == PutRow(T, s, row)
           N == InsertRow(T, s, row)
<1>1. T \in TableType /\ s \in Slots
  BY SlotOfInsert DEF Sound, WF
<1>2. /\ P \in TableType
      /\ P.data = [T.data EXCEPT ![s] = row]
      /\ P.create = T.create /\ P.delete = T.delete
  <2>1. P \in TableType
    BY <1>1, PutRowEffect
  <2>2. QED
    BY <1>1, <2>1 DEF PutRow, TableType
<1> HIDE DEF P
<1>3. /\ N.data = P.data /\ N.create = P.create /\ N.delete = P.delete
  BY <1>2 DEF InsertRow, TableType, P
<1>4. Used(N) = Used(T) \cup {s} /\ N.low_power_mode = T.low_power_mode
  BY InsertRowWF DEF Sound
<1>5. QED
  BY <1>2, <1>3, <1>4

\* What update changes: the row of a slot.
LEMMA UpdateEffect ==
  ASSUME NEW T \in TableType, NEW row \in Rows, NEW s \in Slots
  PROVE  LET N == UpdateRow(T, s, row)
         IN  /\ Used(N) = Used(T) /\ N.data = [T.data EXCEPT ![s] = row]
             /\ N.create = T.create /\ N.delete = T.delete
             /\ N.low_power_mode = T.low_power_mode
<1> DEFINE N == UpdateRow(T, s, row)
<1>1. /\ N.status = T.status /\ N.data = [T.data EXCEPT ![s] = row]
      /\ N.create = T.create /\ N.delete = T.delete
      /\ N.low_power_mode = T.low_power_mode
  BY DEF UpdateRow, TableType
<1>2. QED
  BY <1>1 DEF Used

\* What delete changes: one used slot less.
LEMMA DeleteEffect ==
  ASSUME NEW T, Sound(T), NEW s \in Used(T)
  PROVE  LET N == DeleteRow(T, s)
         IN  /\ Used(N) = Used(T) \ {s} /\ N.data = [T.data EXCEPT ![s] = ZeroRow]
             /\ N.create = T.create /\ N.delete = T.delete
             /\ N.low_power_mode = T.low_power_mode
<1> DEFINE P == PushFree(T, s)
           N == DeleteRow(T, s)
<1>1. T \in TableType
  BY DEF Sound, WF
<1>2. /\ P.data = T.data /\ P.create = T.create /\ P.delete = T.delete
      /\ DOMAIN P = DOMAIN T
  BY <1>1 DEF PushFree, TableType
<1> HIDE DEF P
<1>3. /\ N.data = [T.data EXCEPT ![s] = ZeroRow]
      /\ N.create = T.create /\ N.delete = T.delete
  BY <1>1, <1>2 DEF DeleteRow, TableType, P
<1>4. Used(N) = Used(T) \ {s} /\ N.low_power_mode = T.low_power_mode
  BY DeleteRowWF DEF Sound
<1>5. QED
  BY <1>3, <1>4

\* What undoing a delete changes: the slot is used again and has its old row.
LEMMA UndoDeleteEffect ==
  ASSUME NEW T, Sound(T), NEW s \in Slots \ Used(T),
         NEW old \in Rows \cup {ZeroRow}, NEW id \in Nat
  PROVE  LET N == UndoDelete(T, s, old, id)
         IN  /\ Used(N) = Used(T) \cup {s} /\ N.data[s] = old
             /\ \A u \in Slots \ {s} : N.data[u] = T.data[u]
             /\ \A u \in Slots : /\ N.create[u] \in {T.create[u], id}
                                 /\ N.delete[u] \in {T.delete[u], 0}
             /\ N.low_power_mode = T.low_power_mode
<1> DEFINE M == RemoveFree(T, s)
           N == UndoDelete(T, s, old, id)
<1>1. T \in TableType
  BY DEF Sound, WF
<1>2. /\ M \in TableType /\ M.status = T.status
      /\ M.low_power_mode = T.low_power_mode
  BY RemoveFreeEffect DEF Sound
<1>3. M.data = T.data /\ M.create = T.create /\ M.delete = T.delete
  BY <1>1 DEF RemoveFree, TableType
<1> HIDE DEF M
<1>4. /\ N.data = [M.data EXCEPT ![s] = old]
      /\ N.status = [M.status EXCEPT ![s] = "Used"]
      /\ N.create = [M.create EXCEPT ![s] = id]
      /\ N.delete = [M.delete EXCEPT ![s] = 0]
      /\ N.low_power_mode = M.low_power_mode
  BY <1>2 DEF UndoDelete, TableType, M
<1> HIDE DEF N
<1>5. Used(N) = Used(T) \cup {s}
  BY <1>1, <1>2, <1>4, Fields, SMTT(30) DEF Used
<1>6. /\ T.data \in [Slots -> Rows \cup {ZeroRow}]
      /\ T.create \in [Slots -> Nat] /\ T.delete \in [Slots -> Nat]
  BY <1>1, Fields
<1>7. /\ N.data[s] = old /\ \A u \in Slots \ {s} : N.data[u] = T.data[u]
      /\ \A u \in Slots : /\ N.create[u] \in {T.create[u], id}
                          /\ N.delete[u] \in {T.delete[u], 0}
  BY <1>3, <1>4, <1>6, SMTT(30)
<1>8. QED
  BY <1>2, <1>4, <1>5, <1>7 DEF N

\* What undoing an update changes: the slot has its old row.
LEMMA UndoUpdateEffect ==
  ASSUME NEW T \in TableType, NEW s \in Slots,
         NEW old \in Rows \cup {ZeroRow}, NEW id \in Nat
  PROVE  LET N == UndoUpdate(T, s, old, id)
         IN  /\ Used(N) = Used(T) /\ N.data[s] = old
             /\ \A u \in Slots \ {s} : N.data[u] = T.data[u]
             /\ \A u \in Slots : N.create[u] \in {T.create[u], id}
             /\ N.delete = T.delete /\ N.low_power_mode = T.low_power_mode
<1> DEFINE N == UndoUpdate(T, s, old, id)
<1>1. /\ N.status = T.status /\ N.data = [T.data EXCEPT ![s] = old]
      /\ N.create = [T.create EXCEPT ![s] = id] /\ N.delete = T.delete
      /\ N.low_power_mode = T.low_power_mode
  BY DEF UndoUpdate, TableType
<1>2. T.data \in [Slots -> Rows \cup {ZeroRow}] /\ T.create \in [Slots -> Nat]
  BY Fields
<1> HIDE DEF N
<1>3. /\ N.data[s] = old /\ \A u \in Slots \ {s} : N.data[u] = T.data[u]
      /\ \A u \in Slots : N.create[u] \in {T.create[u], id}
  BY <1>1, <1>2
<1>4. Used(N) = Used(T)
  BY <1>1 DEF Used
<1>5. QED
  BY <1>1, <1>3, <1>4 DEF N

\* A table whose slot item.id was written or freed as the item says.
LEMMA ContentAfter ==
  ASSUME NEW T \in TableType, NEW N \in TableType, NEW item \in LogItems,
         Used(N) = IF item.op = "Delete" THEN Used(T) \ {item.id}
                   ELSE Used(T) \cup {item.id},
         item.op # "Delete" => N.data[item.id] = item.new,
         \A s \in Slots \ {item.id} : N.data[s] = T.data[s]
  PROVE  Content(N) = After(item, Content(T))
<1>1. /\ DOMAIN Content(T) = Used(T) /\ Used(T) \subseteq Slots
      /\ \A s \in Used(T) : Content(T)[s] = T.data[s]
      /\ DOMAIN Content(N) = Used(N)
      /\ \A s \in Used(N) : Content(N)[s] = N.data[s]
      /\ Content(N) \in Contents /\ Content(T) \in Contents
  BY ContentType
<1>2. After(item, Content(T)) \in Contents
  BY <1>1, AfterType
<1>3. DOMAIN After(item, Content(T)) = DOMAIN Content(N)
  BY <1>1 DEF After
<1>4. \A s \in DOMAIN Content(N) : Content(N)[s] = After(item, Content(T))[s]
  BY <1>1, <1>3 DEF After
<1>5. QED
  BY <1>1, <1>2, <1>3, <1>4, ContentsEqual

\* The same for an item that is undone.
LEMMA ContentBefore ==
  ASSUME NEW T \in TableType, NEW N \in TableType, NEW item \in LogItems,
         NEW e \in Contents, e = Before(item, Content(T)),
         Used(N) = IF item.op = "Insert" THEN Used(T) \ {item.id}
                   ELSE Used(T) \cup {item.id},
         item.op # "Insert" => N.data[item.id] = item.old,
         \A s \in Slots \ {item.id} : N.data[s] = T.data[s]
  PROVE  Content(N) = e
<1>1. /\ DOMAIN Content(T) = Used(T) /\ Used(T) \subseteq Slots
      /\ \A s \in Used(T) : Content(T)[s] = T.data[s]
      /\ DOMAIN Content(N) = Used(N)
      /\ \A s \in Used(N) : Content(N)[s] = N.data[s]
      /\ Content(N) \in Contents /\ Content(T) \in Contents
  BY ContentType
<1>2. DOMAIN e = DOMAIN Content(N)
  BY <1>1 DEF Before
<1>3. \A s \in DOMAIN Content(N) : Content(N)[s] = e[s]
  BY <1>1, <1>2 DEF Before
<1>4. QED
  BY <1>1, <1>2, <1>3, ContentsEqual

----------------------------------------------------------------------------
(* Keys *)

\* Two rows that validate_constraints does not accept together.
Clash(p, q) == p.pk = q.pk \/ (UniqueVal /\ p.val = q.val)

Distinct(f) == \A s, u \in DOMAIN f : Clash(f[s], f[u]) => s = u

\* A row that clashes with no other row keeps the keys distinct.
LEMMA DistinctAfter ==
  ASSUME NEW f, NEW item, Distinct(f),
         \/ item.op = "Delete"
         \/ \A u \in DOMAIN f \ {item.id} : ~Clash(f[u], item.new)
  PROVE  Distinct(After(item, f))
<1> DEFINE g == After(item, f)
<1>1. /\ DOMAIN g = IF item.op = "Delete" THEN DOMAIN f \ {item.id}
                    ELSE DOMAIN f \cup {item.id}
      /\ \A s \in DOMAIN g : g[s] = IF s = item.id THEN item.new ELSE f[s]
  BY DEF After
<1> HIDE DEF g
<1>2. SUFFICES ASSUME NEW s \in DOMAIN g, NEW u \in DOMAIN g, Clash(g[s], g[u])
               PROVE  s = u
  BY DEF Distinct, g
<1>3. CASE s # item.id /\ u # item.id
  BY <1>1, <1>2, <1>3 DEF Distinct
<1>4. CASE s = item.id /\ u # item.id
  BY <1>1, <1>2, <1>4 DEF Clash
<1>5. CASE s # item.id /\ u = item.id
  BY <1>1, <1>2, <1>5 DEF Clash
<1>6. QED
  BY <1>3, <1>4, <1>5

\* Distinct contents are those of tables with unique keys.
LEMMA DistinctKeys ==
  ASSUME NEW T \in TableType
  PROVE  Distinct(Content(T)) <=> UniquePks(T)
BY ContentType, SMTT(30) DEF Distinct, Clash, UniquePks, SamePk, SameUnique

\* The memory of a new table was never used: its headers are zero.
Zeroed == StaleTxIds = {0}

\* Every record is visible to validate_constraints: no record was deleted by a
\* transaction, and the id of the one that put it back was spent.
Visible(T, n) == \A s \in Slots : T.create[s] < n /\ T.delete[s] = 0

\* When every record is visible, validate_constraints finds every clash.
LEMMA NoClash ==
  ASSUME NEW T \in TableType, NEW n \in Nat, Visible(T, n), NEW row, NEW X,
         ~Conflict(T, row, X, n)
  PROVE  \A u \in Used(T) \ X : ~Clash(Content(T)[u], row)
<1>1. SUFFICES ASSUME NEW u \in Used(T) \ X PROVE ~Clash(Content(T)[u], row)
  OBVIOUS
<1>2. Content(T)[u] = T.data[u] /\ u \in Slots
  BY ContentType
<1>3. T.create[u] < n /\ T.delete[u] = 0
  BY <1>2 DEF Visible
<1>4. IsVisible(T.create[u], T.delete[u], n)
  BY <1>3, SMTT(30) DEF IsVisible
<1>5. QED
  BY <1>2, <1>4 DEF Conflict, Clash, SamePk, SameUnique

----------------------------------------------------------------------------
(* The history of a transaction *)

\* The contents that the argument allows: with K only those with unique keys.
Held(K) == {f \in Contents : K => Distinct(f)}

\* Items m + 1 .. n of the log B lead from content f to content g, through
\* contents of C only: h[i] is the content after item i.
Trace(C, B, m, n, f, g) ==
  \E h \in [m .. n -> C] :
     /\ h[m] = f /\ h[n] = g
     /\ \A i \in m + 1 .. n : Leads(B[i], h[i - 1], h[i])

\* The empty history.
LEMMA TraceStart ==
  ASSUME NEW C, NEW B, NEW f \in C, NEW n \in Nat
  PROVE  Trace(C, B, n, n, f, f)
<1> DEFINE h == [i \in n .. n |-> f]
<1>1. h \in [n .. n -> C] /\ h[n] = f
  BY SMTT(30)
<1>2. \A i \in n + 1 .. n : FALSE
  BY SMTT(30)
<1> HIDE DEF h
<1>3. QED
  BY <1>1, <1>2 DEF Trace

\* A history begins and ends in the allowed contents; an empty one stays where
\* it is.
LEMMA TraceEnds ==
  ASSUME NEW C, NEW B, NEW m \in Nat, NEW n \in Nat, m <= n, NEW f, NEW g,
         Trace(C, B, m, n, f, g)
  PROVE  /\ f \in C /\ g \in C
         /\ m = n => f = g
BY SMTT(30) DEF Trace

\* An operation that is logged extends the history.
LEMMA TraceExtend ==
  ASSUME NEW C, NEW B, NEW L, NEW m \in Nat, NEW n \in Nat, m <= n,
         NEW item, L[n + 1] = item, \A i \in m + 1 .. n : L[i] = B[i],
         NEW f, NEW g, Trace(C, B, m, n, f, g),
         NEW e \in C, Leads(item, g, e)
  PROVE  Trace(C, L, m, n + 1, f, e)
<1>1. PICK h \in [m .. n -> C] :
             /\ h[m] = f /\ h[n] = g
             /\ \A i \in m + 1 .. n : Leads(B[i], h[i - 1], h[i])
  BY DEF Trace
<1> DEFINE k == [i \in m .. n + 1 |-> IF i = n + 1 THEN e ELSE h[i]]
<1>2. \A i \in m .. n + 1 : i # n + 1 => i \in m .. n
  BY SMTT(30)
<1>3. k \in [m .. n + 1 -> C]
  BY <1>1, <1>2
<1>4. k[n + 1] = e /\ \A i \in m .. n : k[i] = h[i]
  BY SMTT(30)
<1>5. m \in m .. n /\ n \in m .. n
  BY SMTT(30)
<1> HIDE DEF k
<1>6. ASSUME NEW i \in m + 1 .. n + 1
      PROVE  Leads(L[i], k[i - 1], k[i])
  <2>1. CASE i = n + 1
    <3>1. i - 1 = n /\ k[i - 1] = g /\ k[i] = e
      BY <1>1, <1>4, <1>5, <2>1, SMTT(30)
    <3>2. QED
      BY <2>1, <3>1
  <2>2. CASE i # n + 1
    <3>1. i \in m + 1 .. n /\ i \in m .. n /\ i - 1 \in m .. n
      BY <2>2, SMTT(30)
    <3>2. QED
      BY <1>1, <1>4, <3>1
  <2>3. QED
    BY <2>1, <2>2
<1>7. k[m] = f
  BY <1>1, <1>4, <1>5
<1>8. QED
  BY <1>3, <1>4, <1>6, <1>7 DEF Trace

\* A history without its last item.
LEMMA TraceBack ==
  ASSUME NEW C, NEW B, NEW m \in Nat, NEW n \in Nat, m < n, NEW f, NEW g,
         Trace(C, B, m, n, f, g)
  PROVE  \E e \in C : Trace(C, B, m, n - 1, f, e) /\ Leads(B[n], e, g)
<1>1. PICK h \in [m .. n -> C] :
             /\ h[m] = f /\ h[n] = g
             /\ \A i \in m + 1 .. n : Leads(B[i], h[i - 1], h[i])
  BY DEF Trace
<1> DEFINE l == n - 1
           k == [i \in m .. l |-> h[i]]
<1>2. /\ \A i \in m .. l : i \in m .. n
      /\ \A i \in m + 1 .. l : /\ i \in m + 1 .. n /\ i \in m .. l
                               /\ i - 1 \in m .. l
      /\ m \in m .. l /\ l \in m .. l /\ l \in m .. n /\ n \in m + 1 .. n
  BY SMTT(30)
<1>3. k \in [m .. l -> C] /\ \A i \in m .. l : k[i] = h[i]
  BY <1>1, <1>2
<1> HIDE DEF k, l
<1>4. /\ \A i \in m + 1 .. l : Leads(B[i], k[i - 1], k[i])
      /\ k[m] = f /\ k[l] = h[l]
  BY <1>1, <1>2, <1>3
<1>5. Trace(C, B, m, l, f, h[l])
  BY <1>3, <1>4 DEF Trace
<1>6. Leads(B[n], h[l], g) /\ h[l] \in C
  BY <1>1, <1>2 DEF l
<1>7. QED
  BY <1>5, <1>6 DEF l

----------------------------------------------------------------------------
(* One client: the invariant behind RollbackRestores and KeysStayUnique *)

\* The use of the database that the theorems are about: its calls come from one
\* client, the table is not in low power mode (where insert overwrites a record
\* and the log has no item for it), and record ids fit in the u16 of the log.
Serial ==
  /\ \A c, d \in Clients : c = d
  /\ PowerModes \subseteq {FALSE}
  /\ MaxRecords <= IdMod

Traced(K) ==
  \A c \in Clients :
     /\ cur # NoTx => Trace(Held(K), buf, 0, cur.count, saved[c], Content(tbl))
     /\ undo[c] # NoTx => Trace(Held(K), buf, 0, undo[c], saved[c], Content(tbl))

\* The ids of logged items and of the current transaction have been spent.
Spent ==
  /\ Visible(tbl, counter)
  /\ cur # NoTx => cur.id < counter
  /\ \A i \in 1 .. MaxLog : buf[i].tx < counter

SerialInv(K) ==
  /\ Serial /\ IInv
  /\ tbl.low_power_mode = FALSE
  /\ DOMAIN saved = Clients
  /\ \A c \in Clients : cur # NoTx => undo[c] = NoTx
  /\ K => Spent
  /\ ~dropped => Traced(K) /\ Content(tbl) \in Held(K)

\* Traced in the next state.
LEMMA TracedNext ==
  ASSUME NEW K \in BOOLEAN
  PROVE  Traced(K)' <=>
    \A c \in Clients :
       /\ cur' # NoTx => Trace(Held(K), buf', 0, cur'.count, saved'[c], Content(tbl'))
       /\ undo'[c] # NoTx => Trace(Held(K), buf', 0, undo'[c], saved'[c], Content(tbl'))
BY DEF Traced, Trace, Held, Content

\* Spent in the next state.
LEMMA SpentNext ==
  Spent' <=> /\ Visible(tbl', counter')
             /\ cur' # NoTx => cur'.id < counter'
             /\ \A i \in 1 .. MaxLog : buf'[i].tx < counter'
BY DEF Spent, Visible

\* The content in the next state is an allowed one.
LEMMA HeldNext ==
  ASSUME NEW K \in BOOLEAN
  PROVE  (Content(tbl) \in Held(K))' <=> Content(tbl') \in Held(K)
BY DEF Held, Content

\* The step from SerialInv(K), conjunct by conjunct.
LEMMA SerialInvNext ==
  ASSUME NEW K \in BOOLEAN, Serial, IInv', tbl'.low_power_mode = FALSE, DOMAIN saved' = Clients,
         \A c \in Clients : cur' # NoTx => undo'[c] = NoTx,
         K => Spent',
         ~dropped' => /\ Traced(K)'
                      /\ Content(tbl') \in Held(K)
  PROVE  SerialInv(K)'
BY HeldNext DEF SerialInv, Serial

\* The invariant holds in a new database.
LEMMA SerialInit ==
  ASSUME NEW K \in BOOLEAN, Serial, Init, K => Zeroed
  PROVE  SerialInv(K)
<1>1. IInv
  BY InitIInv
<1>2. PICK T \in NewTables, on \in PowerModes : tbl = SetLowPowerMode(T, on)
  BY DEF Init
<1>3. on = FALSE
  BY DEF Serial
<1>4. T \in TableType /\ Used(T) = {}
  BY NewTableWF DEF WF
<1>5. /\ tbl.low_power_mode = FALSE /\ tbl.status = T.status
      /\ tbl.create = T.create /\ tbl.delete = T.delete
  BY <1>2, <1>3, <1>4 DEF SetLowPowerMode, TableType
<1>6. Used(tbl) = {}
  BY <1>4, <1>5 DEF Used
<1>7. Zeroed => \A s \in Slots : tbl.create[s] = 0 /\ tbl.delete[s] = 0
  BY <1>5, SMTT(30) DEF NewTables, NewTable, Zeroed
<1>8. K => Spent
  <2>1. \A i \in 1 .. MaxLog : buf[i].tx = 0
    BY DEF Init, NoItem, LogItem
  <2>2. QED
    BY <1>7, <2>1, SMTT(30) DEF Spent, Visible, Init
<1>9. Traced(K)
  BY DEF Traced, Init
<1>10. Content(tbl) \in Held(K)
  <2>1. Distinct(Content(tbl))
    BY <1>6 DEF Distinct, Content
  <2>2. QED
    BY <1>1, <2>1, ContentType DEF Held, IInv, TypeOK
<1>11. QED
  BY <1>1, <1>5, <1>8, <1>9, <1>10 DEF SerialInv, Init

\* begin starts an empty history.
LEMMA SerialBegin ==
  ASSUME NEW K \in BOOLEAN, SerialInv(K), NEW c \in Clients, Begin(c) \/ BeginNullBuffer(c)
  PROVE  SerialInv(K)'
<1>1. IInv' /\ IInv
  BY BoundaryStep DEF SerialInv
<1>2. /\ tbl' = tbl /\ buf' = buf /\ undo' = undo /\ dropped' = dropped
      /\ counter' = counter + 1 /\ counter \in Nat
      /\ undo[c] = NoTx /\ cur = NoTx
      /\ Begin(c) => /\ cur' = [id |-> counter, owner |-> c, count |-> 0]
                     /\ saved' = [saved EXCEPT ![c] = Content(tbl)]
      /\ ~Begin(c) => cur' = cur /\ saved' = saved
  BY <1>1 DEF Begin, BeginNullBuffer, Ready, IInv, TypeOK
<1>3. \A d \in Clients : d = c
  BY DEF SerialInv, Serial
<1>4. K => Spent'
  <2>1. SUFFICES ASSUME K PROVE Spent'
    OBVIOUS
  <2>2. Spent
    BY <2>1 DEF SerialInv
  <2>3. \A n \in Nat : n < counter => n < counter + 1
    BY <1>2, SMTT(30)
  <2>4. /\ \A s \in Slots : tbl.create[s] \in Nat
        /\ \A i \in 1 .. MaxLog : buf[i].tx \in Nat
    BY <1>1, Fields DEF IInv, TypeOK, LogItems
  <2>5. Visible(tbl', counter')
    BY <1>2, <2>2, <2>3, <2>4 DEF Spent, Visible
  <2>6. \A i \in 1 .. MaxLog : buf'[i].tx < counter'
    BY <1>2, <2>2, <2>3, <2>4 DEF Spent
  <2>7. cur' # NoTx => cur'.id < counter'
    BY <1>2, SMTT(30)
  <2>8. QED
    BY <2>5, <2>6, <2>7, SpentNext
<1>5. ASSUME ~dropped' PROVE Traced(K)' /\ Content(tbl') \in Held(K)
  <2>1. Content(tbl) \in Held(K)
    BY <1>2, <1>5 DEF SerialInv
  <2>2. Content(tbl) \in Contents
    BY <1>1, ContentType DEF IInv, TypeOK
  <2>3. Trace(Held(K), buf, 0, 0, Content(tbl), Content(tbl))
    BY <2>1, <2>2, TraceStart
  <2>4. c \in DOMAIN saved
    BY DEF SerialInv
  <2>5. cur' # NoTx => cur'.count = 0 /\ saved'[c] = Content(tbl)
    BY <1>2, <2>4, SMTT(30)
  <2>6. QED
    BY <1>2, <1>3, <2>1, <2>3, <2>5, TracedNext
<1>6. tbl'.low_power_mode = FALSE /\ DOMAIN saved' = Clients /\ Serial
  BY <1>2 DEF SerialInv
<1>7. QED
  BY <1>1, <1>2, <1>3, <1>4, <1>5, <1>6, SerialInvNext

\* commit forgets the history, and a rollback begins and ends with the one at
\* hand.
LEMMA SerialEnd ==
  ASSUME NEW K \in BOOLEAN, SerialInv(K), NEW c \in Clients,
         Commit(c) \/ RollbackBegin(c) \/ RollbackEnd(c)
  PROVE  SerialInv(K)'
<1>1. IInv' /\ IInv
  BY BoundaryStep DEF SerialInv
<1>2. /\ tbl' = tbl /\ buf' = buf /\ dropped' = dropped /\ counter' = counter
      /\ cur' = cur \/ cur' = NoTx
      /\ DOMAIN saved' = DOMAIN saved /\ DOMAIN undo' = Clients
  BY <1>1 DEF Commit, RollbackBegin, RollbackEnd, IInv, TypeOK
<1>3. \A d \in Clients : d = c
  BY DEF SerialInv, Serial
<1>4. cur' = NoTx
  BY TxAssumption, SMTT(30) DEF Commit, RollbackBegin, RollbackEnd, SerialInv
<1>5. K => Spent'
  BY <1>2, <1>4, SpentNext DEF SerialInv, Spent
<1>6. ASSUME ~dropped' PROVE Traced(K)' /\ Content(tbl') \in Held(K)
  <2>1. Traced(K) /\ Content(tbl) \in Held(K)
    BY <1>2, <1>6 DEF SerialInv
  <2>2. CASE Commit(c) \/ RollbackEnd(c)
    <3>1. undo'[c] = NoTx
      BY <1>1, <2>2 DEF Commit, Ready, RollbackEnd, IInv, TypeOK
    <3>2. QED
      BY <1>2, <1>3, <1>4, <2>1, <3>1, TracedNext
  <2>3. CASE RollbackBegin(c)
    <3>1. undo'[c] = cur.count /\ saved' = saved /\ cur # NoTx
      BY <1>1, <2>3 DEF RollbackBegin, Owns, IInv, TypeOK
    <3>2. Trace(Held(K), buf, 0, cur.count, saved[c], Content(tbl))
      BY <2>1, <3>1 DEF Traced
    <3>3. QED
      BY <1>2, <1>3, <1>4, <2>1, <3>1, <3>2, TracedNext
  <2>4. QED
    BY <2>2, <2>3
<1>7. tbl'.low_power_mode = FALSE /\ DOMAIN saved' = Clients /\ Serial
  BY <1>2 DEF SerialInv
<1>8. QED
  BY <1>1, <1>4, <1>5, <1>6, <1>7, SerialInvNext

\* What an undone item may change, whatever the table holds.
LEMMA UndoTable ==
  ASSUME NEW item \in LogItems, IInv, UndoItem(item)
  PROVE  /\ tbl'.low_power_mode = tbl.low_power_mode
         /\ \A u \in Slots : tbl'.create[u] \in {tbl.create[u], item.tx}
         /\ \A u \in Slots : tbl'.delete[u] \in {tbl.delete[u], 0}
<1> DEFINE s == item.id
<1>1. /\ s \in Slots /\ item.tx \in Nat /\ item.old \in Rows \cup {ZeroRow}
      /\ tbl \in TableType /\ Sound(tbl)
  BY DEF LogItems, IInv, TypeOK
<1>2. CASE tbl' = UndoInsert(tbl, s) /\ tbl.status[s] = "Used"
  <2>1. s \in Used(tbl)
    BY <1>1, <1>2 DEF Used
  <2>2. QED
    BY <1>1, <1>2, <2>1, DeleteEffect DEF UndoInsert
<1>3. CASE tbl' = UndoDelete(tbl, s, item.old, item.tx) /\ tbl.status[s] # "Used"
  <2>1. s \in Slots \ Used(tbl)
    BY <1>1, <1>3 DEF Used
  <2>2. LET N == UndoDelete(tbl, s, item.old, item.tx)
        IN  /\ \A u \in Slots : /\ N.create[u] \in {tbl.create[u], item.tx}
                                /\ N.delete[u] \in {tbl.delete[u], 0}
            /\ N.low_power_mode = tbl.low_power_mode
    BY <1>1, <2>1, UndoDeleteEffect, SMTT(30)
  <2>3. QED
    BY <1>3, <2>2
<1>4. CASE tbl' = UndoUpdate(tbl, s, item.old, item.tx)
  BY <1>1, <1>4, UndoUpdateEffect, SMTT(30)
<1>5. CASE tbl' = tbl
  BY <1>5
<1>6. QED
  BY <1>2, <1>3, <1>4, <1>5 DEF UndoItem

\* An item of the history is undone on the content that it led to: the slot is
\* as the operation left it, and the content of before comes back.
LEMMA UndoGoesBack ==
  ASSUME NEW item \in LogItems, IInv, UndoItem(item), NEW e \in Contents,
         Leads(item, e, Content(tbl)), Sound(tbl')
  PROVE  /\ Content(tbl') = e
         /\ (item.op = "Delete") <=> (item.id \notin Used(tbl))
         /\ item.op # "Insert" => item.old = e[item.id] /\ item.id \in DOMAIN e
<1> DEFINE s == item.id
<1>1. /\ s \in Slots /\ item.tx \in Nat /\ item.old \in Rows \cup {ZeroRow}
      /\ tbl \in TableType /\ Sound(tbl) /\ tbl' \in TableType
      /\ item.op \in {"Insert", "Update", "Delete"}
  BY DEF LogItems, IInv, TypeOK, Sound, WF
<1>2. /\ e = Before(item, Content(tbl))
      /\ (item.op = "Delete") <=> (s \notin Used(tbl))
  BY <1>1, BeforeAfter, ContentType DEF Leads
<1>3. (item.op = "Delete") <=> (tbl.status[s] # "Used")
  BY <1>1, <1>2 DEF Used
<1>4. tbl.data \in [Slots -> Rows \cup {ZeroRow}]
  BY <1>1, Fields
<1>5. /\ Used(tbl') = IF item.op = "Insert" THEN Used(tbl) \ {s}
                      ELSE Used(tbl) \cup {s}
      /\ item.op # "Insert" => tbl'.data[s] = item.old
      /\ \A u \in Slots \ {s} : tbl'.data[u] = tbl.data[u]
  <2>1. CASE item.op = "Insert"
    <3>1. tbl' = DeleteRow(tbl, s) /\ s \in Used(tbl)
      BY <1>2, <1>3, <2>1 DEF UndoItem, UndoInsert
    <3>2. /\ Used(tbl') = Used(tbl) \ {s}
          /\ tbl'.data = [tbl.data EXCEPT ![s] = ZeroRow]
      BY <1>1, <3>1, DeleteEffect
    <3>3. QED
      BY <1>4, <2>1, <3>2
  <2>2. CASE item.op = "Delete"
    <3>1. tbl' = UndoDelete(tbl, s, item.old, item.tx) /\ s \in Slots \ Used(tbl)
      BY <1>1, <1>2, <1>3, <2>2 DEF UndoItem
    <3>2. LET N == UndoDelete(tbl, s, item.old, item.tx)
          IN  /\ Used(N) = Used(tbl) \cup {s} /\ N.data[s] = item.old
              /\ \A u \in Slots \ {s} : N.data[u] = tbl.data[u]
      BY <1>1, <3>1, UndoDeleteEffect, SMTT(30)
    <3>3. QED
      BY <2>2, <3>1, <3>2
  <2>3. CASE item.op = "Update"
    <3>1. tbl' = UndoUpdate(tbl, s, item.old, item.tx) /\ s \in Used(tbl)
      BY <1>1, <1>2, <1>3, <2>3 DEF UndoItem
    <3>2. LET N == UndoUpdate(tbl, s, item.old, item.tx)
          IN  /\ Used(N) = Used(tbl) /\ N.data[s] = item.old
              /\ \A u \in Slots \ {s} : N.data[u] = tbl.data[u]
      BY <1>1, UndoUpdateEffect, SMTT(30)
    <3>3. QED
      BY <2>3, <3>1, <3>2
  <2>4. QED
    BY <1>1, <2>1, <2>2, <2>3
<1>6. Content(tbl') = e
  BY <1>1, <1>2, <1>5, ContentBefore, SMTT(30)
<1>7. QED
  BY <1>2, <1>6 DEF Records, Leads

\* Undoing an item takes the last content off the history.
LEMMA SerialUndo ==
  ASSUME NEW K \in BOOLEAN, SerialInv(K), NEW c \in Clients, UndoNext(c)
  PROVE  SerialInv(K)'
<1> DEFINE item == buf[undo[c]]
<1>1. IInv' /\ IInv
  BY UndoStep DEF SerialInv
<1>2. undo[c] \in 1 .. MaxLog /\ item \in LogItems
  BY <1>1, TxAssumption, SMTT(30) DEF UndoNext, IInv, TypeOK
<1>3. /\ UndoItem(item) /\ undo[c] # NoTx
      /\ cur' = cur /\ buf' = buf /\ counter' = counter /\ saved' = saved
      /\ dropped' = dropped /\ undo'[c] = undo[c] - 1
  BY <1>1 DEF UndoNext, IInv, TypeOK
<1>4. cur = NoTx /\ \A d \in Clients : d = c
  BY <1>3 DEF SerialInv, Serial
<1>5. K => Spent'
  <2>1. SUFFICES ASSUME K PROVE Spent'
    OBVIOUS
  <2>2. Spent
    BY <2>1 DEF SerialInv
  <2>3. item.tx < counter
    BY <1>2, <2>2 DEF Spent
  <2>4. Visible(tbl', counter')
    BY <1>1, <1>2, <1>3, <2>2, <2>3, UndoTable DEF Spent, Visible
  <2>5. QED
    BY <1>3, <1>4, <2>2, <2>4, SpentNext DEF Spent
<1>6. ASSUME ~dropped' PROVE Traced(K)' /\ Content(tbl') \in Held(K)
  <2>1. Trace(Held(K), buf, 0, undo[c], saved[c], Content(tbl))
    BY <1>3, <1>6 DEF SerialInv, Traced
  <2>2. undo[c] \in Nat /\ 0 < undo[c] /\ 0 \in Nat
    BY <1>2, SMTT(30)
  <2>3. PICK e \in Held(K) : /\ Trace(Held(K), buf, 0, undo[c] - 1, saved[c], e)
                             /\ Leads(item, e, Content(tbl))
    BY <2>1, <2>2, TraceBack
  <2>4. Sound(tbl')
    BY <1>1 DEF IInv, Sound
  <2> HIDE DEF item
  <2>5. e \in Contents
    BY DEF Held
  <2>6. Content(tbl') = e
    BY <1>1, <1>2, <1>3, <2>3, <2>4, <2>5, UndoGoesBack
  <2>7. QED
    BY <1>3, <1>4, <2>3, <2>6, TracedNext
<1>7. tbl'.low_power_mode = FALSE /\ DOMAIN saved' = Clients /\ Serial
  BY <1>1, <1>2, <1>3, UndoTable DEF SerialInv
<1>8. QED
  BY <1>1, <1>3, <1>4, <1>5, <1>6, <1>7, SerialInvNext

\* Out of low power mode insert takes a free slot, and there is one.
LEMMA FreshSlot ==
  ASSUME NEW T, Sound(T), T.low_power_mode = FALSE, NEW s \in InsertSlot(T)
  PROVE  s \in Slots /\ s \notin Used(T) /\ T.record_count < MaxRecords
<1>1. s \in Slots /\ T \in TableType
  BY SlotOfInsert DEF Sound, WF
<1>2. ~AtCapacity(T)
  BY DEF InsertSlot
<1>3. T.free_slot_count # 0 /\ s = T.free_slots[T.free_slot_count - 1]
  BY <1>2 DEF InsertSlot
<1>4. T.free_slot_count - 1 \in 0 .. T.free_slot_count - 1
  BY <1>1, <1>3, Fields, SMTT(30)
<1>5. s \in Stack(T)
  BY <1>3, <1>4 DEF Stack
<1>6. s \notin Used(T)
  BY <1>1, <1>5 DEF Sound, WF, Partition
<1>7. T.record_count < MaxRecords
  BY <1>1, <1>2, Fields, SizesAssumption, SMTT(30) DEF AtCapacity, EffectiveMax
<1>8. QED
  BY <1>1, <1>6, <1>7

\* A slot that fits in the u16 of the log is logged as it is.
LEMMA LoggedId ==
  ASSUME Serial, NEW s \in Slots
  PROVE  s % IdMod = s
<1>1. s \in Nat /\ s < MaxRecords /\ MaxRecords \in Nat /\ IdMod \in Nat \ {0}
  BY SizesAssumption, TxAssumption, SMTT(30) DEF Slots
<1>2. s < IdMod
  BY <1>1, SMTT(30) DEF Serial
<1>3. QED
  BY <1>1, <1>2, SMTT(30)

\* The item that an operation logs leads from the content before to the one
\* after it, and validate_constraints has kept the keys unique.
Operation(op, s, old, new) ==
  /\ s \in Slots /\ Log(op, s, old, new)
  /\ \A tx \in Nat :
       /\ LogItem(op, s, tx, old, new) \in LogItems
       /\ Leads(LogItem(op, s, tx, old, new), Content(tbl), Content(tbl'))
  /\ Visible(tbl, counter) /\ Distinct(Content(tbl)) => Distinct(Content(tbl'))
  /\ tbl'.create = tbl.create /\ tbl'.delete = tbl.delete
  /\ tbl'.low_power_mode = tbl.low_power_mode

\* What the three operations have in common.
LEMMA OperationLeads ==
  ASSUME IInv, Serial, NEW op \in {"Insert", "Update", "Delete"}, NEW s \in Slots,
         NEW old \in Rows \cup {ZeroRow}, NEW new \in Rows \cup {ZeroRow},
         tbl' \in TableType, Log(op, s, old, new),
         (op = "Insert") <=> (s \notin Used(tbl)),
         op # "Insert" => old = tbl.data[s],
         Used(tbl') = IF op = "Delete" THEN Used(tbl) \ {s}
                      ELSE Used(tbl) \cup {s},
         op # "Delete" => tbl'.data[s] = new,
         \A u \in Slots \ {s} : tbl'.data[u] = tbl.data[u],
         op # "Delete" => ~Conflict(tbl, new, {s}, counter),
         tbl'.create = tbl.create, tbl'.delete = tbl.delete,
         tbl'.low_power_mode = tbl.low_power_mode
  PROVE  Operation(op, s, old, new)
<1>1. tbl \in TableType /\ counter \in Nat
  BY DEF IInv, TypeOK
<1>2. s % IdMod = s
  BY LoggedId
<1>3. ASSUME NEW tx \in Nat
      PROVE  /\ LogItem(op, s, tx, old, new) \in LogItems
             /\ Leads(LogItem(op, s, tx, old, new), Content(tbl), Content(tbl'))
  <2> DEFINE item == LogItem(op, s, tx, old, new)
  <2>1. item \in LogItems
    BY ItemType
  <2>2. /\ item.op = op /\ item.id = s /\ item.old = old /\ item.new = new
    BY <1>2 DEF LogItem
  <2> HIDE DEF item
  <2>3. Content(tbl') = After(item, Content(tbl))
    BY <1>1, <2>1, <2>2, ContentAfter
  <2>4. Records(item, Content(tbl))
    BY <1>1, <2>2, ContentType DEF Records
  <2>5. QED
    BY <2>1, <2>3, <2>4 DEF Leads, item
<1>4. ASSUME Visible(tbl, counter), Distinct(Content(tbl))
      PROVE  Distinct(Content(tbl'))
  <2> DEFINE item == LogItem(op, s, 0, old, new)
  <2>1. Content(tbl') = After(item, Content(tbl))
    BY <1>3 DEF Leads
  <2>2. item.op = op /\ item.id = s /\ item.new = new
    BY <1>2 DEF LogItem
  <2> HIDE DEF item
  <2>3. op # "Delete" =>
          \A u \in DOMAIN Content(tbl) \ {s} : ~Clash(Content(tbl)[u], new)
    BY <1>1, <1>4, NoClash, ContentType
  <2>4. QED
    BY <1>4, <2>1, <2>2, <2>3, DistinctAfter, SMTT(30)
<1>5. QED
  BY <1>3, <1>4 DEF Operation

\* An insert that passed validate_constraints is an operation of the history.
LEMMA InsertOperation ==
  ASSUME NEW K \in BOOLEAN, SerialInv(K), NEW row \in Rows, NEW s \in InsertSlot(tbl),
         ~Conflict(tbl, row, {}, counter), DoInsert(row, s)
  PROVE  Operation("Insert", s, ZeroRow, row)
<1>1. IInv /\ Serial /\ Sound(tbl) /\ tbl \in TableType
  BY DEF SerialInv, IInv, TypeOK
<1>2. s \in Slots /\ s \notin Used(tbl)
  BY <1>1, FreshSlot DEF SerialInv
<1>3. tbl' = InsertRow(tbl, s, row) /\ Log("Insert", s, ZeroRow, row)
  BY DEF DoInsert
<1>4. /\ Used(tbl') = Used(tbl) \cup {s} /\ tbl'.data = [tbl.data EXCEPT ![s] = row]
      /\ tbl'.create = tbl.create /\ tbl'.delete = tbl.delete
      /\ tbl'.low_power_mode = tbl.low_power_mode
  BY <1>1, <1>3, InsertEffect, SMTT(30)
<1>5. tbl' \in TableType
  BY <1>1, <1>3, InsertSound DEF Sound, WF
<1>6. tbl'.data[s] = row /\ \A u \in Slots \ {s} : tbl'.data[u] = tbl.data[u]
  BY <1>1, <1>2, <1>4, Fields
<1>7. ~Conflict(tbl, row, {s}, counter)
  BY DEF Conflict
<1>8. QED
  BY <1>1, <1>2, <1>3, <1>4, <1>5, <1>6, <1>7, OperationLeads

\* An update is an operation of the history.
LEMMA UpdateOperation ==
  ASSUME NEW K \in BOOLEAN, SerialInv(K), NEW row \in Rows, NEW s \in Used(tbl), DoUpdate(s, row)
  PROVE  Operation("Update", s, tbl.data[s], row)
<1>1. IInv /\ Serial /\ Sound(tbl) /\ tbl \in TableType
  BY DEF SerialInv, IInv, TypeOK
<1>2. s \in Slots
  BY DEF Used
<1>3. /\ tbl' = UpdateRow(tbl, s, row) /\ Log("Update", s, tbl.data[s], row)
      /\ ~Conflict(tbl, row, {s}, counter)
  BY DEF DoUpdate
<1>4. /\ Used(tbl') = Used(tbl) /\ tbl'.data = [tbl.data EXCEPT ![s] = row]
      /\ tbl'.create = tbl.create /\ tbl'.delete = tbl.delete
      /\ tbl'.low_power_mode = tbl.low_power_mode
  BY <1>1, <1>2, <1>3, UpdateEffect
<1>5. tbl' \in TableType
  BY <1>1, <1>2, <1>3, UpdateSound DEF Sound, WF
<1>6. tbl'.data[s] = row /\ \A u \in Slots \ {s} : tbl'.data[u] = tbl.data[u]
  BY <1>1, <1>2, <1>4, Fields
<1>7. Used(tbl') = Used(tbl) \cup {s} /\ tbl.data[s] \in Rows \cup {ZeroRow}
  BY <1>1, <1>2, <1>4, Fields, SMTT(30)
<1>8. QED
  BY <1>1, <1>2, <1>3, <1>4, <1>5, <1>6, <1>7, OperationLeads

\* A delete is an operation of the history.
LEMMA DeleteOperation ==
  ASSUME NEW K \in BOOLEAN, SerialInv(K), NEW s \in Used(tbl), DoDelete(s)
  PROVE  Operation("Delete", s, tbl.data[s], ZeroRow)
<1>1. IInv /\ Serial /\ Sound(tbl) /\ tbl \in TableType
  BY DEF SerialInv, IInv, TypeOK
<1>2. s \in Slots
  BY DEF Used
<1>3. tbl' = DeleteRow(tbl, s) /\ Log("Delete", s, tbl.data[s], ZeroRow)
  BY DEF DoDelete
<1>4. /\ Used(tbl') = Used(tbl) \ {s}
      /\ tbl'.data = [tbl.data EXCEPT ![s] = ZeroRow]
      /\ tbl'.create = tbl.create /\ tbl'.delete = tbl.delete
      /\ tbl'.low_power_mode = tbl.low_power_mode
  BY <1>1, <1>3, DeleteEffect
<1>5. tbl' \in TableType
  BY <1>1, <1>3, DeleteSound DEF Sound, WF
<1>6. \A u \in Slots \ {s} : tbl'.data[u] = tbl.data[u]
  BY <1>1, <1>2, <1>4, Fields
<1>7. tbl.data[s] \in Rows \cup {ZeroRow}
  BY <1>1, <1>2, Fields
<1>8. QED
  BY <1>1, <1>2, <1>3, <1>4, <1>5, <1>6, <1>7, OperationLeads

\* The next table has a content.
LEMMA NextContent == IInv' => Content(tbl') \in Contents
<1>1. IInv' => tbl' \in TableType
  BY DEF IInv, TypeOK
<1>2. QED
  BY <1>1, ContentType

\* An operation is logged, dropped, or made outside a transaction.
LEMMA SerialOperation ==
  ASSUME NEW K \in BOOLEAN, SerialInv(K), IInv', NEW c \in Clients, undo[c] = NoTx,
         undo' = undo, counter' = counter, saved' = saved,
         NEW op, NEW s, NEW old, NEW new, Operation(op, s, old, new)
  PROVE  SerialInv(K)'
<1>1. IInv /\ Serial /\ \A d \in Clients : d = c
  BY DEF SerialInv, Serial
<1>2. /\ buf \in [1 .. MaxLog -> LogItems] /\ counter \in Nat
      /\ cur # NoTx => cur \in [id : Nat, owner : Clients, count : 0 .. MaxLog]
  BY <1>1 DEF IInv, TypeOK
<1>3. CASE cur = NoTx \/ cur.count >= MaxLog
  <2>1. buf' = buf /\ cur' = cur /\ (cur # NoTx => dropped')
        /\ (cur = NoTx => dropped' = dropped)
    <3>1. ~(cur # NoTx /\ cur.count < MaxLog)
      BY <1>2, <1>3, TxAssumption, SMTT(30)
    <3>2. QED
      BY <3>1 DEF Operation, Log
  <2>2. K => Spent'
    BY <2>1, SpentNext DEF SerialInv, Spent, Visible, Operation
  <2>3. ASSUME ~dropped' PROVE Traced(K)' /\ Content(tbl') \in Held(K)
    <3>1. ~dropped /\ cur = NoTx
      BY <2>1, <2>3, SMTT(30)
    <3>2. Content(tbl') \in Held(K)
      BY <1>1, <3>1, NextContent DEF SerialInv, Spent, Operation, Held
    <3>3. QED
      BY <1>1, <2>1, <3>1, <3>2, TracedNext
  <2>4. QED
    BY <1>1, <2>1, <2>2, <2>3, SerialInvNext DEF SerialInv, Operation
<1>4. CASE cur # NoTx /\ cur.count < MaxLog
  <2> DEFINE item == LogItem(op, s, cur.id, old, new)
             n == cur.count
  <2>1. /\ buf' = [buf EXCEPT ![n + 1] = item]
        /\ cur' = [cur EXCEPT !.count = n + 1] /\ dropped' = dropped
    <3>1. ~(cur.count >= MaxLog)
      BY <1>2, <1>4, TxAssumption, SMTT(30)
    <3>2. QED
      BY <1>4, <3>1 DEF Operation, Log
  <2>2. /\ cur.id \in Nat /\ n \in 0 .. MaxLog /\ n < MaxLog /\ n \in Nat
        /\ cur'.count = n + 1 /\ cur'.id = cur.id /\ cur' # NoTx
    BY <1>2, <1>4, <2>1, TxAssumption, SMTT(30)
  <2>3. item \in LogItems /\ Leads(item, Content(tbl), Content(tbl'))
        /\ item.tx = cur.id
    BY <2>2 DEF Operation, LogItem
  <2> HIDE DEF item, n
  <2>4. K => Spent'
    <3>1. \A i \in 1 .. MaxLog : buf'[i] = IF i = n + 1 THEN item ELSE buf[i]
      BY <1>2, <2>1
    <3>2. SUFFICES ASSUME K PROVE Spent'
      OBVIOUS
    <3>3. Spent
      BY <3>2 DEF SerialInv
    <3>4. Visible(tbl', counter')
      BY <3>3 DEF Spent, Visible, Operation
    <3>5. cur'.id < counter'
      BY <1>4, <2>2, <3>3 DEF Spent
    <3>6. \A i \in 1 .. MaxLog : buf'[i].tx < counter'
      <4>1. item.tx < counter /\ \A i \in 1 .. MaxLog : buf[i].tx < counter
        BY <1>4, <2>3, <3>3 DEF Spent
      <4>2. ASSUME NEW i \in 1 .. MaxLog PROVE buf'[i].tx < counter
        BY <3>1, <4>1
      <4>3. QED
        BY <4>2
    <3>7. QED
      BY <3>4, <3>5, <3>6, SpentNext
  <2>5. ASSUME ~dropped' PROVE Traced(K)' /\ Content(tbl') \in Held(K)
    <3>1. /\ Trace(Held(K), buf, 0, n, saved[c], Content(tbl))
          /\ Content(tbl) \in Held(K) /\ (K => Spent)
      BY <1>4, <2>1, <2>5 DEF SerialInv, Traced, n
    <3>2. Content(tbl') \in Held(K)
      BY <1>1, <3>1, NextContent DEF Spent, Operation, Held
    <3>4. Trace(Held(K), buf', 0, n + 1, saved[c], Content(tbl'))
      <4> DEFINE f == saved[c]
                 g == Content(tbl)
                 e == Content(tbl')
                 C == Held(K)
                 L == buf'
      <4>1. Trace(C, buf, 0, n, f, g) /\ e \in C /\ Leads(item, g, e)
        BY <2>3, <3>1, <3>2
      <4>2. L[n + 1] = item /\ \A i \in 0 + 1 .. n : L[i] = buf[i]
        <5>1. n + 1 \in 1 .. MaxLog /\ \A i \in 0 + 1 .. n : /\ i \in 1 .. MaxLog
                                                         /\ i # n + 1
          BY <2>2, TxAssumption, SMTT(30)
        <5>2. QED
          BY <1>2, <2>1, <5>1
      <4>3. 0 \in Nat /\ 0 <= n
        BY <2>2, SMTT(30)
      <4> HIDE DEF f, g, e, C, L
      <4>4. Trace(C, L, 0, n + 1, f, e)
        BY <2>2, <4>1, <4>2, <4>3, TraceExtend
      <4>5. QED
        BY <4>4 DEF f, e, C, L
    <3>5. QED
      BY <1>1, <2>2, <3>2, <3>4, TracedNext
  <2>6. QED
    BY <1>1, <1>4, <2>4, <2>5, SerialInvNext DEF SerialInv, Operation
<1>5. QED
  BY <1>3, <1>4, <1>2, TxAssumption, SMTT(30)

\* The record methods keep the invariant.
LEMMA SerialMethod ==
  ASSUME NEW K \in BOOLEAN, SerialInv(K), NEW c \in Clients, Insert(c) \/ Update(c) \/ Delete(c)
  PROVE  SerialInv(K)'
<1>1. /\ undo[c] = NoTx /\ undo' = undo /\ counter' = counter /\ saved' = saved
  BY DEF Insert, Update, Delete, Ready
<1>2. IInv'
  BY MethodStep DEF SerialInv
<1>3. \E op, s, old, new : Operation(op, s, old, new)
  <2>1. CASE Insert(c)
    BY <2>1, InsertOperation DEF Insert, RowsOf
  <2>2. CASE Update(c)
    BY <2>2, UpdateOperation DEF Update, RowsOf, Mine
  <2>3. CASE Delete(c)
    BY <2>3, DeleteOperation DEF Delete, Mine
  <2>4. QED
    BY <2>1, <2>2, <2>3
<1>4. QED
  BY <1>1, <1>2, <1>3, SerialOperation

\* The calls of the C API keep the invariant.
LEMMA SerialApi ==
  ASSUME NEW K \in BOOLEAN, SerialInv(K), NEW c \in Clients,
         ApiInsert(c) \/ ApiUpdate(c) \/ ApiDelete(c)
  PROVE  SerialInv(K)'
<1>1. /\ undo[c] = NoTx /\ undo' = undo /\ counter' = counter /\ saved' = saved
  BY DEF ApiInsert, ApiUpdate, ApiDelete, Ready
<1>2. IInv'
  BY ApiStep DEF SerialInv
<1>3. \/ \E op, s, old, new : Operation(op, s, old, new)
      \/ UNCHANGED <<tbl, cur, buf, dropped>>
  <2>1. CASE ApiInsert(c)
    BY <2>1, InsertOperation DEF ApiInsert, RowsOf
  <2>2. CASE ApiUpdate(c)
    BY <2>2, UpdateOperation, SMTT(30) DEF ApiUpdate, RowsOf, Mine
  <2>3. CASE ApiDelete(c)
    BY <2>3, DeleteOperation DEF ApiDelete, Mine
  <2>4. QED
    BY <2>1, <2>2, <2>3
<1>4. CASE UNCHANGED <<tbl, cur, buf, dropped>>
  <2>1. K => Spent'
    BY <1>1, <1>4, SpentNext DEF SerialInv, Spent
  <2>2. ASSUME ~dropped' PROVE Traced(K)' /\ Content(tbl') \in Held(K)
    BY <1>1, <1>4, <2>2, TracedNext DEF SerialInv, Traced
  <2>3. QED
    BY <1>1, <1>2, <1>4, <2>1, <2>2, SerialInvNext DEF SerialInv
<1>5. QED
  BY <1>1, <1>2, <1>3, <1>4, SerialOperation

\* A step that changes nothing keeps the invariant.
LEMMA SerialStutter ==
  ASSUME NEW K \in BOOLEAN, SerialInv(K), UNCHANGED vars
  PROVE  SerialInv(K)'
<1>1. /\ tbl' = tbl /\ idx' = idx /\ cur' = cur /\ buf' = buf
      /\ counter' = counter /\ undo' = undo /\ saved' = saved
      /\ dropped' = dropped
  BY DEF vars
<1>2. IInv'
  BY StepIInv DEF SerialInv
<1>3. K => Spent'
  BY <1>1, SpentNext DEF SerialInv, Spent
<1>4. ASSUME ~dropped' PROVE Traced(K)' /\ Content(tbl') \in Held(K)
  BY <1>1, <1>4, TracedNext DEF SerialInv, Traced
<1>5. QED
  BY <1>1, <1>2, <1>3, <1>4, SerialInvNext DEF SerialInv

\* Every step keeps the invariant.
LEMMA SerialStep ==
  ASSUME NEW K \in BOOLEAN, SerialInv(K), [Next \/ ApiNext]_vars
  PROVE  SerialInv(K)'
<1>1. ASSUME NEW c \in Clients, TxSteps(c) PROVE SerialInv(K)'
  BY <1>1, SerialBegin, SerialEnd, SerialUndo DEF TxSteps
<1>2. CASE Next
  BY <1>1, <1>2, SerialMethod DEF Next
<1>3. CASE ApiNext
  BY <1>1, <1>3, SerialApi DEF ApiNext
<1>4. QED
  BY <1>2, <1>3, SerialStutter

\* A rollback without an item left to undo has restored the content.
LEMMA Restored ==
  ASSUME SerialInv(FALSE), NEW c \in Clients, undo[c] = 0, ~dropped
  PROVE  saved[c] = Content(tbl)
<1>1. undo[c] # NoTx
  BY TxAssumption, SMTT(30)
<1>2. Trace(Held(FALSE), buf, 0, undo[c], saved[c], Content(tbl))
  BY <1>1 DEF SerialInv, Traced
<1> DEFINE C == Held(FALSE)
           f == saved[c]
           g == Content(tbl)
           n == undo[c]
<1>3. Trace(C, buf, 0, n, f, g) /\ n = 0
  BY <1>2
<1> HIDE DEF C, f, g, n
<1>4. 0 \in Nat /\ n \in Nat /\ 0 <= n
  BY <1>3, SMTT(30)
<1>5. f = g
  BY <1>3, <1>4, TraceEnds, SMTT(30)
<1>6. QED
  BY <1>5 DEF f, g

\* At the end of a rollback the history is empty: the table is the saved one.
LEMMA SerialInvRestores == SerialInv(FALSE) => RollbackRestores
BY Restored DEF RollbackRestores

\* With one client, out of low power mode and with ids that fit in the log: as
\* long as the operations of a transaction fit in its log, rollback leaves
\* exactly the records that were there when the transaction began, each in its
\* slot, whether they were changed by record methods or through the C API.
THEOREM RollbacksRestore ==
  Serial => (Spec => []RollbackRestores) /\ (ApiSpec => []RollbackRestores)
<1> DEFINE Inv == SerialInv(FALSE)
<1>1. Inv /\ [Next]_vars => Inv'
  BY SerialStep
<1>2. Inv /\ [ApiNext]_vars => Inv'
  BY SerialStep
<1>3. Serial /\ Init => Inv
  BY SerialInit
<1>4. Inv => RollbackRestores
  BY SerialInvRestores
<1> HIDE DEF Inv
<1>5. Serial /\ Spec => []RollbackRestores
  BY <1>1, <1>3, <1>4, PTL DEF Spec
<1>6. Serial /\ ApiSpec => []RollbackRestores
  BY <1>2, <1>3, <1>4, PTL DEF ApiSpec
<1>7. QED
  BY <1>5, <1>6

----------------------------------------------------------------------------
(* The primary index *)

\* Undoing an item keeps index and records in step.
LEMMA UndoIndex ==
  ASSUME NEW item \in LogItems, IInv, UndoItem(item), NEW e \in Contents,
         Leads(item, e, Content(tbl)), Sound(tbl'), Distinct(e),
         Exact(idx, Content(tbl))
  PROVE  Exact(idx', e)
<1> DEFINE s == item.id
           f == Content(tbl)
<1>1. /\ tbl \in TableType /\ idx \in Index /\ s \in Slots
      /\ item.old \in Rows \cup {ZeroRow}
      /\ item.op \in {"Insert", "Update", "Delete"}
  BY DEF IInv, TypeOK, LogItems, Index
<1>2. /\ f \in Contents /\ DOMAIN f = Used(tbl)
      /\ \A u \in Used(tbl) : f[u] = tbl.data[u]
  BY <1>1, ContentType
<1>3. /\ (item.op = "Delete") <=> (s \notin Used(tbl))
      /\ item.op # "Insert" => item.old = e[s] /\ s \in DOMAIN e
  BY UndoGoesBack
<1>4. (item.op = "Delete") <=> (tbl.status[s] # "Used")
  BY <1>1, <1>3 DEF Used
<1>5. /\ DOMAIN f = IF item.op = "Delete" THEN DOMAIN e \ {s}
                    ELSE DOMAIN e \cup {s}
      /\ \A u \in DOMAIN f \ {s} : f[u] = e[u]
      /\ (item.op = "Insert") <=> (s \notin DOMAIN e)
  BY DEF Leads, After, Records
<1>6. item.old.pk \in Pks \cup {0}
  BY <1>1, SMTT(30) DEF Rows, ZeroRow
<1>7. Exact(idx, f)
  OBVIOUS
<1> HIDE DEF f
<1>8. CASE item.op = "Insert"
  <2>1. idx' = IndexDelete(idx, f[s].pk) /\ s \in DOMAIN f
    BY <1>2, <1>3, <1>4, <1>8 DEF UndoItem
  <2>2. DOMAIN e = DOMAIN f \ {s} /\ \A u \in DOMAIN e : e[u] = f[u]
    BY <1>5, <1>8
  <2>3. QED
    BY <1>1, <1>2, <1>7, <2>1, <2>2, ExactDelete
<1>9. ASSUME item.op # "Insert", NEW u \in DOMAIN f \ {s}
      PROVE  f[u].pk # e[s].pk
  BY <1>3, <1>5, <1>9 DEF Distinct, Clash
<1>10. CASE item.op = "Delete"
  <2>1. idx' = IndexInsert(idx, MaxRecords, e[s].pk, s) /\ s \notin DOMAIN f
    BY <1>2, <1>3, <1>4, <1>10 DEF UndoItem
  <2>2. /\ DOMAIN e = DOMAIN f \cup {s} /\ \A u \in DOMAIN f : e[u] = f[u]
        /\ \A u \in DOMAIN f : f[u].pk # e[s].pk
        /\ e[s].pk \in Pks \cup {0}
    BY <1>3, <1>5, <1>6, <1>9, <1>10
  <2>3. QED
    BY <1>1, <1>2, <1>7, <2>1, <2>2, ExactInsert
<1>11. CASE item.op = "Update"
  <2> DEFINE m == [u \in DOMAIN f \ {s} |-> f[u]]
             I == IndexDelete(idx, f[s].pk)
  <2>1. idx' = IndexInsert(I, MaxRecords, e[s].pk, s) /\ s \in DOMAIN f
    BY <1>1, <1>2, <1>3, <1>4, <1>11 DEF UndoItem
  <2>2. m \in Contents
    BY <1>2, ContentWithout
  <2>3. DOMAIN m = DOMAIN f \ {s} /\ \A u \in DOMAIN m : m[u] = f[u]
    OBVIOUS
  <2> HIDE DEF m
  <2>4. I \in Index /\ Exact(I, m)
    BY <1>1, <1>2, <1>7, <2>1, <2>3, ExactDelete
  <2> HIDE DEF I
  <2>5. /\ DOMAIN e = DOMAIN m \cup {s} /\ \A u \in DOMAIN m : e[u] = m[u]
        /\ \A u \in DOMAIN m : m[u].pk # e[s].pk
        /\ s \notin DOMAIN m /\ e[s].pk \in Pks \cup {0}
    BY <1>3, <1>5, <1>6, <1>9, <1>11, <2>3
  <2>6. QED
    BY <1>1, <2>1, <2>2, <2>4, <2>5, ExactInsert
<1>12. QED
  BY <1>1, <1>8, <1>10, <1>11

----------------------------------------------------------------------------
(* The invariant behind IndexExact, for clients that keep keys in updates *)

KeyedInv ==
  /\ SerialInv(TRUE) /\ KeyChanges = FALSE
  /\ ~dropped => Exact(idx, Content(tbl))

\* What is left to show of a step: the index is exact, unless an operation did
\* not fit in the log.
LEMMA KeyedInvNext ==
  ASSUME KeyedInv, SerialInv(TRUE)', ~dropped' => Exact(idx', Content(tbl'))
  PROVE  KeyedInv'
<1>1. Exact(idx, Content(tbl))' <=> Exact(idx', Content(tbl'))
  BY DEF Exact, Content
<1>2. QED
  BY <1>1 DEF KeyedInv

\* The empty index is exact for the empty table.
LEMMA KeyedInit == Serial /\ Zeroed /\ KeyChanges = FALSE /\ Init => KeyedInv
<1> SUFFICES ASSUME Serial, Zeroed, KeyChanges = FALSE, Init PROVE KeyedInv
  OBVIOUS
<1>1. SerialInv(TRUE)
  BY SerialInit
<1>2. PICK T \in NewTables, on \in PowerModes : tbl = SetLowPowerMode(T, on)
  BY DEF Init
<1>3. T \in TableType /\ Used(T) = {}
  BY NewTableWF DEF WF
<1>4. tbl.status = T.status
  BY <1>2, <1>3 DEF SetLowPowerMode, TableType
<1>5. Used(tbl) = {}
  BY <1>3, <1>4 DEF Used
<1>6. DOMAIN Content(tbl) = {}
  BY <1>5 DEF Content
<1>7. idx = <<>>
  BY DEF Init, NewIndex
<1>8. Len(idx) = 0 /\ DOMAIN idx = {}
  BY <1>7, SMTT(30)
<1>9. Cardinality({}) = 0
  BY FS_EmptySet
<1>10. Exact(idx, Content(tbl))
  BY <1>6, <1>8, <1>9 DEF Exact
<1>11. QED
  BY <1>1, <1>10 DEF KeyedInv

\* Undoing an item takes the record and its item of the index back together.
LEMMA KeyedUndo ==
  ASSUME KeyedInv, NEW c \in Clients, UndoNext(c)
  PROVE  KeyedInv'
<1> DEFINE item == buf[undo[c]]
<1>1. SerialInv(TRUE) /\ IInv /\ SerialInv(TRUE)' /\ IInv'
  BY SerialUndo DEF KeyedInv, SerialInv
<1>2. undo[c] \in Nat /\ undo[c] > 0 /\ item \in LogItems
  BY <1>1, TxAssumption, SMTT(30) DEF UndoNext, IInv, TypeOK
<1>3. UndoItem(item) /\ undo[c] # NoTx /\ dropped' = dropped
  BY DEF UndoNext
<1>4. ASSUME ~dropped' PROVE Exact(idx', Content(tbl'))
  <2>1. /\ Trace(Held(TRUE), buf, 0, undo[c], saved[c], Content(tbl))
        /\ Exact(idx, Content(tbl))
    BY <1>1, <1>3, <1>4 DEF KeyedInv, SerialInv, Traced
  <2>2. PICK e \in Held(TRUE) : Leads(item, e, Content(tbl))
    <3>1. 0 \in Nat /\ 0 < undo[c]
      BY <1>2
    <3>2. QED
      BY <1>2, <2>1, <3>1, TraceBack
  <2>3. Distinct(e) /\ e \in Contents
    BY DEF Held
  <2>4. Sound(tbl')
    BY <1>1 DEF IInv, Sound
  <2> HIDE DEF item
  <2>5. Content(tbl') = e
    BY <1>1, <1>2, <1>3, <2>2, <2>3, <2>4, UndoGoesBack
  <2>6. Exact(idx', e)
    BY <1>1, <1>2, <1>3, <2>1, <2>2, <2>3, <2>4, UndoIndex
  <2>7. QED
    BY <2>5, <2>6
<1>5. QED
  BY <1>1, <1>4, KeyedInvNext

\* begin, commit and the ends of a rollback leave table and index alone.
LEMMA KeyedBoundary ==
  ASSUME KeyedInv, NEW c \in Clients,
         \/ Begin(c) \/ BeginNullBuffer(c) \/ Commit(c)
         \/ RollbackBegin(c) \/ RollbackEnd(c)
  PROVE  KeyedInv'
<1>1. SerialInv(TRUE)'
  BY SerialBegin, SerialEnd DEF KeyedInv
<1>2. tbl' = tbl /\ idx' = idx /\ dropped' = dropped
  BY DEF Begin, BeginNullBuffer, Commit, RollbackBegin, RollbackEnd
<1>3. QED
  BY <1>1, <1>2, KeyedInvNext DEF KeyedInv

\* A lookup finds the record that has the key.
LEMMA FindExact ==
  ASSUME NEW I \in Index, NEW f, Exact(I, f), NEW key, HasKey(I, key)
  PROVE  IndexFind(I, key) \in DOMAIN f /\ f[IndexFind(I, key)].pk = key
<1>1. FirstItem(I, key) \in DOMAIN I /\ I[FirstItem(I, key)].key = key
  BY FirstItemExists DEF Index
<1>2. QED
  BY <1>1 DEF IndexFind, Exact

\* The content after an operation, slot by slot.
LEMMA OperationContent ==
  ASSUME Serial, NEW op, NEW s, NEW old, NEW new, Operation(op, s, old, new)
  PROVE  /\ DOMAIN Content(tbl') = IF op = "Delete" THEN DOMAIN Content(tbl) \ {s}
                                   ELSE DOMAIN Content(tbl) \cup {s}
         /\ \A u \in DOMAIN Content(tbl') :
              Content(tbl')[u] = IF u = s THEN new ELSE Content(tbl)[u]
         /\ (op = "Insert") <=> (s \notin DOMAIN Content(tbl))
<1> DEFINE item == LogItem(op, s, 0, old, new)
<1>1. s % IdMod = s
  BY LoggedId DEF Operation
<1>2. item.op = op /\ item.id = s /\ item.new = new
  BY <1>1 DEF LogItem
<1>3. Leads(item, Content(tbl), Content(tbl'))
  BY DEF Operation
<1> HIDE DEF item
<1>4. QED
  BY <1>2, <1>3 DEF Leads, After, Records

\* The calls of the C API change table and index together.
LEMMA KeyedApi ==
  ASSUME KeyedInv, NEW c \in Clients,
         ApiInsert(c) \/ ApiUpdate(c) \/ ApiDelete(c)
  PROVE  KeyedInv'
<1> DEFINE f == Content(tbl)
           g == Content(tbl')
<1>1. SerialInv(TRUE) /\ Serial /\ SerialInv(TRUE)' /\ IInv
  BY SerialApi DEF KeyedInv, SerialInv
<1>2. tbl \in TableType /\ idx \in Index /\ counter \in Nat
  BY <1>1 DEF IInv, TypeOK, Index
<1>3. f \in Contents /\ DOMAIN f = Used(tbl)
  BY <1>2, ContentType
<1>4. dropped => dropped'
  BY <1>2 DEF ApiInsert, ApiUpdate, ApiDelete, DoInsert, DoUpdate, DoDelete, Log
<1>5. ASSUME ~dropped' PROVE Exact(idx', g)
  <2>1. Exact(idx, f)
    BY <1>4, <1>5 DEF KeyedInv
  <2>2. CASE ApiInsert(c)
    <3>1. PICK row \in Rows, s \in InsertSlot(tbl) :
                 /\ ~Conflict(tbl, row, {}, counter)
                 /\ DoInsert(row, s)
                 /\ idx' = IndexInsert(idx, MaxRecords, row.pk, s % IdMod)
      BY <2>2 DEF ApiInsert, RowsOf
    <3>2. Operation("Insert", s, ZeroRow, row)
      BY <1>1, <3>1, InsertOperation
    <3>3. s \in Slots /\ s % IdMod = s
      BY <1>1, <3>2, LoggedId DEF Operation
    <3>4. /\ DOMAIN g = DOMAIN f \cup {s} /\ s \notin DOMAIN f
          /\ g[s] = row /\ \A u \in DOMAIN f : g[u] = f[u]
      BY <1>1, <3>2, OperationContent
    <3>5. Visible(tbl, counter)
      BY <1>1 DEF KeyedInv, SerialInv, Spent
    <3>6. \A u \in DOMAIN f : f[u].pk # row.pk
      BY <1>2, <1>3, <3>1, <3>5, NoClash, SMTT(30) DEF Clash
    <3>7. row.pk \in Pks \cup {0}
      BY DEF Rows
    <3> HIDE DEF f, g
    <3>8. QED
      BY <1>2, <1>3, <2>1, <3>1, <3>3, <3>4, <3>6, <3>7, ExactInsert
  <2>3. CASE ApiUpdate(c)
    <3>1. PICK key \in Pks, row \in Rows :
                 /\ HasKey(idx, key) /\ idx' = idx /\ row.pk = key
                 /\ IndexFind(idx, key) \in Used(tbl)
                 /\ DoUpdate(IndexFind(idx, key), row)
      BY <2>3 DEF ApiUpdate, Mine, RowsOf, KeyedInv
    <3> DEFINE s == IndexFind(idx, key)
    <3>2. Operation("Update", s, tbl.data[s], row)
      BY <1>1, <3>1, UpdateOperation
    <3>3. s \in DOMAIN f /\ f[s].pk = key
      BY <1>2, <2>1, <3>1, FindExact, SMTT(30)
    <3> HIDE DEF s
    <3>4. /\ DOMAIN g = DOMAIN f
          /\ \A u \in DOMAIN f : g[u].pk = f[u].pk
      <4>1. /\ DOMAIN g = DOMAIN f \cup {s}
            /\ \A u \in DOMAIN g : g[u] = IF u = s THEN row ELSE f[u]
        BY <1>1, <3>2, OperationContent
      <4> HIDE DEF f, g
      <4>2. QED
        BY <3>1, <3>3, <4>1
    <3>5. QED
      BY <2>1, <3>1, <3>4 DEF Exact
  <2>4. CASE ApiDelete(c)
    <3>1. PICK key \in Pks :
                 /\ HasKey(idx, key) /\ idx' = IndexDelete(idx, key)
                 /\ \/ /\ IndexFind(idx, key) \in Used(tbl)
                       /\ DoDelete(IndexFind(idx, key))
                    \/ IndexFind(idx, key) \notin Used(tbl)
      BY <2>4 DEF ApiDelete, Mine
    <3> DEFINE s == IndexFind(idx, key)
    <3>2. s \in DOMAIN f /\ f[s].pk = key
      BY <1>2, <2>1, <3>1, FindExact
    <3>3. Operation("Delete", s, tbl.data[s], ZeroRow)
      BY <1>1, <1>3, <3>1, <3>2, DeleteOperation
    <3> HIDE DEF s
    <3>4. DOMAIN g = DOMAIN f \ {s} /\ \A u \in DOMAIN g : g[u] = f[u]
      BY <1>1, <3>3, OperationContent
    <3> HIDE DEF f, g
    <3>5. QED
      BY <1>2, <1>3, <2>1, <3>1, <3>2, <3>4, ExactDelete
  <2>5. QED
    BY <2>2, <2>3, <2>4
<1>6. QED
  BY <1>1, <1>5, KeyedInvNext

\* Every step of the C API keeps the invariant.
LEMMA KeyedStep == KeyedInv /\ [ApiNext]_vars => KeyedInv'
<1> SUFFICES ASSUME KeyedInv, [ApiNext]_vars PROVE KeyedInv'
  OBVIOUS
<1>1. ASSUME NEW c \in Clients, TxSteps(c) PROVE KeyedInv'
  BY <1>1, KeyedBoundary, KeyedUndo DEF TxSteps
<1>2. CASE ApiNext
  BY <1>1, <1>2, KeyedApi DEF ApiNext
<1>3. CASE UNCHANGED vars
  <2>1. SerialInv(TRUE)'
    BY <1>3, SerialStutter DEF KeyedInv
  <2>2. tbl' = tbl /\ idx' = idx /\ dropped' = dropped
    BY <1>3 DEF vars
  <2>3. QED
    BY <2>1, <2>2, KeyedInvNext DEF KeyedInv
<1>4. QED
  BY <1>2, <1>3

\* An exact index has one item per record and one record per item.
LEMMA ExactMatches ==
  ASSUME tbl \in TableType, Exact(idx, Content(tbl))
  PROVE  ItemsMatchRecords
<1> DEFINE f == Content(tbl)
           P == {<<idx[i].key, idx[i].id>> : i \in DOMAIN idx}
           Q == {<<tbl.data[s].pk, s>> : s \in Used(tbl)}
<1>1. DOMAIN f = Used(tbl) /\ \A s \in Used(tbl) : f[s] = tbl.data[s]
  BY ContentType
<1>2. ASSUME NEW i \in DOMAIN idx PROVE <<idx[i].key, idx[i].id>> \in Q
  <2>1. idx[i].id \in Used(tbl) /\ idx[i].key = tbl.data[idx[i].id].pk
    BY <1>1 DEF Exact
  <2>2. QED
    BY <2>1
<1>3. ASSUME NEW s \in Used(tbl) PROVE <<tbl.data[s].pk, s>> \in P
  <2>1. PICK i \in DOMAIN idx : idx[i].id = s
    BY <1>1 DEF Exact
  <2>2. idx[i].key = tbl.data[s].pk
    BY <1>1, <2>1 DEF Exact
  <2>3. QED
    BY <2>1, <2>2
<1>4. P = Q
  BY <1>2, <1>3
<1>5. QED
  BY <1>1, <1>4 DEF ItemsMatchRecords, Exact

\* The invariant implies the property of the runs.
LEMMA KeyedInvSound == KeyedInv => KeysAndIndex
<1> SUFFICES ASSUME KeyedInv, ~dropped PROVE UniquePks(tbl) /\ ItemsMatchRecords
  BY DEF KeysAndIndex, KeysStayUnique, IndexExact
<1>1. tbl \in TableType
  BY DEF KeyedInv, SerialInv, IInv, TypeOK
<1>2. Distinct(Content(tbl))
  BY DEF KeyedInv, SerialInv, Held
<1>3. QED
  BY <1>1, <1>2, DistinctKeys, ExactMatches DEF KeyedInv

\* One client of the C API that keeps keys in updates, a table in memory that
\* was never used: as long as transactions fit in the log, no two records ever
\* have the same key and the primary index has exactly one item per record, with
\* its key and its slot, whatever is rolled back.
THEOREM RollbacksKeepIndex ==
  Serial /\ Zeroed /\ KeyChanges = FALSE => (ApiSpec => []KeysAndIndex)
<1>1. Serial /\ Zeroed /\ KeyChanges = FALSE /\ ApiSpec => []KeysAndIndex
  BY KeyedInit, KeyedStep, KeyedInvSound, PTL DEF ApiSpec
<1>2. QED
  BY <1>1

\* Keys also stay unique when clients use the record methods, which leave the
\* index alone, and when they change keys in updates.
THEOREM RollbacksKeepKeys ==
  Serial /\ Zeroed => (Spec => []KeysStayUnique) /\ (ApiSpec => []KeysStayUnique)
<1> DEFINE Inv == SerialInv(TRUE)
<1>1. Inv => KeysStayUnique
  BY DistinctKeys DEF SerialInv, IInv, TypeOK, KeysStayUnique, Held
<1>2. Inv /\ [Next]_vars => Inv'
  BY SerialStep
<1>3. Inv /\ [ApiNext]_vars => Inv'
  BY SerialStep
<1>4. Serial /\ Zeroed /\ Init => Inv
  BY SerialInit
<1> HIDE DEF Inv
<1>5. Serial /\ Zeroed /\ Spec => []KeysStayUnique
  BY <1>1, <1>2, <1>4, PTL DEF Spec
<1>6. Serial /\ Zeroed /\ ApiSpec => []KeysStayUnique
  BY <1>1, <1>3, <1>4, PTL DEF ApiSpec
<1>7. QED
  BY <1>5, <1>6
=============================================================================
