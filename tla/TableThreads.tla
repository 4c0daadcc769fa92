---------------------------- MODULE TableThreads ---------------------------
(***************************************************************************)
(* Threads that work on one MemoryTable (table.rs) with no transaction     *)
(* active.  What a method does between spin_lock and spin_unlock is one    *)
(* step; what it does before the lock is taken or after it is released is  *)
(* a step of its own:                                                      *)
(*   insert   validate_constraints, then the critical section              *)
(*   update   status check and validate_constraints, then the section      *)
(*   delete   one critical section                                         *)
(*   batch_insert, time_series_batch_insert                                *)
(*            reserve slots; copy the records one by one without the lock; *)
(*            add them to record_count                                     *)
(***************************************************************************)
EXTENDS MemoryTable, Sequences

CONSTANTS Threads, MaxBatch,
          Absent  \* stands for no row in the abstract table

ASSUME MaxBatchAssumption == MaxBatch \in Nat /\ MaxBatch <= 256

ASSUME AbsentAssumption == Absent \notin Rows \cup {ZeroRow}

VARIABLES tbl,  \* the table
          pc,   \* what each thread is in the middle of
          reg   \* each thread's locals

vars == <<tbl, pc, reg>>

\* No transaction has begun.
TxIdCounter == 1

Locals ==
  [ row : Rows \cup {ZeroRow},     \* the record to write
    slot : Slots,                  \* update: the record id
    slots : Seq(Slots),            \* batch: slot_ids still to be written
    rows : Seq(Rows),              \* batch: records still to be written
    top : 0 .. MaxRecords,         \* time series: index after the next cell
    done : Nat,                    \* batch: records written, not yet counted
    max : Nat ]                    \* batch: max_records of the first section

IdleLocals ==
  [ row |-> ZeroRow, slot |-> 0, slots |-> <<>>,
    rows |-> <<>>, top |-> 0, done |-> 0, max |-> 0 ]

PCs == {"idle", "insert", "update", "batch", "ts"}

TypeOK ==
  /\ tbl \in TableType
  /\ pc \in [Threads -> PCs]
  /\ reg \in [Threads -> Locals]

Init ==
  /\ tbl \in NewTables
  /\ pc = [t \in Threads |-> "idle"]
  /\ reg = [t \in Threads |-> IdleLocals]

Goto(t, l, r) ==
  /\ pc' = [pc EXCEPT ![t] = l]
  /\ reg' = [reg EXCEPT ![t] = r]

Return(t) == Goto(t, "idle", IdleLocals)

(***************************************************************************)
(* insert                                                                  *)
(***************************************************************************)
InsertValidate(t) ==
  /\ pc[t] = "idle"
  /\ \E row \in Rows :
       /\ ~Conflict(tbl, row, {}, TxIdCounter)
       /\ Goto(t, "insert", [IdleLocals EXCEPT !.row = row])
  /\ UNCHANGED tbl

InsertLocked(t) ==
  /\ pc[t] = "insert"
  /\ \/ \E s \in InsertSlot(tbl) : tbl' = InsertRow(tbl, s, reg[t].row)
     \/ InsertSlot(tbl) = {} /\ UNCHANGED tbl   \* OutOfMemory, NoRecords...
  /\ Return(t)

(***************************************************************************)
(* update                                                                  *)
(***************************************************************************)
UpdateCheck(t) ==
  /\ pc[t] = "idle"
  /\ \E s \in Used(tbl), row \in Rows :
       /\ ~Conflict(tbl, row, {s}, TxIdCounter)
       /\ Goto(t, "update", [IdleLocals EXCEPT !.slot = s, !.row = row])
  /\ UNCHANGED tbl

UpdateLocked(t) ==
  /\ pc[t] = "update"
  /\ tbl' = UpdateRow(tbl, reg[t].slot, reg[t].row)
  /\ Return(t)

(***************************************************************************)
(* delete                                                                  *)
(***************************************************************************)
Delete(t) ==
  /\ pc[t] = "idle"
  /\ \E s \in Used(tbl) : tbl' = DeleteRow(tbl, s)
  /\ UNCHANGED <<pc, reg>>

(***************************************************************************)
(* batch_insert                                                            *)
(***************************************************************************)
BatchBegin(t) ==
  /\ pc[t] = "idle"
  /\ \E n \in 1 .. MaxBatch : \E rows \in [1 .. n -> Rows] :
       /\ BatchSize(tbl, n) # 0
       /\ tbl' = BatchReserve(tbl, n)
       /\ Goto(t, "batch", [IdleLocals EXCEPT !.slots = BatchSlots(tbl, n),
                                              !.rows = rows,
                                              !.max = EffectiveMax(tbl)])

BatchCopy(t) ==
  /\ pc[t] = "batch"
  /\ reg[t].slots # <<>>
  /\ tbl' = PutRow(tbl, Head(reg[t].slots), Head(reg[t].rows))
  /\ reg' = [reg EXCEPT ![t].slots = Tail(@), ![t].rows = Tail(@),
                        ![t].done = @ + 1]
  /\ UNCHANGED pc

BatchCount(t) ==
  /\ pc[t] = "batch"
  /\ reg[t].slots = <<>>
  /\ tbl' = BatchCounted(tbl, reg[t].max, reg[t].done)
  /\ Return(t)

(***************************************************************************)
(* time_series_batch_insert: the copies read the slot ids from the cells   *)
(* above the lowered stack top, without the lock.                          *)
(***************************************************************************)
TsBegin(t) ==
  /\ pc[t] = "idle"
  /\ \E n \in 1 .. MaxBatch : \E rows \in [1 .. n -> Rows] :
       LET m == TsSize(tbl, n)
       IN  /\ m # 0
           /\ tbl' = TsReserve(tbl, n)
           /\ Goto(t, "ts", [IdleLocals EXCEPT !.top = tbl.free_slot_count,
                                               !.rows = SubSeq(rows, 1, m)])

TsCopy(t) ==
  /\ pc[t] = "ts"
  /\ reg[t].rows # <<>>
  /\ tbl' = TsPutRow(tbl, tbl.free_slots[reg[t].top - 1], Head(reg[t].rows))
  /\ reg' = [reg EXCEPT ![t].top = @ - 1, ![t].rows = Tail(@),
                        ![t].done = @ + 1]
  /\ UNCHANGED pc

TsCount(t) ==
  /\ pc[t] = "ts"
  /\ reg[t].rows = <<>>
  /\ tbl' = [tbl EXCEPT !.record_count = @ + reg[t].done]
  /\ Return(t)

(***************************************************************************)
(* Spec: the methods that hold the lock while they touch the free stack.   *)
(* TsSpec adds time_series_batch_insert.                                   *)
(***************************************************************************)
Next ==
  \E t \in Threads :
     \/ InsertValidate(t) \/ InsertLocked(t)
     \/ UpdateCheck(t) \/ UpdateLocked(t)
     \/ Delete(t)
     \/ BatchBegin(t) \/ BatchCopy(t) \/ BatchCount(t)

TsNext == Next \/ \E t \in Threads : TsBegin(t) \/ TsCopy(t) \/ TsCount(t)

Spec == Init /\ [][Next]_vars
TsSpec == Init /\ [][TsNext]_vars

(***************************************************************************)
(* Properties                                                              *)
(***************************************************************************)
\* Slots that t has taken from the stack and not yet written.
Taken(t) ==
  {reg[t].slots[j] : j \in DOMAIN reg[t].slots} \cup
  IF pc[t] = "ts"
  THEN {tbl.free_slots[reg[t].top - k] : k \in 1 .. Len(reg[t].rows)}
  ELSE {}
InFlight == UNION {Taken(t) : t \in Threads}

\* The free stack is exact at every step of every interleaving: no slot is on
\* it twice, and a slot is on it exactly when it holds no record and no batch
\* insert has taken it.  Were it violated, insert would hand out a slot that
\* holds a record, or a free slot would be lost for good.
FreeStackExact == StackDistinct(tbl) /\ Partition(tbl, InFlight)

\* No two batches hold the same slot, and no batch holds it twice: a slot taken
\* in the first critical section of batch_insert belongs to that batch until it
\* is written.
BatchesDisjoint ==
  /\ \A t, u \in Threads : t # u => Taken(t) \cap Taken(u) = {}
  /\ \A t \in Threads : \A i, j \in DOMAIN reg[t].slots :
        reg[t].slots[i] = reg[t].slots[j] => i = j

\* The records that batches have written and not yet added to record_count,
\* each named by its thread and its number in the batch.
Written == UNION {{t} \X (1 .. reg[t].done) : t \in Threads}

\* What a client that knows only record ids and rows sees of a table.
Shown(T) ==
  [s \in Slots |-> IF T.status[s] = "Used" THEN T.data[s] ELSE Absent]

\* The table that AtomicTable describes, with the records of a batch appearing
\* one by one as they are copied.
Abstract ==
  INSTANCE AtomicTable WITH
    Ids <- Slots, Row <- Rows,
    rows <- Shown(tbl),
    count <- tbl.record_count + Cardinality(Written)

\* Every step of the lock-based table is one insert into an empty slot, one
\* update, one delete, or no change, as a client that sees only record ids and
\* rows would expect.  record_count changes by one with each of them, up to the
\* records that a batch insert has written and will add in its second critical
\* section: deletes and other inserts that run between the two sections do not
\* make it drift, also when they delete a record the batch has not yet counted.
ImplementsAtomicTable == Abstract!ASpec

=============================================================================
