--------------------------- MODULE RecoveryProofs ---------------------------
(***************************************************************************)
(* For every log file, wherever the process crashes and how often: the     *)
(* table stays consistent while commits are written, while recover replays *)
(* the log, on a new table and on a live one, and afterwards.              *)
(***************************************************************************)
EXTENDS Recovery, TransactionProofs

USE ZenonT(30)

----------------------------------------------------------------------------
(* Replaying an item keeps a table sound *)

\* The fields of a log item.
LEMMA ItemFields ==
  ASSUME NEW item \in LogItems
  PROVE  /\ item.id \in Slots /\ item.tx \in Nat
         /\ item.op \in {"Insert", "Update", "Delete"}
         /\ item.new \in Rows \cup {ZeroRow}
         /\ item.new.pk \in Pks \cup {0} /\ item.new.pk \in Nat
<1>1. /\ item.id \in Slots /\ item.tx \in Nat
      /\ item.op \in {"Insert", "Update", "Delete"}
      /\ item.new \in Rows \cup {ZeroRow}
  BY DEF LogItems
<1>2. \A r \in Rows : r.pk \in Pks
  BY DEF Rows
<1>3. ZeroRow.pk = 0
  BY DEF ZeroRow
<1>4. item.new.pk \in Pks \cup {0}
  BY <1>1, <1>2, <1>3
<1>5. Pks \cup {0} \subseteq Nat
  BY PksAssumption, SMTT(30)
<1>6. item.new.pk \in Nat
  BY <1>4, <1>5
<1>7. QED
  BY <1>1, <1>4, <1>6

\* Replaying an insert into a free slot keeps a table sound.
LEMMA RedoInsertNewSound ==
  ASSUME NEW T, Sound(T), NEW item \in LogItems, item.id \in Slots \ Used(T)
  PROVE  Sound(RedoInsertNew(T, item.id, item))
<1> DEFINE s == item.id
           M == RemoveFree(T, s)
           N == RedoInsertNew(T, s, item)
<1>1. s \in Stack(T)
  BY DEF Sound, WF, Partition
<1>2. TakeFree(T, s) = M
  BY <1>1 DEF TakeFree
<1>3. /\ M \in TableType /\ StackDistinct(M) /\ Stack(M) = Stack(T) \ {s}
      /\ M.status = T.status /\ M.record_count = T.record_count
  BY RemoveFreeEffect, SMTT(30) DEF Sound
<1>4. N = [M EXCEPT !.data[s] = item.new, !.status[s] = "Used",
                    !.version[s] = Bump(M.version[s]), !.create[s] = item.tx,
                    !.delete[s] = 0, !.record_count = M.record_count + 1,
                    !.max_pk = Larger(M.max_pk, item.new.pk)]
  BY <1>2 DEF RedoInsertNew
<1> HIDE DEF M, N
<1>5. /\ item.new \in Rows \cup {ZeroRow} /\ item.tx \in Nat
      /\ item.new.pk \in Nat
  BY ItemFields
<1>6. /\ N \in TableType
      /\ N.status = [T.status EXCEPT ![s] = "Used"]
      /\ N.free_slots = M.free_slots /\ N.free_slot_count = M.free_slot_count
      /\ N.record_count = T.record_count + 1
  <2>1. /\ [M.data EXCEPT ![s] = item.new] \in [Slots -> Rows \cup {ZeroRow}]
        /\ [M.status EXCEPT ![s] = "Used"] \in [Slots -> {"Free", "Used"}]
        /\ [M.version EXCEPT ![s] = Bump(M.version[s])]
              \in [Slots -> 0 .. VersionMod - 1]
        /\ [M.create EXCEPT ![s] = item.tx] \in [Slots -> Nat]
        /\ [M.delete EXCEPT ![s] = 0] \in [Slots -> Nat]
        /\ M.record_count + 1 \in Int
    BY <1>3, <1>5, BumpType, Fields, SMTT(30)
  <2>2. Larger(M.max_pk, item.new.pk) \in Nat
    BY <1>3, <1>5, Fields DEF Larger
  <2>3. QED
    BY <1>3, <1>4, <2>1, <2>2 DEF TableType
<1>7. T.status \in [Slots -> {"Free", "Used"}]
  BY Fields DEF Sound, WF
<1>8. Used(N) = Used(T) \cup {s}
  BY <1>6, <1>7 DEF Used
<1>9. Stack(N) = Stack(T) \ {s} /\ StackDistinct(N)
  BY <1>3, <1>6, SMTT(30) DEF Stack, StackDistinct
<1>10. Partition(N, {})
  BY <1>8, <1>9 DEF Sound, WF, Partition
<1>11. N.record_count = Cardinality(Used(N))
  BY <1>6, <1>8, CountAdd DEF Sound
<1>12. QED
  BY <1>6, <1>9, <1>10, <1>11 DEF Sound, WF, N

\* Over a used slot an insert or an update leaves status, stack and count.
LEMMA RedoInPlaceSound ==
  ASSUME NEW T, Sound(T), NEW item \in LogItems
  PROVE  /\ Sound(RedoInsertUsed(T, item.id, item))
         /\ Sound(RedoUpdate(T, item.id, item))
<1> DEFINE s == item.id
<1>1. T \in TableType
  BY DEF Sound, WF
<1>2. /\ s \in Slots /\ item.new \in Rows \cup {ZeroRow} /\ item.tx \in Nat
      /\ item.new.pk \in Nat
  BY ItemFields
<1>3. /\ [T.data EXCEPT ![s] = item.new] \in [Slots -> Rows \cup {ZeroRow}]
      /\ [T.version EXCEPT ![s] = Bump(T.version[s])]
            \in [Slots -> 0 .. VersionMod - 1]
      /\ [T.create EXCEPT ![s] = item.tx] \in [Slots -> Nat]
      /\ Larger(T.max_pk, item.new.pk) \in Nat
  BY <1>1, <1>2, BumpType, Fields DEF Larger
<1>4. ASSUME NEW N, N \in TableType, N.status = T.status,
             N.free_slots = T.free_slots,
             N.free_slot_count = T.free_slot_count,
             N.record_count = T.record_count
      PROVE  Sound(N)
  <2>1. Used(N) = Used(T) /\ Stack(N) = Stack(T) /\ StackDistinct(N)
    BY <1>4 DEF Used, Stack, StackDistinct, Sound, WF
  <2>2. QED
    BY <1>4, <2>1 DEF Sound, WF, Partition
<1>5. Sound(RedoInsertUsed(T, s, item))
  <2> DEFINE N == RedoInsertUsed(T, s, item)
  <2>1. /\ N \in TableType /\ N.status = T.status
        /\ N.free_slots = T.free_slots
        /\ N.free_slot_count = T.free_slot_count
        /\ N.record_count = T.record_count
    BY <1>1, <1>3 DEF RedoInsertUsed, TableType
  <2> HIDE DEF N
  <2>2. QED
    BY <1>4, <2>1 DEF N
<1>6. Sound(RedoUpdate(T, s, item))
  <2> DEFINE N == RedoUpdate(T, s, item)
  <2>1. /\ N \in TableType /\ N.status = T.status
        /\ N.free_slots = T.free_slots
        /\ N.free_slot_count = T.free_slot_count
        /\ N.record_count = T.record_count
    BY <1>1, <1>3 DEF RedoUpdate, TableType
  <2> HIDE DEF N
  <2>2. QED
    BY <1>4, <2>1 DEF N
<1>7. QED
  BY <1>5, <1>6

\* Replaying any item on any sound table keeps it sound.
LEMMA RedoSound ==
  ASSUME NEW T, Sound(T), NEW I \in IndexType(Pks \cup {0}, Slots),
         NEW item \in LogItems
  PROVE  /\ Sound(Redo([tbl |-> T, idx |-> I], item).tbl)
         /\ Redo([tbl |-> T, idx |-> I], item).idx
              \in IndexType(Pks \cup {0}, Slots)
<1> DEFINE s == item.id
           Keys == Pks \cup {0}
           D == [tbl |-> T, idx |-> I]
           R == Redo(D, item)
<1>1. /\ s \in Slots /\ item.new.pk \in Keys
      /\ item.op \in {"Insert", "Update", "Delete"}
  BY ItemFields
<1>2. T.status[s] \in {"Free", "Used"}
  BY <1>1, Fields DEF Sound, WF
<1>3. \A key : /\ IndexDelete(I, key) \in IndexType(Keys, Slots)
               /\ IndexInsert(IndexDelete(I, key), MaxRecords, item.new.pk, s)
                    \in IndexType(Keys, Slots)
  BY <1>1, IndexOpsType
<1>4. CASE item.op = "Insert"
  <2>1. /\ R.tbl = IF T.status[s] = "Used" THEN RedoInsertUsed(T, s, item)
                   ELSE RedoInsertNew(T, s, item)
        /\ R.idx = IndexInsert(IndexDelete(I, item.new.pk), MaxRecords,
                               item.new.pk, s)
    BY <1>4 DEF Redo
  <2>2. CASE T.status[s] = "Used"
    BY <1>3, <2>1, <2>2, RedoInPlaceSound
  <2>3. CASE T.status[s] # "Used"
    <3>1. s \in Slots \ Used(T)
      BY <1>1, <2>3 DEF Used
    <3>2. QED
      BY <1>3, <2>1, <2>3, <3>1, RedoInsertNewSound
  <2>4. QED
    BY <2>2, <2>3
<1>5. CASE item.op = "Delete" /\ T.status[s] = "Used"
  <2>1. /\ R.tbl = DeleteRow(T, s) /\ R.idx = IndexDelete(I, T.data[s].pk)
    BY <1>5 DEF Redo
  <2>2. s \in Used(T)
    BY <1>1, <1>5 DEF Used
  <2>3. QED
    BY <1>3, <2>1, <2>2, DeleteSound
<1>6. CASE item.op = "Update" /\ T.status[s] = "Used"
  <2>1. /\ R.tbl = RedoUpdate(T, s, item)
        /\ R.idx = IndexInsert(IndexDelete(I, T.data[s].pk), MaxRecords,
                               item.new.pk, s)
    BY <1>6 DEF Redo
  <2>2. QED
    BY <1>3, <2>1, RedoInPlaceSound
<1>7. CASE item.op # "Insert" /\ T.status[s] # "Used"
  <2>1. R = D
    BY <1>1, <1>7 DEF Redo
  <2>2. QED
    BY <2>1, SMTT(30)
<1>8. QED
  BY <1>1, <1>4, <1>5, <1>6, <1>7

----------------------------------------------------------------------------
(* The inductive invariant: the one of TransactionProofs and the types of  *)
(* the log and of its reader and writers.                                  *)

RInv == IInv /\ RTypeOK

\* The invariant holds in a new database.
LEMMA RInitInv == RInit => RInv
<1> SUFFICES ASSUME RInit PROVE RInv
  OBVIOUS
<1>1. IInv
  BY InitIInv DEF RInit
<1>2. wal \in Seq(LogItems)
  BY SMTT(30) DEF RInit
<1>3. flush \in [Clients -> [next : Nat \ {0}, count : 0 .. MaxLog] \cup {NoTx}]
  BY DEF RInit
<1>4. crashes \in 0 .. MaxCrashes /\ redo = NoTx
  BY CrashAssumption, SMTT(30) DEF RInit
<1>5. up \in BOOLEAN /\ lost \in BOOLEAN /\ torn \in BOOLEAN
  BY DEF RInit
<1>6. QED
  BY <1>1, <1>2, <1>3, <1>4, <1>5 DEF RInv, RTypeOK, IInv

\* The steps of Transaction, between which commit and recover do nothing.
LEMMA ClientStep ==
  ASSUME RInv, NEW c \in Clients, TxStep(c) \/ RecordStep(c) \/ CommitBegin(c)
  PROVE  RInv'
<1>1. IInv
  BY DEF RInv
<1>2. CASE TxStep(c)
  <2>1. IInv'
    BY <1>1, <1>2, BoundaryStep, UndoStep DEF TxStep
  <2>2. QED
    BY <1>2, <2>1 DEF TxStep, Unlogged, RInv, RTypeOK, IInv
<1>3. CASE RecordStep(c)
  <2>1. IInv'
    BY <1>1, <1>3, ApiStep DEF RecordStep
  <2>2. lost' \in BOOLEAN
    BY <1>3 DEF RecordStep
  <2>3. QED
    BY <1>3, <2>1, <2>2 DEF RecordStep, Unlogged, RInv, RTypeOK, IInv
<1>4. CASE CommitBegin(c)
  <2>1. IInv'
    BY <1>1, <1>4, BoundaryStep DEF CommitBegin
  <2>2. cur \in [id : Nat, owner : Clients, count : 0 .. MaxLog]
    BY <1>4 DEF CommitBegin, Commit, Owns, RInv, IInv, TypeOK
  <2>3. flush' \in [Clients -> [next : Nat \ {0}, count : 0 .. MaxLog]
                                 \cup {NoTx}]
    BY <1>4, <2>2, SMTT(30) DEF CommitBegin, RInv, RTypeOK
  <2>4. QED
    BY <1>4, <2>1, <2>3 DEF CommitBegin, Unlogged, RInv, RTypeOK, IInv
<1>5. QED
  BY <1>2, <1>3, <1>4

\* commit writes items of the log buffer.
LEMMA WriteStep ==
  ASSUME RInv, NEW c \in Clients, CommitItem(c) \/ CommitFails(c) \/ CommitEnd(c)
  PROVE  RInv'
<1> DEFINE F == [next : Nat \ {0}, count : 0 .. MaxLog]
<1>1. IInv'
  <2>1. UNCHANGED vars
    BY DEF CommitItem, CommitFails, CommitEnd
  <2>2. QED
    BY <2>1 DEF RInv, IInv, TypeOK, vars
<1>2. flush \in [Clients -> F \cup {NoTx}] /\ flush[c] # NoTx
  BY DEF RInv, RTypeOK, CommitItem, CommitFails, CommitEnd
<1>3. flush[c] \in F
  BY <1>2
<1>4. CASE CommitItem(c)
  <2>1. flush[c].next \in 1 .. MaxLog
    BY <1>3, <1>4, TxAssumption, SMTT(30) DEF CommitItem
  <2>2. buf[flush[c].next] \in LogItems
    BY <2>1 DEF RInv, IInv, TypeOK
  <2>3. wal' \in Seq(LogItems)
    BY <1>4, <2>2, SMTT(30) DEF CommitItem, RInv, RTypeOK
  <2>4. flush' \in [Clients -> F \cup {NoTx}]
    <3>1. flush' = [flush EXCEPT ![c] = [flush[c] EXCEPT
                                            !.next = flush[c].next + 1]]
      BY <1>4 DEF CommitItem
    <3>2. [flush[c] EXCEPT !.next = flush[c].next + 1] \in F
      BY <1>3, SMTT(30)
    <3>3. QED
      BY <1>2, <3>1, <3>2
  <2>5. QED
    BY <1>1, <1>4, <2>3, <2>4 DEF CommitItem, RInv, RTypeOK, IInv
<1>5. CASE CommitFails(c) \/ CommitEnd(c)
  <2>1. flush' = [flush EXCEPT ![c] = NoTx]
    BY <1>5 DEF CommitFails, CommitEnd
  <2>2. flush' \in [Clients -> F \cup {NoTx}]
    BY <1>2, <2>1
  <2>3. QED
    BY <1>1, <1>5, <2>2 DEF CommitFails, CommitEnd, RInv, RTypeOK, IInv
<1>6. QED
  BY <1>4, <1>5

\* A crash keeps only the log.
LEMMA CrashStep == RInv /\ Crash => RInv'
<1> SUFFICES ASSUME RInv, Crash PROVE RInv'
  OBVIOUS
<1>1. Sound(tbl')
  BY FreshSound DEF Crash
<1>2. tbl' \in TableType
  BY <1>1 DEF Sound, WF
<1>3. idx' \in IndexType(Pks \cup {0}, Slots)
  BY SMTT(30) DEF Crash, NewIndex, IndexType
<1>4. IInv'
  BY <1>1, <1>2, <1>3, NoItemType DEF Crash, RInv, IInv, TypeOK
<1>5. torn' \in BOOLEAN /\ crashes' \in 0 .. MaxCrashes
  BY CrashAssumption, SMTT(30) DEF Crash, RInv, RTypeOK
<1>6. QED
  BY <1>4, <1>5 DEF Crash, RInv, RTypeOK, IInv

\* recover applies an item that was written.
LEMMA RecoverStep ==
  RInv /\ (RecoverBegin \/ RecoverItem \/ RecoverEnd) => RInv'
<1>1. ASSUME RInv, RecoverBegin \/ RecoverEnd PROVE RInv'
  <2>1. UNCHANGED vars
    BY <1>1 DEF RecoverBegin, RecoverEnd
  <2>2. IInv'
    BY <1>1, <2>1 DEF RInv, IInv, TypeOK, vars
  <2>3. redo' \in (Nat \ {0}) \cup {NoTx} /\ up' \in BOOLEAN
    <3>1. redo' = 1 \/ redo' = NoTx
      BY <1>1 DEF RecoverBegin, RecoverEnd
    <3>2. up' = up \/ up' = TRUE
      BY <1>1 DEF RecoverBegin, RecoverEnd
    <3>3. up \in BOOLEAN
      BY <1>1 DEF RInv, RTypeOK
    <3>4. redo' \in (Nat \ {0}) \cup {NoTx}
      BY <3>1, SMTT(30)
    <3>5. up' \in BOOLEAN
      BY <3>2, <3>3
    <3>6. QED
      BY <3>4, <3>5
  <2>4. UNCHANGED <<wal, flush, crashes, lost, torn>>
    BY <1>1 DEF RecoverBegin, RecoverEnd
  <2>5. QED
    BY <1>1, <2>2, <2>3, <2>4 DEF RInv, RTypeOK, IInv
<1>2. ASSUME RInv, RecoverItem PROVE RInv'
  <2>1. redo \in Nat /\ redo <= Len(wal) /\ wal \in Seq(LogItems)
    BY <1>2 DEF RecoverItem, RInv, RTypeOK
  <2>2. redo # 0
    BY <1>2 DEF RecoverItem, RInv, RTypeOK
  <2>3. wal[redo] \in LogItems
    BY <2>1, <2>2, SMTT(30)
  <2>4. Sound(tbl') /\ idx' \in IndexType(Pks \cup {0}, Slots)
    BY <1>2, <2>3, RedoSound DEF RecoverItem, RInv, IInv, TypeOK
  <2>5. tbl' \in TableType
    BY <2>4 DEF Sound, WF
  <2>6. IInv'
    BY <1>2, <2>4, <2>5 DEF RecoverItem, RInv, IInv, TypeOK
  <2>7. redo' \in (Nat \ {0}) \cup {NoTx}
    BY <1>2, <2>1, SMTT(30) DEF RecoverItem
  <2>8. QED
    BY <1>2, <2>6, <2>7 DEF RecoverItem, RInv, RTypeOK, IInv
<1>3. QED
  BY <1>1, <1>2

\* Commits, crashes and replays keep the invariant.
LEMMA RStepInv == RInv /\ [RNext]_rvars => RInv'
<1>1. ASSUME RInv, UNCHANGED rvars PROVE RInv'
  BY <1>1 DEF rvars, vars, RInv, RTypeOK, IInv, TypeOK
<1>2. ASSUME RInv, RNext PROVE RInv'
  BY <1>2, ClientStep, WriteStep, CrashStep, RecoverStep DEF RNext
<1>3. QED
  BY <1>1, <1>2

\* Type correctness of the log, of the commits that write it and of the state
\* that a crash and a recovery leave.
THEOREM RecoveryTypes == RSpec => []RTypeOK
<1>1. RInv => RTypeOK
  BY DEF RInv
<1>2. QED
  BY <1>1, RInitInv, RStepInv, PTL DEF RSpec

\* The free stack is exact and record_count is the number of records at every
\* point of every recovery, and whatever clients do on the recovered table.
THEOREM RecoveryKeepsTable == RSpec => []TableConsistent
<1>1. RInv => TableConsistent
  BY DEF RInv, IInv, Sound, WF, TableConsistent
<1>2. QED
  BY <1>1, RInitInv, RStepInv, PTL DEF RSpec

----------------------------------------------------------------------------
(* What replaying an item does to the records *)

\* What replaying an insert into a free slot changes: that slot and its header.
LEMMA RedoInsertNewEffect ==
  ASSUME NEW T, Sound(T), NEW item \in LogItems, item.id \in Slots \ Used(T)
  PROVE  LET N == RedoInsertNew(T, item.id, item)
         IN  /\ N.status = [T.status EXCEPT ![item.id] = "Used"]
             /\ N.data = [T.data EXCEPT ![item.id] = item.new]
             /\ N.create = [T.create EXCEPT ![item.id] = item.tx]
             /\ N.delete = [T.delete EXCEPT ![item.id] = 0]
             /\ N.low_power_mode = T.low_power_mode
<1> DEFINE s == item.id
           M == RemoveFree(T, s)
           N == RedoInsertNew(T, s, item)
<1>1. s \in Stack(T) /\ T \in TableType
  BY DEF Sound, WF, Partition
<1>2. TakeFree(T, s) = M
  BY <1>1 DEF TakeFree
<1>3. /\ M \in TableType /\ M.status = T.status
      /\ M.low_power_mode = T.low_power_mode
  BY RemoveFreeEffect DEF Sound
<1>4. M.data = T.data /\ M.create = T.create /\ M.delete = T.delete
  BY <1>1 DEF RemoveFree, TableType
<1>5. N = [M EXCEPT !.data[s] = item.new, !.status[s] = "Used",
                    !.version[s] = Bump(M.version[s]), !.create[s] = item.tx,
                    !.delete[s] = 0, !.record_count = M.record_count + 1,
                    !.max_pk = Larger(M.max_pk, item.new.pk)]
  BY <1>2 DEF RedoInsertNew
<1> HIDE DEF M, N
<1>6. /\ N.status = [M.status EXCEPT ![s] = "Used"]
      /\ N.data = [M.data EXCEPT ![s] = item.new]
      /\ N.create = [M.create EXCEPT ![s] = item.tx]
      /\ N.delete = [M.delete EXCEPT ![s] = 0]
      /\ N.low_power_mode = M.low_power_mode
  BY <1>3, <1>5 DEF TableType
<1>7. QED
  BY <1>3, <1>4, <1>6 DEF N

\* An insert and an update write the row of the item, a delete frees the slot;
\* an update of a free slot does nothing.  No other slot changes.
LEMMA RedoEffect ==
  ASSUME NEW T, Sound(T), NEW I, NEW item \in LogItems
  PROVE  LET N == Redo([tbl |-> T, idx |-> I], item).tbl
         IN  /\ item.op = "Insert" \/ (item.op = "Update" /\ item.id \in Used(T))
                  => Used(N) = Used(T) \cup {item.id} /\ N.data[item.id] = item.new
             /\ item.op = "Delete" => Used(N) = Used(T) \ {item.id}
             /\ \A u \in Slots \ {item.id} : N.data[u] = T.data[u]
             /\ \A u \in Slots : /\ N.create[u] \in {T.create[u], item.tx}
                                 /\ N.delete[u] \in {T.delete[u], 0}
             /\ N.low_power_mode = T.low_power_mode
<1> DEFINE s == item.id
           D == [tbl |-> T, idx |-> I]
           N == Redo(D, item).tbl
<1>1. /\ s \in Slots /\ item.op \in {"Insert", "Update", "Delete"}
      /\ T \in TableType /\ T.data \in [Slots -> Rows \cup {ZeroRow}]
      /\ T.create \in [Slots -> Nat] /\ T.delete \in [Slots -> Nat]
      /\ T.status \in [Slots -> {"Free", "Used"}]
  BY ItemFields, Fields DEF Sound, WF
<1>2. (s \in Used(T)) <=> (T.status[s] = "Used")
  BY <1>1 DEF Used
<1>3. CASE item.op = "Insert" /\ s \notin Used(T)
  <2>1. N = RedoInsertNew(T, s, item)
    BY <1>2, <1>3 DEF Redo
  <2>2. LET R == RedoInsertNew(T, s, item)
        IN  /\ R.status = [T.status EXCEPT ![s] = "Used"]
            /\ R.data = [T.data EXCEPT ![s] = item.new]
            /\ R.create = [T.create EXCEPT ![s] = item.tx]
            /\ R.delete = [T.delete EXCEPT ![s] = 0]
            /\ R.low_power_mode = T.low_power_mode
    BY <1>1, <1>3, RedoInsertNewEffect
  <2> HIDE DEF N
  <2>3. /\ N.status = [T.status EXCEPT ![s] = "Used"]
        /\ N.data = [T.data EXCEPT ![s] = item.new]
        /\ N.create = [T.create EXCEPT ![s] = item.tx]
        /\ N.delete = [T.delete EXCEPT ![s] = 0]
        /\ N.low_power_mode = T.low_power_mode
    BY <2>1, <2>2
  <2>4. Used(N) = Used(T) \cup {s}
    BY <1>1, <2>3, SMTT(30) DEF Used
  <2>5. QED
    BY <1>1, <1>3, <2>3, <2>4 DEF N
<1>4. CASE item.op \in {"Insert", "Update"} /\ s \in Used(T)
  <2>1. N = RedoInsertUsed(T, s, item) \/ N = RedoUpdate(T, s, item)
    BY <1>2, <1>4 DEF Redo
  <2> HIDE DEF N
  <2>2. /\ N.status = T.status /\ N.data = [T.data EXCEPT ![s] = item.new]
        /\ N.create = [T.create EXCEPT ![s] = item.tx]
        /\ N.delete = T.delete /\ N.low_power_mode = T.low_power_mode
    <3>1. CASE N = RedoInsertUsed(T, s, item)
      BY <1>1, <3>1 DEF RedoInsertUsed, TableType
    <3>2. CASE N = RedoUpdate(T, s, item)
      BY <1>1, <3>2 DEF RedoUpdate, TableType
    <3>3. QED
      BY <2>1, <3>1, <3>2
  <2>3. Used(N) = Used(T) \cup {s}
    BY <1>1, <1>4, <2>2 DEF Used
  <2>4. QED
    BY <1>1, <1>4, <2>2, <2>3 DEF N
<1>5. CASE item.op = "Delete" /\ s \in Used(T)
  <2>1. N = DeleteRow(T, s)
    BY <1>2, <1>5 DEF Redo
  <2>2. LET R == DeleteRow(T, s)
        IN  /\ Used(R) = Used(T) \ {s} /\ R.data = [T.data EXCEPT ![s] = ZeroRow]
            /\ R.create = T.create /\ R.delete = T.delete
            /\ R.low_power_mode = T.low_power_mode
    BY <1>5, DeleteEffect
  <2> HIDE DEF N
  <2>3. /\ Used(N) = Used(T) \ {s} /\ N.data = [T.data EXCEPT ![s] = ZeroRow]
        /\ N.create = T.create /\ N.delete = T.delete
        /\ N.low_power_mode = T.low_power_mode
    BY <2>1, <2>2
  <2>4. QED
    BY <1>1, <1>5, <2>3 DEF N
<1>6. CASE item.op # "Insert" /\ s \notin Used(T)
  <2>1. N = T
    BY <1>1, <1>2, <1>6 DEF Redo
  <2> HIDE DEF N
  <2>2. item.op = "Delete" => Used(N) = Used(T) \ {s}
    BY <1>6, <2>1
  <2>3. QED
    BY <1>1, <1>6, <2>1, <2>2 DEF N
<1>7. QED
  BY <1>1, <1>3, <1>4, <1>5, <1>6

\* A new table has no records and its index no items.
Empty == [s \in {} |-> ZeroRow]

\* The content of a table without records.
LEMMA EmptyContent ==
  /\ Empty \in Contents /\ DOMAIN Empty = {} /\ Distinct(Empty)
  /\ \A T \in TableType : Used(T) = {} => Content(T) = Empty
<1>1. DOMAIN Empty = {} /\ Empty \in [{} -> Rows \cup {ZeroRow}]
  BY DEF Empty
<1>2. Empty \in Contents
  BY <1>1 DEF Contents
<1>3. ASSUME NEW T \in TableType, Used(T) = {} PROVE Content(T) = Empty
  <2>1. Content(T) \in Contents /\ DOMAIN Content(T) = {}
    BY <1>3, ContentType
  <2>2. QED
    BY <1>1, <1>2, <2>1, ContentsEqual
<1>4. QED
  BY <1>1, <1>2, <1>3 DEF Distinct

\* The empty index is exact for it.
LEMMA EmptyExact == Exact(<<>>, Empty)
<1>1. Len(<<>>) = 0 /\ DOMAIN <<>> = {}
  BY SMTT(30)
<1>2. Cardinality({}) = 0
  BY FS_EmptySet
<1>3. QED
  BY <1>1, <1>2, EmptyContent DEF Exact

\* On the content that the item was logged on, replaying it is its operation.
LEMMA RedoFollows ==
  ASSUME NEW T, Sound(T), NEW I, NEW item \in LogItems, NEW e, NEW g,
         e = Content(T), Leads(item, e, g),
         Sound(Redo([tbl |-> T, idx |-> I], item).tbl)
  PROVE  Content(Redo([tbl |-> T, idx |-> I], item).tbl) = g
<1> DEFINE N == Redo([tbl |-> T, idx |-> I], item).tbl
<1>1. T \in TableType /\ N \in TableType
  BY DEF Sound, WF
<1>2. /\ item.op = "Insert" \/ (item.op = "Update" /\ item.id \in Used(T))
           => Used(N) = Used(T) \cup {item.id} /\ N.data[item.id] = item.new
      /\ item.op = "Delete" => Used(N) = Used(T) \ {item.id}
      /\ \A u \in Slots \ {item.id} : N.data[u] = T.data[u]
  BY RedoEffect, SMTT(30)
<1> HIDE DEF N
<1>3. item.op \in {"Insert", "Update", "Delete"}
  BY ItemFields
<1>4. (item.op = "Insert") <=> (item.id \notin Used(T))
  BY <1>1, ContentType DEF Leads, Records
<1>5. /\ Used(N) = IF item.op = "Delete" THEN Used(T) \ {item.id}
                   ELSE Used(T) \cup {item.id}
      /\ item.op # "Delete" => N.data[item.id] = item.new
  BY <1>2, <1>3, <1>4
<1>6. Content(N) = After(item, Content(T))
  BY <1>1, <1>2, <1>5, ContentAfter
<1>7. QED
  BY <1>6 DEF Leads, N

\* The slots that the first r items of the log B name.
Touched(B, r) == {B[i].id : i \in 1 .. r}

\* The slots that the first r items of a log name.
LEMMA TouchedNext ==
  ASSUME NEW B, NEW r \in Nat
  PROVE  /\ Touched(B, 0) = {}
         /\ Touched(B, r + 1) = Touched(B, r) \cup {B[r + 1].id}
<1>1. 1 .. 0 = {} /\ 1 .. r + 1 = (1 .. r) \cup {r + 1}
  BY SMTT(30)
<1>2. QED
  BY <1>1 DEF Touched

\* Content f is that of a table, new or with content W, on which a part of the
\* log that leads to content e has been replayed: the slots M that it names are
\* as in e, the others hold no record that is not in W.
Replaying(M, e, W, f) ==
  \A s \in Slots :
     /\ s \in M => /\ (s \in DOMAIN f) <=> (s \in DOMAIN e)
                   /\ s \in DOMAIN e => f[s] = e[s]
     /\ s \notin M => /\ s \notin DOMAIN e
                      /\ s \in DOMAIN f => s \in DOMAIN W

\* Replaying an item takes a replay one content further.
LEMMA RedoReplays ==
  ASSUME NEW T, Sound(T), NEW I, NEW item \in LogItems, NEW e, NEW g,
         Leads(item, e, g), NEW M, NEW W, Replaying(M, e, W, Content(T)),
         Sound(Redo([tbl |-> T, idx |-> I], item).tbl)
  PROVE  Replaying(M \cup {item.id}, g, W,
                   Content(Redo([tbl |-> T, idx |-> I], item).tbl))
<1> DEFINE N == Redo([tbl |-> T, idx |-> I], item).tbl
           f == Content(T)
           h == Content(N)
           s == item.id
<1>1. T \in TableType /\ N \in TableType
  BY DEF Sound, WF
<1>2. /\ item.op = "Insert" \/ (item.op = "Update" /\ s \in Used(T))
           => Used(N) = Used(T) \cup {s} /\ N.data[s] = item.new
      /\ item.op = "Delete" => Used(N) = Used(T) \ {s}
      /\ \A u \in Slots \ {s} : N.data[u] = T.data[u]
  BY RedoEffect, SMTT(30)
<1> HIDE DEF N
<1>3. item.op \in {"Insert", "Update", "Delete"} /\ s \in Slots
  BY ItemFields
<1>4. /\ DOMAIN f = Used(T) /\ \A u \in Used(T) : f[u] = T.data[u]
      /\ DOMAIN h = Used(N) /\ \A u \in Used(N) : h[u] = N.data[u]
      /\ Used(T) \subseteq Slots /\ Used(N) \subseteq Slots
  BY <1>1, ContentType
<1>5. /\ (item.op = "Insert") <=> (s \notin DOMAIN e)
      /\ DOMAIN g = IF item.op = "Delete" THEN DOMAIN e \ {s}
                    ELSE DOMAIN e \cup {s}
      /\ \A u \in DOMAIN g : g[u] = IF u = s THEN item.new ELSE e[u]
  BY DEF Leads, Records, After
<1>6. Replaying(M, e, W, f)
  OBVIOUS
<1> HIDE DEF f, h
<1>7. item.op = "Update" => s \in Used(T)
  BY <1>3, <1>4, <1>5, <1>6 DEF Replaying
<1>8. ASSUME NEW u \in Slots
      PROVE  /\ u \in M \cup {s} => /\ (u \in DOMAIN h) <=> (u \in DOMAIN g)
                                    /\ u \in DOMAIN g => h[u] = g[u]
             /\ u \notin M \cup {s} => /\ u \notin DOMAIN g
                                       /\ u \in DOMAIN h => u \in DOMAIN W
  <2>1. CASE u = s
    BY <1>2, <1>3, <1>4, <1>5, <1>7, <2>1
  <2>2. CASE u # s
    <3>1. (u \in DOMAIN h) <=> (u \in DOMAIN f)
      BY <1>2, <1>3, <1>4, <1>7, <2>2
    <3>2. u \in DOMAIN f => h[u] = f[u]
      BY <1>2, <1>4, <2>2, <3>1
    <3>3. (u \in DOMAIN g) <=> (u \in DOMAIN e)
      BY <1>5, <2>2
    <3>4. u \in DOMAIN e => g[u] = e[u]
      BY <1>5, <2>2, <3>3
    <3>5. QED
      BY <1>6, <2>2, <3>1, <3>2, <3>3, <3>4 DEF Replaying
  <2>3. QED
    BY <2>1, <2>2
<1>9. QED
  BY <1>8 DEF Replaying, f, h, N

\* At the end of the log the table is what the log leads to.
LEMMA ReplayingEnds ==
  ASSUME NEW W \in Contents, NEW f \in Contents, NEW M, Replaying(M, W, W, f)
  PROVE  f = W
<1>1. DOMAIN f \subseteq Slots /\ DOMAIN W \subseteq Slots
  BY ContentsDomain
<1>2. DOMAIN f = DOMAIN W
  BY <1>1 DEF Replaying
<1>3. \A s \in DOMAIN f : f[s] = W[s]
  BY <1>1, <1>2 DEF Replaying
<1>4. QED
  BY <1>2, <1>3, ContentsEqual

\* Replaying an item on the content that it was logged on keeps the index in
\* step with the records: the key that an insert looks for first is not there.
LEMMA RedoIndex ==
  ASSUME NEW T, Sound(T), NEW I \in Index, NEW item \in LogItems,
         NEW e \in Contents, NEW g \in Contents, e = Content(T),
         Leads(item, e, g), Distinct(g), Exact(I, e)
  PROVE  Exact(Redo([tbl |-> T, idx |-> I], item).idx, g)
<1> DEFINE D == [tbl |-> T, idx |-> I]
           J == Redo(D, item).idx
           s == item.id
<1>1. /\ item.op \in {"Insert", "Update", "Delete"} /\ s \in Slots
      /\ item.new.pk \in Pks \cup {0} /\ T \in TableType
  BY ItemFields DEF Sound, WF
<1>2. DOMAIN e = Used(T) /\ \A u \in Used(T) : e[u] = T.data[u]
  BY <1>1, ContentType
<1>3. /\ (item.op = "Insert") <=> (s \notin DOMAIN e)
      /\ DOMAIN g = IF item.op = "Delete" THEN DOMAIN e \ {s}
                    ELSE DOMAIN e \cup {s}
      /\ \A u \in DOMAIN g : g[u] = IF u = s THEN item.new ELSE e[u]
  BY DEF Leads, Records, After
<1>4. (s \in DOMAIN e) <=> (T.status[s] = "Used")
  BY <1>1, <1>2 DEF Used
<1>5. ASSUME item.op # "Delete", NEW u \in DOMAIN e, u # s
      PROVE  e[u].pk # g[s].pk
  BY <1>3, <1>5 DEF Distinct, Clash
<1>6. CASE item.op = "Insert"
  <2>1. J = IndexInsert(IndexDelete(I, item.new.pk), MaxRecords, item.new.pk, s)
    BY <1>6 DEF Redo
  <2>2. g[s] = item.new /\ s \in DOMAIN g /\ s \notin DOMAIN e
    BY <1>3, <1>6
  <2>3. \A u \in DOMAIN e : e[u].pk # g[s].pk
    BY <1>5, <1>6, <2>2
  <2>4. ~HasKey(I, item.new.pk)
    BY <2>2, <2>3, SMTT(30) DEF HasKey, Exact
  <2>5. J = IndexInsert(I, MaxRecords, g[s].pk, s)
    BY <2>1, <2>2, <2>4 DEF IndexDelete
  <2>6. /\ DOMAIN g = DOMAIN e \cup {s} /\ \A u \in DOMAIN e : g[u] = e[u]
        /\ g[s].pk \in Pks \cup {0}
    BY <1>1, <1>3, <1>6, <2>2
  <2> HIDE DEF J
  <2>7. Exact(J, g)
    BY <1>1, <2>2, <2>3, <2>5, <2>6, ExactInsert
  <2>8. QED
    BY <2>7 DEF J
<1>7. CASE item.op = "Delete"
  <2>1. J = IndexDelete(I, e[s].pk) /\ s \in DOMAIN e
    BY <1>2, <1>3, <1>4, <1>7 DEF Redo
  <2>2. DOMAIN g = DOMAIN e \ {s} /\ \A u \in DOMAIN g : g[u] = e[u]
    BY <1>3, <1>7
  <2> HIDE DEF J
  <2>3. Exact(J, g)
    BY <2>1, <2>2, ExactDelete
  <2>4. QED
    BY <2>3 DEF J
<1>8. CASE item.op = "Update"
  <2> DEFINE m == [u \in DOMAIN e \ {s} |-> e[u]]
             L == IndexDelete(I, e[s].pk)
  <2>1. /\ s \in DOMAIN e /\ s \in DOMAIN g /\ g[s] = item.new
        /\ J = IndexInsert(L, MaxRecords, g[s].pk, s)
    BY <1>2, <1>3, <1>4, <1>8 DEF Redo
  <2> HIDE DEF J
  <2>2. m \in Contents
    BY ContentWithout
  <2>3. DOMAIN m = DOMAIN e \ {s} /\ \A u \in DOMAIN m : m[u] = e[u]
    OBVIOUS
  <2> HIDE DEF m
  <2>4. L \in Index /\ Exact(L, m)
    BY <2>1, <2>3, ExactDelete
  <2> HIDE DEF L
  <2>5. /\ DOMAIN g = DOMAIN m \cup {s} /\ \A u \in DOMAIN m : g[u] = m[u]
        /\ \A u \in DOMAIN m : m[u].pk # g[s].pk
        /\ s \notin DOMAIN m /\ g[s].pk \in Pks \cup {0}
    BY <1>1, <1>3, <1>5, <1>8, <2>1, <2>3
  <2>6. Exact(J, g)
    BY <1>1, <2>1, <2>2, <2>4, <2>5, ExactInsert
  <2>7. QED
    BY <2>6 DEF J
<1>9. QED
  BY <1>1, <1>6, <1>7, <1>8

----------------------------------------------------------------------------
(* Histories of the log *)

\* A history without its first item.
LEMMA TraceForward ==
  ASSUME NEW C, NEW B, NEW m \in Nat, NEW n \in Nat, m < n, NEW f, NEW g,
         Trace(C, B, m, n, f, g)
  PROVE  \E e \in C : Trace(C, B, m + 1, n, e, g) /\ Leads(B[m + 1], f, e)
<1>1. PICK h \in [m .. n -> C] :
             /\ h[m] = f /\ h[n] = g
             /\ \A i \in m + 1 .. n : Leads(B[i], h[i - 1], h[i])
  BY DEF Trace
<1> DEFINE l == m + 1
           k == [i \in l .. n |-> h[i]]
<1>2. /\ \A i \in l .. n : i \in m .. n
      /\ \A i \in l + 1 .. n : /\ i \in m + 1 .. n /\ i \in l .. n
                               /\ i - 1 \in l .. n
      /\ l \in l .. n /\ n \in l .. n /\ l \in m + 1 .. n /\ l \in m .. n
      /\ l - 1 = m
  BY SMTT(30)
<1>3. k \in [l .. n -> C] /\ \A i \in l .. n : k[i] = h[i]
  BY <1>1, <1>2
<1> HIDE DEF k, l
<1>4. /\ \A i \in l + 1 .. n : Leads(B[i], k[i - 1], k[i])
      /\ k[l] = h[l] /\ k[n] = g
  BY <1>1, <1>2, <1>3
<1>5. Trace(C, B, l, n, h[l], g)
  BY <1>3, <1>4 DEF Trace
<1>6. Leads(B[l], f, h[l]) /\ h[l] \in C
  BY <1>1, <1>2
<1>7. QED
  BY <1>5, <1>6 DEF l

\* A history through fewer contents is one through more.
LEMMA TraceWeaken ==
  ASSUME NEW C, NEW E, C \subseteq E, NEW B, NEW m, NEW n, NEW f, NEW g,
         Trace(C, B, m, n, f, g)
  PROVE  Trace(E, B, m, n, f, g)
<1>1. PICK h \in [m .. n -> C] :
             /\ h[m] = f /\ h[n] = g
             /\ \A i \in m + 1 .. n : Leads(B[i], h[i - 1], h[i])
  BY DEF Trace
<1>2. h \in [m .. n -> E]
  OBVIOUS
<1>3. QED
  BY <1>1, <1>2 DEF Trace

----------------------------------------------------------------------------
(* One client: the phases of its calls, of commit and of recover *)

\* Transactions, commits, rollbacks and recoveries do not overlap.
Phases ==
  /\ ~up \/ redo # NoTx => /\ cur = NoTx
                           /\ \A c \in Clients : undo[c] = NoTx /\ flush[c] = NoTx
  /\ \A c \in Clients : flush[c] # NoTx =>
       /\ flush[c].next <= flush[c].count + 1
       /\ cur = NoTx /\ undo[c] = NoTx
  /\ redo # NoTx => redo <= Len(wal) + 1
  /\ dropped => lost

PhasedInv == RInv /\ SerialInv(FALSE) /\ Phases

\* The steps of a client that do not write the log file keep the invariant of
\* transactions.
LEMMA SerialClient ==
  ASSUME NEW K \in BOOLEAN, SerialInv(K), NEW c \in Clients,
         TxStep(c) \/ RecordStep(c) \/ CommitBegin(c)
  PROVE  SerialInv(K)'
<1>1. CASE TxStep(c)
  BY <1>1, SerialBegin, SerialEnd, SerialUndo DEF TxStep
<1>2. CASE RecordStep(c)
  BY <1>2, SerialApi DEF RecordStep
<1>3. CASE CommitBegin(c)
  BY <1>3, SerialEnd DEF CommitBegin
<1>4. QED
  BY <1>1, <1>2, <1>3

\* The phases of a new database.
LEMMA PhasedInit == Serial /\ RInit => PhasedInv
<1> SUFFICES ASSUME Serial, RInit PROVE PhasedInv
  OBVIOUS
<1>1. RInv
  BY RInitInv
<1>2. SerialInv(FALSE)
  BY SerialInit DEF RInit
<1>3. Phases
  BY DEF Phases, RInit, Init
<1>4. QED
  BY <1>1, <1>2, <1>3 DEF PhasedInv

\* Steps of a client between writes of the log file keep the phases.
LEMMA PhasedClient ==
  ASSUME PhasedInv, NEW c \in Clients,
         TxStep(c) \/ RecordStep(c) \/ CommitBegin(c)
  PROVE  PhasedInv'
<1>1. RInv' /\ SerialInv(FALSE)'
  BY ClientStep, SerialClient DEF PhasedInv
<1>2. \A d \in Clients : d = c
  BY DEF PhasedInv, SerialInv, Serial
<1>3. /\ up /\ redo = NoTx /\ flush[c] = NoTx
      /\ up' = up /\ redo' = redo /\ wal' = wal
  BY DEF TxStep, RecordStep, CommitBegin, Idle, Unlogged
<1>4. flush \in [Clients -> [next : Nat \ {0}, count : 0 .. MaxLog] \cup {NoTx}]
  BY DEF PhasedInv, RInv, RTypeOK
<1>5. CASE TxStep(c)
  <2>1. flush' = flush /\ lost' = lost /\ dropped' = dropped
    BY <1>5 DEF TxStep, Begin, RollbackBegin, UndoNext, RollbackEnd
  <2>2. Phases'
    BY <1>2, <1>3, <2>1 DEF PhasedInv, Phases
  <2>3. QED
    BY <1>1, <2>2 DEF PhasedInv
<1>6. CASE RecordStep(c)
  <2>1. flush' = flush /\ lost' = (lost \/ dropped' \/ cur = NoTx)
    BY <1>6 DEF RecordStep
  <2>2. Phases'
    BY <1>2, <1>3, <2>1 DEF Phases
  <2>3. QED
    BY <1>1, <2>2 DEF PhasedInv
<1>7. CASE CommitBegin(c)
  <2>1. /\ flush' = [flush EXCEPT ![c] = [next |-> 1, count |-> cur.count]]
        /\ cur' = NoTx /\ undo' = undo /\ undo[c] = NoTx
        /\ lost' = lost /\ dropped' = dropped /\ cur.count \in Nat
    BY <1>7, SMTT(30) DEF CommitBegin, Commit, Ready, Owns, PhasedInv, RInv, IInv, TypeOK
  <2>2. flush'[c].next = 1 /\ flush'[c].count = cur.count
    BY <1>4, <2>1
  <2>3. Phases'
    BY <1>2, <1>3, <2>1, <2>2, SMTT(30) DEF PhasedInv, Phases
  <2>4. QED
    BY <1>1, <2>3 DEF PhasedInv
<1>8. QED
  BY <1>5, <1>6, <1>7

\* Writing a commit to the log file keeps the phases.
LEMMA PhasedWrite ==
  ASSUME PhasedInv, NEW c \in Clients,
         CommitItem(c) \/ CommitFails(c) \/ CommitEnd(c)
  PROVE  PhasedInv'
<1>1. RInv'
  BY WriteStep DEF PhasedInv
<1>2. UNCHANGED vars
  BY DEF CommitItem, CommitFails, CommitEnd
<1>3. SerialInv(FALSE)'
  BY <1>2, SerialStutter DEF PhasedInv
<1>4. cur' = cur /\ undo' = undo /\ dropped' = dropped
  BY <1>2 DEF vars
<1>5. /\ flush[c] # NoTx /\ up' = up /\ redo' = redo
      /\ lost => lost'
  BY SMTT(30) DEF CommitItem, CommitFails, CommitEnd
<1>6. up /\ redo = NoTx /\ cur = NoTx /\ undo[c] = NoTx
  BY <1>5 DEF PhasedInv, Phases
<1>7. \A d \in Clients : d = c
  BY DEF PhasedInv, SerialInv, Serial
<1>8. flush \in [Clients -> [next : Nat \ {0}, count : 0 .. MaxLog] \cup {NoTx}]
  BY DEF PhasedInv, RInv, RTypeOK
<1>9. flush'[c] # NoTx => flush'[c].next <= flush'[c].count + 1
  <2>1. CASE CommitItem(c)
    <3>1. flush[c].next \in Nat /\ flush[c].count \in Nat
      BY <1>5, <1>8, SMTT(30)
    <3>2. /\ flush'[c].next = flush[c].next + 1
          /\ flush'[c].count = flush[c].count
          /\ flush[c].next <= flush[c].count
      BY <1>5, <1>8, <2>1 DEF CommitItem
    <3>3. QED
      BY <3>1, <3>2, SMTT(30)
  <2>2. CASE ~CommitItem(c)
    BY <1>8, <2>2 DEF CommitFails, CommitEnd
  <2>3. QED
    BY <2>1, <2>2
<1>10. Phases'
  BY <1>4, <1>5, <1>6, <1>7, <1>9 DEF PhasedInv, Phases
<1>11. QED
  BY <1>1, <1>3, <1>10 DEF PhasedInv

\* A table that was just created.
LEMMA NewTableEmpty ==
  ASSUME NEW T \in NewTables, NEW on \in PowerModes, Serial
  PROVE  LET N == SetLowPowerMode(T, on)
         IN  /\ N \in TableType /\ Used(N) = {} /\ Content(N) = Empty
             /\ N.low_power_mode = FALSE
<1> DEFINE N == SetLowPowerMode(T, on)
<1>1. T \in TableType /\ Used(T) = {}
  BY NewTableWF DEF WF
<1>2. on = FALSE
  BY DEF Serial
<1>3. N.low_power_mode = FALSE /\ N.status = T.status
  BY <1>1, <1>2 DEF SetLowPowerMode, TableType
<1>4. Used(N) = {}
  BY <1>1, <1>3 DEF Used
<1>5. N \in TableType
  BY FreshSound DEF Sound, WF
<1> HIDE DEF N
<1>6. Content(N) = Empty
  BY <1>4, <1>5, EmptyContent
<1>7. QED
  BY <1>3, <1>4, <1>5, <1>6 DEF N

\* A crash ends all phases.
LEMMA PhasedCrash ==
  ASSUME PhasedInv, Crash
  PROVE  PhasedInv'
<1>1. RInv' /\ IInv'
  BY CrashStep DEF PhasedInv, RInv
<1>2. Serial
  BY DEF PhasedInv, SerialInv
<1>3. /\ cur' = NoTx /\ DOMAIN saved' = Clients /\ dropped' = dropped
      /\ lost' = lost /\ redo' = NoTx
      /\ \A c \in Clients : undo'[c] = NoTx /\ flush'[c] = NoTx
  BY DEF Crash
<1>4. tbl'.low_power_mode = FALSE
  BY <1>2, NewTableEmpty DEF Crash
<1>5. Traced(FALSE)'
  BY <1>3, TracedNext
<1>6. Content(tbl') \in Held(FALSE)
  BY <1>1, NextContent DEF Held
<1>7. SerialInv(FALSE)'
  BY <1>1, <1>2, <1>3, <1>4, <1>5, <1>6, SerialInvNext
<1>8. Phases'
  BY <1>3 DEF PhasedInv, Phases
<1>9. QED
  BY <1>1, <1>7, <1>8 DEF PhasedInv

\* What recover works on: an item of the log, and the table it leaves.
LEMMA RecoverItemFacts ==
  ASSUME PhasedInv, RecoverItem
  PROVE  /\ redo \in Nat \ {0} /\ redo <= Len(wal) /\ Len(wal) \in Nat
         /\ wal \in Seq(LogItems) /\ wal[redo] \in LogItems
         /\ Sound(tbl) /\ Sound(tbl') /\ idx \in Index
         /\ tbl' = Redo([tbl |-> tbl, idx |-> idx], wal[redo]).tbl
         /\ idx' = Redo([tbl |-> tbl, idx |-> idx], wal[redo]).idx
         /\ redo' = redo + 1 /\ redo # NoTx
<1>1. redo \in Nat \ {0} /\ redo <= Len(wal) /\ wal \in Seq(LogItems)
  BY DEF RecoverItem, PhasedInv, RInv, RTypeOK
<1>2. wal[redo] \in LogItems /\ Len(wal) \in Nat
  BY <1>1, SMTT(30)
<1>3. Sound(tbl) /\ idx \in IndexType(Pks \cup {0}, Slots)
  BY DEF PhasedInv, RInv, IInv, TypeOK
<1>4. /\ tbl' = Redo([tbl |-> tbl, idx |-> idx], wal[redo]).tbl
      /\ idx' = Redo([tbl |-> tbl, idx |-> idx], wal[redo]).idx
      /\ redo' = redo + 1 /\ redo # NoTx
  BY DEF RecoverItem
<1>5. Sound(tbl')
  BY <1>2, <1>3, <1>4, RedoSound
<1>6. QED
  BY <1>1, <1>2, <1>3, <1>4, <1>5 DEF Index

\* A recovery keeps the phases.
LEMMA PhasedRecover ==
  ASSUME PhasedInv, RecoverBegin \/ RecoverItem \/ RecoverEnd
  PROVE  PhasedInv'
<1>1. RInv' /\ IInv'
  BY RecoverStep DEF PhasedInv, RInv
<1>2. CASE RecoverBegin \/ RecoverEnd
  <2>1. UNCHANGED vars
    BY <1>2 DEF RecoverBegin, RecoverEnd
  <2>2. SerialInv(FALSE)'
    BY <2>1, SerialStutter DEF PhasedInv
  <2>3. cur' = cur /\ undo' = undo /\ dropped' = dropped
    BY <2>1 DEF vars
  <2>4. flush' = flush /\ wal' = wal /\ lost' = lost
    BY <1>2 DEF RecoverBegin, RecoverEnd
  <2>5. cur = NoTx /\ \A c \in Clients : undo[c] = NoTx /\ flush[c] = NoTx
    BY <1>2 DEF RecoverBegin, RecoverEnd, Ready, PhasedInv, Phases
  <2>6. Len(wal) \in Nat
    BY SMTT(30) DEF PhasedInv, RInv, RTypeOK
  <2>7. redo' # NoTx => redo' <= Len(wal') + 1
    BY <1>2, <2>4, <2>6, SMTT(30) DEF RecoverBegin, RecoverEnd
  <2>8. Phases'
    BY <2>3, <2>4, <2>5, <2>7 DEF PhasedInv, Phases
  <2>9. QED
    BY <1>1, <2>2, <2>8 DEF PhasedInv
<1>3. CASE RecoverItem
  <2>1. /\ cur' = cur /\ undo' = undo /\ dropped' = dropped /\ saved' = saved
        /\ flush' = flush /\ wal' = wal /\ lost' = lost /\ up' = up
    BY <1>3 DEF RecoverItem
  <2>2. cur = NoTx /\ \A c \in Clients : undo[c] = NoTx /\ flush[c] = NoTx
    BY <1>3 DEF RecoverItem, PhasedInv, Phases
  <2>3. tbl'.low_power_mode = tbl.low_power_mode
    BY <1>3, RecoverItemFacts, RedoEffect, SMTT(30)
  <2>4. Traced(FALSE)'
    BY <2>1, <2>2, TracedNext
  <2>5. Content(tbl') \in Held(FALSE)
    BY <1>1, NextContent DEF Held
  <2>6. SerialInv(FALSE)'
    BY <1>1, <2>1, <2>2, <2>3, <2>4, <2>5, SerialInvNext DEF PhasedInv, SerialInv
  <2>7. redo' <= Len(wal') + 1
    BY <1>3, <2>1, RecoverItemFacts, SMTT(30)
  <2>8. Phases'
    BY <2>1, <2>2, <2>7 DEF PhasedInv, Phases
  <2>9. QED
    BY <1>1, <2>6, <2>8 DEF PhasedInv
<1>4. QED
  BY <1>2, <1>3

----------------------------------------------------------------------------
(* The first lifetime: keys are unique, as in TransactionProofs *)

FirstLife ==
  /\ Spent
  /\ \A i \in DOMAIN wal : wal[i].tx < counter
  /\ redo = NoTx => SerialInv(TRUE)

\* Before the first restart a client keeps the keys distinct.
LEMMA FirstClient ==
  ASSUME PhasedInv, NEW c \in Clients, FirstLife,
         TxStep(c) \/ RecordStep(c) \/ CommitBegin(c)
  PROVE  FirstLife'
<1>1. redo = NoTx /\ redo' = redo /\ wal' = wal
  BY DEF TxStep, RecordStep, CommitBegin, Idle, Unlogged
<1>2. SerialInv(TRUE) /\ SerialInv(TRUE)'
  BY <1>1, SerialClient DEF FirstLife
<1>3. Spent'
  BY <1>2 DEF SerialInv
<1>4. counter \in Nat /\ (counter' = counter \/ counter' = counter + 1)
  <2>1. counter \in Nat
    BY DEF PhasedInv, RInv, IInv, TypeOK
  <2>2. CASE TxStep(c)
    BY <2>1, <2>2 DEF TxStep, Begin, RollbackBegin, UndoNext, RollbackEnd
  <2>3. CASE RecordStep(c)
    BY <2>1, <2>3 DEF RecordStep, ApiInsert, ApiUpdate, ApiDelete
  <2>4. CASE CommitBegin(c)
    BY <2>1, <2>4 DEF CommitBegin, Commit
  <2>5. QED
    BY <2>1, <2>2, <2>3, <2>4
<1>5. \A i \in DOMAIN wal : wal[i].tx \in Nat
  <2>1. wal \in Seq(LogItems)
    BY DEF PhasedInv, RInv, RTypeOK
  <2>2. \A i \in DOMAIN wal : wal[i] \in LogItems
    BY <2>1, SMTT(30)
  <2>3. QED
    BY <2>2, ItemFields
<1>6. \A i \in DOMAIN wal' : wal'[i].tx < counter'
  BY <1>1, <1>4, <1>5, SMTT(30) DEF FirstLife
<1>7. QED
  BY <1>1, <1>2, <1>3, <1>6 DEF FirstLife

\* Writing a commit to the file leaves records and keys alone.
LEMMA FirstWrite ==
  ASSUME PhasedInv, NEW c \in Clients, FirstLife,
         CommitItem(c) \/ CommitFails(c) \/ CommitEnd(c)
  PROVE  FirstLife'
<1>1. UNCHANGED vars /\ redo' = redo /\ flush[c] # NoTx
  BY DEF CommitItem, CommitFails, CommitEnd
<1>2. redo = NoTx
  BY <1>1 DEF PhasedInv, Phases
<1>3. SerialInv(TRUE)'
  BY <1>1, <1>2, SerialStutter DEF FirstLife
<1>4. counter' = counter /\ Spent'
  BY <1>1, <1>3 DEF vars, SerialInv
<1>5. \A i \in DOMAIN wal' : wal'[i].tx < counter
  <2>1. CASE CommitItem(c)
    <3>1. flush[c] \in [next : Nat \ {0}, count : 0 .. MaxLog]
      BY <1>1 DEF PhasedInv, RInv, RTypeOK
    <3>2. flush[c].next \in 1 .. MaxLog
      BY <2>1, <3>1, TxAssumption, SMTT(30) DEF CommitItem
    <3>3. buf[flush[c].next].tx < counter /\ buf[flush[c].next] \in LogItems
      BY <3>2 DEF FirstLife, Spent, PhasedInv, RInv, IInv, TypeOK
    <3>4. wal' = Append(wal, buf[flush[c].next]) /\ wal \in Seq(LogItems)
      BY <2>1 DEF CommitItem, PhasedInv, RInv, RTypeOK
    <3>5. \A i \in DOMAIN wal : wal[i].tx < counter
      BY DEF FirstLife
    <3>6. \A i \in DOMAIN wal' : wal'[i] = buf[flush[c].next]
                                  \/ (i \in DOMAIN wal /\ wal'[i] = wal[i])
      BY <3>3, <3>4, SMTT(30)
    <3>7. QED
      BY <3>3, <3>5, <3>6
  <2>2. CASE ~CommitItem(c)
    BY <2>2 DEF CommitFails, CommitEnd, FirstLife
  <2>3. QED
    BY <2>1, <2>2
<1>6. QED
  BY <1>3, <1>4, <1>5 DEF FirstLife

----------------------------------------------------------------------------
(* The records that the log leads to, and how the table relates to them *)

\* Up to the end of the first recovery keys are unique in a table whose memory
\* was never used.
Kept ==
  IF Zeroed /\ (crashes = 0 \/ (crashes = 1 /\ ~up)) THEN Held(TRUE)
  ELSE Held(FALSE)

\* A client whose transaction runs or is rolled back began it on content W; the
\* items that its commit has still to write lead from W to the table.
ClientLogged(c, W) ==
  /\ cur # NoTx \/ undo[c] # NoTx => saved[c] = W
  /\ flush[c] # NoTx =>
       /\ Trace(Kept, buf, flush[c].next - 1, flush[c].count, W, Content(tbl))
       /\ Content(tbl) \in stable

\* The first redo - 1 items of the log, which lead to e, have been replayed.
Replayed(e, W) ==
  /\ Trace(Kept, wal, redo - 1, Len(wal), e, W)
  /\ Replaying(Touched(wal, redo - 1), e, W, Content(tbl))
  /\ ~up => Content(tbl) = e
  /\ ~up /\ Zeroed /\ crashes = 1 => Exact(idx, Content(tbl))

\* The log leads to content W.
Logged(W) ==
  /\ Trace(Kept, wal, 0, Len(wal), Empty, W)
  /\ up /\ redo = NoTx =>
       /\ \A c \in Clients : ClientLogged(c, W)
       /\ cur = NoTx /\ (\A c \in Clients : undo[c] = NoTx /\ flush[c] = NoTx)
            => Content(tbl) = W
  /\ ~up /\ redo = NoTx => Used(tbl) = {} /\ idx = <<>>
  /\ redo # NoTx => \E e : Replayed(e, W)
  /\ ~torn /\ (\A c \in Clients :
                 flush[c] # NoTx => flush[c].next \notin 2 .. flush[c].count)
       => W \in stable

RecInv ==
  /\ PhasedInv
  /\ ~lost => \E W : Logged(W)
  /\ ~lost /\ Zeroed /\ crashes = 0 => FirstLife

\* The contents with distinct keys are contents.
LEMMA HeldSets == Held(FALSE) = Contents /\ Held(TRUE) \subseteq Held(FALSE)
BY DEF Held

\* The contents that the log may lead through.
LEMMA KeptSets ==
  /\ Kept \subseteq Contents
  /\ Zeroed /\ (crashes = 0 \/ (crashes = 1 /\ ~up)) => Kept = Held(TRUE)
  /\ ~(Zeroed /\ (crashes = 0 \/ (crashes = 1 /\ ~up))) => Kept = Held(FALSE)
BY HeldSets DEF Kept

\* They depend on the restarts alone.
LEMMA KeptSame == crashes' = crashes /\ up' = up => Kept' = Kept
BY SMTT(30) DEF Kept, Zeroed, Held

\* The invariant holds in a new database with an empty log.
LEMMA RecInit == Serial /\ RInit => RecInv
<1> SUFFICES ASSUME Serial, RInit PROVE RecInv
  OBVIOUS
<1>1. PhasedInv
  BY PhasedInit
<1>2. PICK T \in NewTables, on \in PowerModes : tbl = SetLowPowerMode(T, on)
  BY DEF RInit, Init
<1>3. Content(tbl) = Empty
  BY <1>2, NewTableEmpty
<1>4. Empty \in Kept
  BY EmptyContent DEF Kept, Held
<1>5. Trace(Kept, wal, 0, Len(wal), Empty, Empty)
  <2>1. Len(wal) = 0
    BY DEF RInit
  <2>2. QED
    BY <1>4, <2>1, TraceStart, SMTT(30)
<1>6. Logged(Empty)
  BY <1>3, <1>5 DEF Logged, ClientLogged, RInit, Init
<1>7. Zeroed => FirstLife
  <2>1. Zeroed => SerialInv(TRUE)
    BY SerialInit DEF RInit
  <2>2. Zeroed => Spent
    BY <2>1 DEF SerialInv
  <2>3. DOMAIN wal = {}
    BY SMTT(30) DEF RInit
  <2>4. QED
    BY <2>1, <2>2, <2>3 DEF FirstLife
<1>8. QED
  BY <1>1, <1>6, <1>7 DEF RecInv

\* Record methods leave the open transaction open.
LEMMA RecordStaysOpen ==
  ASSUME PhasedInv, NEW c \in Clients, RecordStep(c), cur # NoTx
  PROVE  cur' # NoTx /\ saved' = saved /\ undo' = undo
<1>1. cur \in [id : Nat, owner : Clients, count : 0 .. MaxLog]
  BY DEF PhasedInv, RInv, IInv, TypeOK
<1>2. cur' = cur \/ cur' = [cur EXCEPT !.count = cur.count + 1]
  BY DEF RecordStep, ApiInsert, ApiUpdate, ApiDelete,
         DoInsert, DoUpdate, DoDelete, Log
<1>3. IInv'
  BY ClientStep DEF PhasedInv, RInv
<1>4. cur' # NoTx
  <2>1. CASE cur' = cur
    BY <2>1
  <2>2. CASE cur' = [cur EXCEPT !.count = cur.count + 1] /\ cur' # cur
    <3>1. cur.count < MaxLog
      BY <1>1, <2>2, TxAssumption
         DEF RecordStep, ApiInsert, ApiUpdate, ApiDelete,
             DoInsert, DoUpdate, DoDelete, Log
    <3>2. cur.count + 1 \in 0 .. MaxLog
      BY <1>1, <3>1, TxAssumption, SMTT(30)
    <3>3. cur' \in [id : Nat, owner : Clients, count : 0 .. MaxLog]
      BY <1>1, <2>2, <3>2
    <3>4. QED
      BY <3>3, TxAssumption
  <2>3. QED
    BY <1>2, <2>1, <2>2
<1>5. QED
  BY <1>4 DEF RecordStep, ApiInsert, ApiUpdate, ApiDelete

\* Transactions and rollbacks leave the log alone; a rollback that ends has
\* brought the records back that the log leads to.
LEMMA LoggedClient ==
  ASSUME PhasedInv, NEW c \in Clients, TxStep(c) \/ RecordStep(c),
         ~lost', NEW W, Logged(W)
  PROVE  Logged(W)'
<1>1. /\ up /\ redo = NoTx /\ flush[c] = NoTx /\ up' = up /\ redo' = redo
      /\ wal' = wal /\ crashes' = crashes /\ torn' = torn
      /\ flush' = flush /\ stable' = stable
  BY DEF TxStep, RecordStep, Idle, Unlogged
<1>2. Kept' = Kept
  BY <1>1, KeptSame
<1>3. \A d \in Clients : d = c
  BY DEF PhasedInv, SerialInv, Serial
<1>4. /\ cur # NoTx \/ undo[c] # NoTx => saved[c] = W
      /\ cur = NoTx /\ undo[c] = NoTx => Content(tbl) = W
  BY <1>1, <1>3 DEF Logged, ClientLogged
<1>5. /\ cur' # NoTx \/ undo'[c] # NoTx => saved'[c] = W
      /\ cur' = NoTx /\ undo'[c] = NoTx => Content(tbl') = W
  <2>1. CASE Begin(c)
    <3>1. cur = NoTx /\ undo[c] = NoTx /\ tbl' = tbl
          /\ saved' = [saved EXCEPT ![c] = Content(tbl)]
      BY <2>1 DEF Begin, Ready
    <3>2. saved'[c] = Content(tbl)
      BY <3>1 DEF PhasedInv, SerialInv
    <3>3. QED
      BY <1>4, <3>1, <3>2
  <2>2. CASE RollbackBegin(c)
    <3>1. /\ cur # NoTx /\ saved' = saved /\ undo'[c] = cur.count
          /\ cur.count \in Nat
      BY <2>2, SMTT(30) DEF RollbackBegin, Owns, PhasedInv, RInv, IInv, TypeOK
    <3>2. undo'[c] # NoTx
      BY <3>1, TxAssumption
    <3>3. QED
      BY <1>4, <3>1, <3>2
  <2>3. CASE UndoNext(c)
    <3>1. /\ undo[c] # NoTx /\ saved' = saved /\ undo'[c] = undo[c] - 1
          /\ undo[c] \in 0 .. MaxLog /\ undo[c] > 0
      BY <2>3, SMTT(30) DEF UndoNext, PhasedInv, RInv, IInv, TypeOK
    <3>2. undo'[c] \in Nat
      BY <3>1, TxAssumption, SMTT(30)
    <3>3. undo'[c] # NoTx
      BY <3>2, TxAssumption
    <3>4. QED
      BY <1>4, <3>1, <3>3
  <2>4. CASE RollbackEnd(c)
    <3>1. /\ undo[c] = 0 /\ tbl' = tbl /\ cur' = cur /\ undo'[c] = NoTx
          /\ dropped' = dropped
      BY <2>4 DEF RollbackEnd, PhasedInv, RInv, IInv, TypeOK
    <3>2. undo[c] # NoTx /\ cur = NoTx
      BY <3>1, TxAssumption, SMTT(30) DEF PhasedInv, SerialInv
    <3>3. lost' = lost
      BY <1>1, <2>4, <3>2 DEF TxStep, RecordStep, ApiInsert, ApiUpdate, ApiDelete,
                            Ready
    <3>4. saved[c] = Content(tbl)
      BY <3>1, <3>3, Restored DEF PhasedInv, Phases
    <3>5. QED
      BY <1>4, <3>1, <3>2, <3>4
  <2>5. CASE RecordStep(c)
    <3>1. cur # NoTx
      BY <2>5 DEF RecordStep
    <3>2. QED
      BY <1>4, <2>5, <3>1, RecordStaysOpen
  <2>6. QED
    BY <2>1, <2>2, <2>3, <2>4, <2>5 DEF TxStep
<1>6. \A d \in Clients : ClientLogged(d, W)'
  BY <1>1, <1>3, <1>5 DEF ClientLogged
<1>7. QED
  BY <1>1, <1>2, <1>3, <1>5, <1>6 DEF Logged

\* commit starts to write the history of its transaction.
LEMMA LoggedCommit ==
  ASSUME RecInv, NEW c \in Clients, CommitBegin(c), ~lost', NEW W, Logged(W)
  PROVE  Logged(W)'
<1>1. /\ up /\ redo = NoTx /\ flush[c] = NoTx /\ up' = up /\ redo' = redo
      /\ wal' = wal /\ crashes' = crashes /\ torn' = torn /\ lost' = lost
      /\ flush' = [flush EXCEPT ![c] = [next |-> 1, count |-> cur.count]]
      /\ stable' = stable \cup {Content(tbl)}
      /\ tbl' = tbl /\ buf' = buf /\ cur' = NoTx /\ undo' = undo
      /\ cur # NoTx /\ undo[c] = NoTx
  BY DEF CommitBegin, Idle, Unlogged, Commit, Owns, Ready
<1>2. PhasedInv /\ ~lost /\ ~dropped
  BY <1>1 DEF RecInv, PhasedInv, Phases
<1>3. Kept' = Kept
  BY <1>1, KeptSame
<1>4. \A d \in Clients : d = c
  BY <1>2 DEF PhasedInv, SerialInv, Serial
<1>5. saved[c] = W
  BY <1>1 DEF Logged, ClientLogged
<1>6. Trace(Kept, buf, 0, cur.count, W, Content(tbl))
  <2>1. CASE Zeroed /\ crashes = 0
    <3>1. SerialInv(TRUE) /\ Kept = Held(TRUE)
      BY <1>1, <1>2, <2>1, KeptSets DEF RecInv, FirstLife
    <3>2. QED
      BY <1>1, <1>2, <1>5, <3>1 DEF SerialInv, Traced
  <2>2. CASE ~(Zeroed /\ crashes = 0)
    <3>1. SerialInv(FALSE) /\ Kept = Held(FALSE)
      BY <1>1, <1>2, <2>2, KeptSets DEF PhasedInv
    <3>2. QED
      BY <1>1, <1>2, <1>5, <3>1 DEF SerialInv, Traced
  <2>3. QED
    BY <2>1, <2>2
<1>7. flush \in [Clients -> [next : Nat \ {0}, count : 0 .. MaxLog] \cup {NoTx}]
  BY <1>2 DEF PhasedInv, RInv, RTypeOK
<1>8. cur.count \in Nat
  BY <1>1, <1>2, SMTT(30) DEF PhasedInv, RInv, IInv, TypeOK
<1>9. /\ flush'[c].next - 1 = 0 /\ flush'[c].count = cur.count
      /\ flush'[c] \in [next : Nat, count : Nat]
  BY <1>1, <1>7, <1>8, SMTT(30)
<1>10. flush'[c] # NoTx
  BY <1>9, CrashAssumption
<1>11. ClientLogged(c, W)'
  BY <1>1, <1>3, <1>6, <1>9 DEF ClientLogged
<1>12. ~torn => W \in stable
  BY <1>1, <1>4 DEF Logged
<1>13. QED
  BY <1>1, <1>3, <1>4, <1>10, <1>11, <1>12 DEF Logged

\* An item that is written extends the history of the log.
LEMMA LoggedItem ==
  ASSUME PhasedInv, NEW c \in Clients, CommitItem(c), NEW W, Logged(W)
  PROVE  \E V : Logged(V)'
<1> DEFINE i == flush[c].next
           n == flush[c].count
<1>1. /\ flush[c] # NoTx /\ i <= n /\ wal' = Append(wal, buf[i])
      /\ flush' = [flush EXCEPT ![c] = [flush[c] EXCEPT !.next = i + 1]]
      /\ up' = up /\ redo' = redo /\ crashes' = crashes /\ stable' = stable
      /\ torn' = torn /\ UNCHANGED vars
  BY DEF CommitItem
<1>2. tbl' = tbl /\ buf' = buf /\ cur' = cur /\ undo' = undo /\ saved' = saved
  BY <1>1 DEF vars
<1>3. up /\ redo = NoTx /\ cur = NoTx /\ undo[c] = NoTx
  BY <1>1 DEF PhasedInv, Phases
<1>4. Kept' = Kept
  BY <1>1, KeptSame
<1>5. \A d \in Clients : d = c
  BY DEF PhasedInv, SerialInv, Serial
<1>6. /\ flush \in [Clients -> [next : Nat \ {0}, count : 0 .. MaxLog] \cup {NoTx}]
      /\ wal \in Seq(LogItems)
  BY DEF PhasedInv, RInv, RTypeOK
<1>7. /\ i \in Nat \ {0} /\ n \in Nat
      /\ flush'[c].next = i + 1 /\ flush'[c].count = n
      /\ flush'[c] \in [next : Nat, count : Nat]
  BY <1>1, <1>6, SMTT(30)
<1>8. Trace(Kept, buf, i - 1, n, W, Content(tbl)) /\ Content(tbl) \in stable
  BY <1>1, <1>3 DEF Logged, ClientLogged
<1> HIDE DEF i, n
<1>9. PICK V \in Kept : /\ Trace(Kept, buf, i, n, V, Content(tbl))
                        /\ Leads(buf[i], W, V)
  <2>1. i - 1 \in Nat /\ i - 1 < n /\ (i - 1) + 1 = i
    BY <1>1, <1>7, SMTT(30)
  <2>2. \E e \in Kept : /\ Trace(Kept, buf, (i - 1) + 1, n, e, Content(tbl))
                        /\ Leads(buf[(i - 1) + 1], W, e)
    BY <1>7, <1>8, <2>1, TraceForward
  <2>3. QED
    BY <2>1, <2>2
<1>10. Trace(Kept, wal', 0, Len(wal'), Empty, V)
  <2> DEFINE l == Len(wal)
             L == wal'
             item == buf[i]
  <2>1. Trace(Kept, wal, 0, l, Empty, W)
    BY DEF Logged
  <2>2. l \in Nat /\ 0 \in Nat /\ 0 <= l /\ Len(L) = l + 1
        /\ L[l + 1] = item /\ \A j \in 0 + 1 .. l : L[j] = wal[j]
    BY <1>1, <1>6, SMTT(30)
  <2>3. V \in Kept /\ Leads(item, W, V)
    BY <1>9
  <2> HIDE DEF l, L, item
  <2>4. Trace(Kept, L, 0, l + 1, Empty, V)
    BY <2>1, <2>2, <2>3, TraceExtend
  <2>5. QED
    BY <2>2, <2>4 DEF L
<1>11. flush'[c] # NoTx
  BY <1>7, CrashAssumption
<1>12. flush'[c].next - 1 = i
  BY <1>7, SMTT(30)
<1>13. ClientLogged(c, V)'
  BY <1>1, <1>2, <1>3, <1>4, <1>7, <1>8, <1>9, <1>12 DEF ClientLogged
<1>14. flush'[c].next \notin 2 .. flush'[c].count => V \in stable
  <2>1. SUFFICES ASSUME flush'[c].next \notin 2 .. flush'[c].count
                 PROVE  V \in stable
    OBVIOUS
  <2>2. i = n /\ i <= n
    BY <1>1, <1>7, <2>1, SMTT(30) DEF i, n
  <2>3. V = Content(tbl)
    BY <1>7, <1>9, <2>2, TraceEnds, SMTT(30)
  <2>4. QED
    BY <1>8, <2>3
<1>15. Logged(V)'
  BY <1>1, <1>3, <1>4, <1>5, <1>10, <1>11, <1>13, <1>14 DEF Logged
<1>16. QED
  BY <1>15

\* At the end of a commit the log leads to the table.
LEMMA LoggedEnd ==
  ASSUME PhasedInv, NEW c \in Clients, CommitEnd(c), NEW W, Logged(W)
  PROVE  Logged(W)'
<1> DEFINE i == flush[c].next
           n == flush[c].count
<1>1. /\ flush[c] # NoTx /\ i > n /\ flush' = [flush EXCEPT ![c] = NoTx]
      /\ stable' = {Content(tbl)} /\ UNCHANGED vars /\ wal' = wal
      /\ up' = up /\ redo' = redo /\ crashes' = crashes /\ torn' = torn
  BY DEF CommitEnd
<1>2. tbl' = tbl /\ buf' = buf /\ cur' = cur /\ undo' = undo /\ saved' = saved
  BY <1>1 DEF vars
<1>3. up /\ redo = NoTx /\ cur = NoTx /\ undo[c] = NoTx /\ i <= n + 1
  BY <1>1 DEF PhasedInv, Phases
<1>4. Kept' = Kept
  BY <1>1, KeptSame
<1>5. \A d \in Clients : d = c
  BY DEF PhasedInv, SerialInv, Serial
<1>6. flush \in [Clients -> [next : Nat \ {0}, count : 0 .. MaxLog] \cup {NoTx}]
  BY DEF PhasedInv, RInv, RTypeOK
<1>7. i \in Nat \ {0} /\ n \in Nat /\ flush'[c] = NoTx
  BY <1>1, <1>6, SMTT(30)
<1>8. Trace(Kept, buf, i - 1, n, W, Content(tbl))
  BY <1>1, <1>3 DEF Logged, ClientLogged
<1>9. i - 1 = n
  BY <1>1, <1>3, <1>7, SMTT(30)
<1> HIDE DEF i, n
<1>10. W = Content(tbl)
  BY <1>7, <1>8, <1>9, TraceEnds, SMTT(30)
<1>11. ClientLogged(c, W)'
  BY <1>2, <1>3, <1>7 DEF ClientLogged
<1>12. QED
  BY <1>1, <1>2, <1>3, <1>4, <1>5, <1>10, <1>11 DEF Logged

\* A crash leaves the log and an empty table.
LEMMA LoggedCrash ==
  ASSUME PhasedInv, Crash, NEW W, Logged(W)
  PROVE  Logged(W)'
<1>1. /\ crashes' = crashes + 1 /\ up' = FALSE /\ redo' = NoTx /\ idx' = <<>>
      /\ wal' = wal /\ stable' = stable
      /\ \A c \in Clients : flush'[c] = NoTx
      /\ torn' = (torn \/ \E c \in Clients :
                            /\ flush[c] # NoTx
                            /\ flush[c].next \in 2 .. flush[c].count)
  BY DEF Crash, NewIndex
<1>2. Used(tbl') = {}
  BY NewTableEmpty DEF Crash, PhasedInv, SerialInv
<1>3. crashes \in Nat
  BY CrashAssumption, SMTT(30) DEF PhasedInv, RInv, RTypeOK
<1>4. Kept \subseteq Kept'
  <2>1. CASE Zeroed /\ crashes = 0
    BY <2>1, KeptSets, HeldSets DEF Kept, Held
  <2>2. CASE ~(Zeroed /\ crashes = 0)
    <3>1. ~(Zeroed /\ (crashes' = 0 \/ (crashes' = 1 /\ ~up')))
      BY <1>1, <1>3, <2>2, SMTT(30)
    <3>2. Kept' = Held(FALSE)
      BY <3>1 DEF Kept, Zeroed, Held
    <3>3. QED
      BY <3>2, KeptSets, HeldSets
  <2>3. QED
    BY <2>1, <2>2
<1>5. Trace(Kept', wal', 0, Len(wal'), Empty, W)
  <2> DEFINE C == Kept
             E == Kept'
             n == Len(wal)
  <2>1. C \subseteq E /\ Trace(C, wal, 0, n, Empty, W)
    BY <1>4 DEF Logged
  <2> HIDE DEF C, E, n
  <2>2. Trace(E, wal, 0, n, Empty, W)
    BY <2>1, TraceWeaken
  <2>3. QED
    BY <1>1, <2>2 DEF E, n
<1>6. ~torn' => W \in stable
  BY <1>1 DEF Logged
<1>7. QED
  BY <1>1, <1>2, <1>5, <1>6 DEF Logged

\* A replay begins with the whole log before it.
LEMMA LoggedRecoverBegin ==
  ASSUME PhasedInv, RecoverBegin, NEW W, Logged(W)
  PROVE  Logged(W)'
<1>1. /\ redo = NoTx /\ cur = NoTx /\ redo' = 1
      /\ \A c \in Clients : undo[c] = NoTx /\ flush[c] = NoTx
      /\ wal' = wal /\ flush' = flush /\ up' = up /\ crashes' = crashes
      /\ stable' = stable /\ torn' = torn /\ UNCHANGED vars
  BY DEF RecoverBegin, Ready
<1>2. tbl' = tbl /\ idx' = idx
  BY <1>1 DEF vars
<1>3. Kept' = Kept
  BY <1>1, KeptSame
<1>4. tbl \in TableType
  BY DEF PhasedInv, RInv, IInv, TypeOK
<1>5. /\ up => Content(tbl) = W
      /\ ~up => Content(tbl) = Empty /\ idx = <<>>
  BY <1>1, <1>4, EmptyContent DEF Logged
<1>6. Touched(wal, redo' - 1) = {} /\ redo' - 1 = 0
  BY <1>1, SMTT(30) DEF Touched
<1>7. Replaying({}, Empty, W, Content(tbl))
  BY <1>5, EmptyContent DEF Replaying
<1>8. ~up => Exact(idx, Content(tbl))
  BY <1>5, EmptyExact
<1>9. Replayed(Empty, W)'
  BY <1>1, <1>2, <1>3, <1>5, <1>6, <1>7, <1>8 DEF Replayed, Logged
<1>10. redo' # NoTx
  BY <1>1, TxAssumption, SMTT(30)
<1>11. ~torn => W \in stable
  BY <1>1 DEF Logged
<1>12. QED
  BY <1>1, <1>3, <1>9, <1>10, <1>11 DEF Logged

\* An item of the log is replayed and leaves one item less to replay.
LEMMA LoggedRecoverItem ==
  ASSUME PhasedInv, RecoverItem, NEW W, Logged(W)
  PROVE  Logged(W)'
<1> DEFINE item == wal[redo]
           r == redo - 1
           M == Touched(wal, r)
<1>1. /\ redo \in Nat \ {0} /\ redo <= Len(wal) /\ Len(wal) \in Nat
      /\ item \in LogItems /\ Sound(tbl) /\ Sound(tbl') /\ idx \in Index
      /\ tbl' = Redo([tbl |-> tbl, idx |-> idx], item).tbl
      /\ idx' = Redo([tbl |-> tbl, idx |-> idx], item).idx
      /\ redo' = redo + 1 /\ redo # NoTx
  BY RecoverItemFacts
<1>2. /\ wal' = wal /\ flush' = flush /\ up' = up /\ crashes' = crashes
      /\ stable' = stable /\ torn' = torn
  BY DEF RecoverItem
<1>3. Kept' = Kept
  BY <1>2, KeptSame
<1>4. PICK e : Replayed(e, W)
  BY <1>1 DEF Logged
<1>5. r \in Nat /\ r + 1 = redo /\ r < Len(wal) /\ redo' - 1 = redo
  BY <1>1, SMTT(30)
<1>6. PICK g \in Kept : /\ Trace(Kept, wal, redo, Len(wal), g, W)
                        /\ Leads(item, e, g)
  <2>1. Trace(Kept, wal, r, Len(wal), e, W)
    BY <1>4 DEF Replayed
  <2> HIDE DEF r
  <2>2. \E x \in Kept : /\ Trace(Kept, wal, r + 1, Len(wal), x, W)
                        /\ Leads(wal[r + 1], e, x)
    BY <1>1, <1>5, <2>1, TraceForward
  <2>3. QED
    BY <1>5, <2>2
<1>7. Replaying(M \cup {item.id}, g, W, Content(tbl'))
  <2>1. Replaying(M, e, W, Content(tbl))
    BY <1>4 DEF Replayed
  <2> HIDE DEF M, item
  <2>2. QED
    BY <1>1, <1>6, <2>1, RedoReplays
<1>8. Touched(wal, redo) = M \cup {item.id}
  BY <1>5, TouchedNext
<1>9. ~up => Content(tbl') = g
  <2>1. ~up => Content(tbl) = e
    BY <1>4 DEF Replayed
  <2> HIDE DEF item
  <2>2. QED
    BY <1>1, <1>6, <2>1, RedoFollows
<1>10. ASSUME ~up, Zeroed, crashes = 1 PROVE Exact(idx', Content(tbl'))
  <2>1. Content(tbl) = e /\ Exact(idx, e)
    BY <1>4, <1>10 DEF Replayed
  <2>2. Distinct(g) /\ g \in Contents
    BY <1>10, KeptSets DEF Held
  <2>3. e \in Contents
    BY <1>1, <2>1, ContentType DEF Sound, WF
  <2> HIDE DEF item
  <2>4. Exact(idx', g)
    BY <1>1, <1>6, <2>1, <2>2, <2>3, RedoIndex
  <2>5. QED
    BY <1>9, <1>10, <2>4
<1>11. Replayed(g, W)'
  BY <1>2, <1>3, <1>5, <1>6, <1>7, <1>8, <1>9, <1>10 DEF Replayed, Zeroed
<1>12. redo' # NoTx
  BY <1>1, TxAssumption, SMTT(30)
<1>13. QED
  BY <1>1, <1>2, <1>3, <1>11, <1>12 DEF Logged

\* The log has been replayed: the table holds what the log leads to.
LEMMA ReplayedAll ==
  ASSUME PhasedInv, redo # NoTx, redo > Len(wal), NEW W, Logged(W)
  PROVE  Content(tbl) = W /\ W \in Kept
<1>1. PICK e : Replayed(e, W)
  BY DEF Logged
<1>2. Len(wal) \in Nat /\ redo \in Nat /\ redo <= Len(wal) + 1
  BY SMTT(30) DEF PhasedInv, RInv, RTypeOK, Phases
<1>3. redo - 1 = Len(wal)
  BY <1>2, SMTT(30)
<1>4. e = W /\ W \in Kept
  <2>1. Trace(Kept, wal, Len(wal), Len(wal), e, W) /\ Len(wal) <= Len(wal)
    BY <1>1, <1>2, <1>3, SMTT(30) DEF Replayed
  <2>2. QED
    BY <1>2, <2>1, TraceEnds, SMTT(30)
<1>5. Content(tbl) \in Contents
  BY ContentType DEF PhasedInv, RInv, IInv, TypeOK
<1>6. Replaying(Touched(wal, redo - 1), W, W, Content(tbl))
  BY <1>1, <1>4 DEF Replayed
<1>7. QED
  BY <1>4, <1>5, <1>6, KeptSets, ReplayingEnds

\* At the end of a replay the table is what the log leads to.
LEMMA LoggedRecoverEnd ==
  ASSUME PhasedInv, RecoverEnd, NEW W, Logged(W)
  PROVE  Logged(W)'
<1>1. /\ redo # NoTx /\ redo > Len(wal) /\ redo' = NoTx /\ up' = TRUE
      /\ stable' = {Content(tbl)} /\ UNCHANGED vars
      /\ wal' = wal /\ flush' = flush /\ crashes' = crashes /\ torn' = torn
  BY DEF RecoverEnd
<1>2. tbl' = tbl /\ cur' = cur /\ undo' = undo
  BY <1>1 DEF vars
<1>3. Content(tbl) = W
  BY <1>1, ReplayedAll
<1>4. Kept \subseteq Kept'
  <2>1. CASE Zeroed /\ crashes = 0
    BY <1>1, <2>1, KeptSets, HeldSets DEF Kept, Held
  <2>2. CASE ~(Zeroed /\ crashes = 0)
    <3>1. Kept' = Held(FALSE)
      BY <1>1, <2>2 DEF Kept, Zeroed, Held
    <3>2. QED
      BY <3>1, KeptSets, HeldSets
  <2>3. QED
    BY <2>1, <2>2
<1>5. Trace(Kept', wal', 0, Len(wal'), Empty, W)
  <2> DEFINE C == Kept
             E == Kept'
             n == Len(wal)
  <2>1. C \subseteq E /\ Trace(C, wal, 0, n, Empty, W)
    BY <1>4 DEF Logged
  <2> HIDE DEF C, E, n
  <2>2. Trace(E, wal, 0, n, Empty, W)
    BY <2>1, TraceWeaken
  <2>3. QED
    BY <1>1, <2>2 DEF E, n
<1>6. cur = NoTx /\ \A c \in Clients : undo[c] = NoTx /\ flush[c] = NoTx
  BY <1>1 DEF PhasedInv, Phases
<1>7. \A c \in Clients : ClientLogged(c, W)'
  BY <1>1, <1>2, <1>6 DEF ClientLogged
<1>8. QED
  BY <1>1, <1>2, <1>3, <1>5, <1>7 DEF Logged

\* A recovery in the first lifetime, on the live table, keeps ids spent and
\* ends on records with unique keys.
LEMMA FirstRecover ==
  ASSUME RecInv, ~lost, Zeroed, crashes = 0,
         RecoverBegin \/ RecoverItem \/ RecoverEnd
  PROVE  FirstLife'
<1>1. PhasedInv /\ FirstLife
  BY DEF RecInv
<1>2. PICK W : Logged(W)
  BY DEF RecInv
<1>3. /\ wal' = wal /\ counter' = counter /\ buf' = buf /\ cur' = cur
      /\ undo' = undo /\ saved' = saved /\ dropped' = dropped
  BY DEF RecoverBegin, RecoverItem, RecoverEnd, vars
<1>4. CASE RecoverBegin \/ RecoverEnd
  <2>1. tbl' = tbl /\ UNCHANGED vars
    BY <1>4 DEF RecoverBegin, RecoverEnd, vars
  <2>2. Spent'
    BY <1>1, <1>3, <2>1, SpentNext DEF FirstLife, Spent
  <2>3. redo' = NoTx => SerialInv(TRUE)'
    <3>1. CASE RecoverBegin
      BY <3>1, TxAssumption, SMTT(30) DEF RecoverBegin
    <3>2. CASE RecoverEnd
      <4>1. Content(tbl) = W /\ W \in Kept
        BY <1>1, <1>2, <3>2, ReplayedAll DEF RecoverEnd
      <4>2. Content(tbl') \in Held(TRUE)
        BY <2>1, <4>1, KeptSets
      <4>3. cur' = NoTx /\ \A c \in Clients : undo'[c] = NoTx
        BY <1>1, <1>3, <3>2 DEF RecoverEnd, PhasedInv, Phases
      <4>4. Traced(TRUE)'
        BY <4>3, TracedNext
      <4>5. /\ Serial /\ tbl'.low_power_mode = FALSE /\ DOMAIN saved' = Clients
        BY <1>1, <1>3, <2>1 DEF PhasedInv, SerialInv
      <4>6. IInv'
        BY <1>1, <3>2, RecoverStep DEF PhasedInv, RInv
      <4>7. QED
        BY <2>2, <4>2, <4>3, <4>4, <4>5, <4>6, SerialInvNext
    <3>3. QED
      BY <1>4, <3>1, <3>2
  <2>4. QED
    BY <1>1, <1>3, <2>2, <2>3 DEF FirstLife
<1>5. CASE RecoverItem
  <2> DEFINE item == wal[redo]
  <2>1. /\ redo \in DOMAIN wal /\ item \in LogItems /\ Sound(tbl)
        /\ tbl' = Redo([tbl |-> tbl, idx |-> idx], item).tbl
        /\ redo' = redo + 1 /\ redo \in Nat
    <3>1. wal \in Seq(LogItems) /\ redo \in Nat \ {0} /\ redo <= Len(wal)
      BY <1>1, <1>5, RecoverItemFacts
    <3>2. redo \in DOMAIN wal
      BY <3>1, SMTT(30)
    <3>3. QED
      BY <1>1, <1>5, <3>1, <3>2, RecoverItemFacts
  <2>2. item.tx < counter
    BY <1>1, <2>1 DEF FirstLife
  <2> HIDE DEF item
  <2>3. \A u \in Slots : /\ tbl'.create[u] \in {tbl.create[u], item.tx}
                         /\ tbl'.delete[u] \in {tbl.delete[u], 0}
    BY <2>1, RedoEffect
  <2>4. Visible(tbl', counter')
    BY <1>1, <1>3, <2>2, <2>3 DEF FirstLife, Spent, Visible
  <2>5. Spent'
    BY <1>1, <1>3, <2>4, SpentNext DEF FirstLife, Spent
  <2>6. redo' # NoTx
    BY <2>1, TxAssumption, SMTT(30)
  <2>7. QED
    BY <1>1, <1>3, <2>5, <2>6 DEF FirstLife
<1>6. QED
  BY <1>4, <1>5

\* Every step keeps the invariant.
LEMMA RecStep == RecInv /\ [RNext]_rvars => RecInv'
<1> SUFFICES ASSUME RecInv, [RNext]_rvars PROVE RecInv'
  OBVIOUS
<1>1. PhasedInv
  BY DEF RecInv
<1>2. ASSUME NEW c \in Clients, TxStep(c) \/ RecordStep(c) \/ CommitBegin(c)
      PROVE  RecInv'
  <2>1. PhasedInv'
    BY <1>1, <1>2, PhasedClient
  <2>2. /\ lost => lost'
        /\ crashes' = crashes
    <3>1. CASE RecordStep(c)
      BY <3>1 DEF RecordStep, Unlogged
    <3>2. CASE TxStep(c) \/ CommitBegin(c)
      BY <3>2, SMTT(30) DEF TxStep, CommitBegin, Unlogged
    <3>3. QED
      BY <1>2, <3>1, <3>2
  <2>3. ASSUME ~lost' PROVE \E W : Logged(W)'
    <3>1. PICK W : Logged(W)
      BY <2>2, <2>3 DEF RecInv
    <3>2. QED
      BY <1>1, <1>2, <2>3, <3>1, LoggedClient, LoggedCommit
  <2>4. ASSUME ~lost', Zeroed, crashes' = 0 PROVE FirstLife'
    BY <1>1, <1>2, <2>2, <2>4, FirstClient DEF RecInv
  <2>5. QED
    BY <2>1, <2>3, <2>4 DEF RecInv, Zeroed
<1>3. ASSUME NEW c \in Clients, CommitItem(c) \/ CommitFails(c) \/ CommitEnd(c)
      PROVE  RecInv'
  <2>1. PhasedInv'
    BY <1>1, <1>3, PhasedWrite
  <2>2. /\ lost => lost'
        /\ crashes' = crashes
        /\ CommitFails(c) => lost'
    BY <1>3, SMTT(30) DEF CommitItem, CommitFails, CommitEnd
  <2>3. ASSUME ~lost' PROVE \E W : Logged(W)'
    <3>1. PICK W : Logged(W)
      BY <2>2, <2>3 DEF RecInv
    <3>2. QED
      BY <1>1, <1>3, <2>2, <2>3, <3>1, LoggedItem, LoggedEnd
  <2>4. ASSUME ~lost', Zeroed, crashes' = 0 PROVE FirstLife'
    BY <1>1, <1>3, <2>2, <2>4, FirstWrite DEF RecInv
  <2>5. QED
    BY <2>1, <2>3, <2>4 DEF RecInv, Zeroed
<1>4. CASE Crash
  <2>1. PhasedInv'
    BY <1>1, <1>4, PhasedCrash
  <2>2. lost' = lost /\ crashes' # 0
    BY <1>1, <1>4, CrashAssumption, SMTT(30) DEF Crash, PhasedInv, RInv, RTypeOK
  <2>3. ~lost' => \E W : Logged(W)'
    BY <1>1, <1>4, <2>2, LoggedCrash DEF RecInv
  <2>4. QED
    BY <2>1, <2>2, <2>3 DEF RecInv
<1>5. CASE RecoverBegin \/ RecoverItem \/ RecoverEnd
  <2>1. PhasedInv'
    BY <1>1, <1>5, PhasedRecover
  <2>2. lost' = lost /\ crashes' = crashes
    BY <1>5 DEF RecoverBegin, RecoverItem, RecoverEnd
  <2>3. ASSUME ~lost' PROVE \E W : Logged(W)'
    <3>1. PICK W : Logged(W)
      BY <2>2, <2>3 DEF RecInv
    <3>2. QED
      BY <1>1, <1>5, <3>1, LoggedRecoverBegin, LoggedRecoverItem, LoggedRecoverEnd
  <2>4. ASSUME ~lost', Zeroed, crashes' = 0 PROVE FirstLife'
    BY <1>5, <2>2, <2>4, FirstRecover
  <2>5. QED
    BY <2>1, <2>3, <2>4 DEF RecInv, Zeroed
<1>6. CASE UNCHANGED rvars
  <2>1. /\ UNCHANGED vars /\ wal' = wal /\ flush' = flush /\ up' = up
        /\ redo' = redo /\ crashes' = crashes /\ stable' = stable
        /\ lost' = lost /\ torn' = torn
    BY <1>6 DEF rvars
  <2>2. SerialInv(FALSE)' /\ (SerialInv(TRUE) => SerialInv(TRUE)')
    BY <1>1, <2>1, SerialStutter DEF PhasedInv
  <2>3. RInv'
    BY <1>1, <1>6, RStepInv DEF PhasedInv
  <2>4. /\ tbl' = tbl /\ idx' = idx /\ cur' = cur /\ buf' = buf
        /\ counter' = counter /\ undo' = undo /\ saved' = saved
        /\ dropped' = dropped
    BY <2>1 DEF vars
  <2>5. PhasedInv'
    BY <1>1, <2>1, <2>2, <2>3, <2>4 DEF PhasedInv, Phases
  <2>6. Kept' = Kept
    BY <2>1, KeptSame
  <2>7. ASSUME NEW W, Logged(W) PROVE Logged(W)'
    <3>1. ASSUME NEW e, Replayed(e, W) PROVE Replayed(e, W)'
      BY <2>1, <2>4, <2>6, <3>1 DEF Replayed, Zeroed
    <3>2. ASSUME NEW c \in Clients, ClientLogged(c, W) PROVE ClientLogged(c, W)'
      BY <2>1, <2>4, <2>6, <3>2 DEF ClientLogged
    <3>3. QED
      BY <2>1, <2>4, <2>6, <2>7, <3>1, <3>2 DEF Logged
  <2>8. FirstLife => FirstLife'
    BY <2>1, <2>2, <2>4, SpentNext DEF FirstLife, Spent
  <2>9. ~lost' => \E W : Logged(W)'
    BY <2>1, <2>7 DEF RecInv
  <2>10. ~lost' /\ Zeroed /\ crashes' = 0 => FirstLife'
    BY <2>1, <2>8 DEF RecInv
  <2>11. QED
    BY <2>5, <2>9, <2>10 DEF RecInv, Zeroed
<1>7. QED
  BY <1>2, <1>3, <1>4, <1>5, <1>6 DEF RNext

\* The invariant implies what a recovery promises.
LEMMA RecInvExact == RecInv => RecoversCommitted /\ (Zeroed => RecoversIndex)
<1>1. ASSUME RecInv, AllReplayed, ~lost
      PROVE  /\ ~torn => Content(tbl) \in stable
             /\ Zeroed /\ ~up /\ crashes = 1 => ItemsMatchRecords
  <2>1. PhasedInv
    BY <1>1 DEF RecInv
  <2>2. PICK W : Logged(W)
    BY <1>1 DEF RecInv
  <2>3. redo # NoTx /\ redo > Len(wal)
    BY <1>1 DEF AllReplayed
  <2>4. Content(tbl) = W
    BY <2>1, <2>2, <2>3, ReplayedAll
  <2>5. \A c \in Clients : flush[c] = NoTx
    BY <2>1, <2>3 DEF PhasedInv, Phases
  <2>6. ~torn => Content(tbl) \in stable
    BY <2>2, <2>4, <2>5 DEF Logged
  <2>7. PICK e : Replayed(e, W)
    BY <2>2, <2>3 DEF Logged
  <2>8. ASSUME Zeroed, ~up, crashes = 1 PROVE ItemsMatchRecords
    <3>1. Exact(idx, Content(tbl)) /\ tbl \in TableType
      BY <2>1, <2>7, <2>8 DEF Replayed, PhasedInv, RInv, IInv, TypeOK
    <3>2. QED
      BY <3>1, ExactMatches
  <2>9. QED
    BY <2>6, <2>8
<1>2. QED
  BY <1>1 DEF RecoversCommitted, RecoversIndex

\* One client, out of low power mode, ids that fit in the log, memory that was
\* never used: as long as every operation was part of a transaction that fits in
\* its log and whose commit did not fail, recover brings back exactly the records
\* of the last commit (or of the one under way), whatever was rolled back before
\* and wherever the process died, and after the first restart an index with one
\* item for each of them.
THEOREM RecoveryIsExact == Serial /\ Zeroed => (RSpec => []RecoversExactly)
<1>1. RecInv /\ Zeroed => RecoversExactly
  BY RecInvExact DEF RecoversExactly
<1>2. Zeroed => Zeroed'
  BY DEF Zeroed
<1>3. Serial /\ Zeroed /\ RSpec => []RecoversExactly
  BY <1>1, <1>2, RecInit, RecStep, PTL DEF RSpec
<1>4. QED
  BY <1>3

\* The records come back also in memory that held another table before: only
\* the uniqueness of keys, and with it the index, depends on clean headers.
THEOREM RecoveryOfRecords == Serial => (RSpec => []RecoversCommitted)
<1>1. RecInv => RecoversCommitted
  BY RecInvExact
<1>2. Serial /\ RSpec => []RecoversCommitted
  BY <1>1, RecInit, RecStep, PTL DEF RSpec
<1>3. QED
  BY <1>2
=============================================================================
