------------------------- MODULE MemoryTableLemmas -------------------------
(***************************************************************************)
(* What each operator of MemoryTable does to a well-formed table, to its   *)
(* records and their number, and what the operators of PrimaryIndex do to  *)
(* the items of the index.  R is the set of slots that batches have taken  *)
(* from the free stack and not yet written.                                *)
(***************************************************************************)
EXTENDS MemoryTable, PrimaryIndex, FiniteSetTheorems, TLAPS

USE ZenonT(30)

WF(T, R) ==
  /\ T \in TableType
  /\ StackDistinct(T)
  /\ Partition(T, R)
  /\ Used(T) \cap R = {}

----------------------------------------------------------------------------
(* Types *)

\* The fields of a table have the types of the fields of struct MemoryTable.
LEMMA Fields ==
  ASSUME NEW T \in TableType
  PROVE  /\ T.status \in [Slots -> {"Free", "Used"}]
         /\ T.version \in [Slots -> 0 .. VersionMod - 1]
         /\ T.create \in [Slots -> Nat]
         /\ T.delete \in [Slots -> Nat]
         /\ T.data \in [Slots -> Rows \cup {ZeroRow}]
         /\ T.free_slots \in [Slots -> Slots]
         /\ T.free_slot_count \in 0 .. MaxRecords
         /\ T.free_slot_count \in Int
         /\ T.record_count \in Int
         /\ T.max_pk \in Nat
         /\ T.low_power_mode \in BOOLEAN
  BY SizesAssumption, SMTT(30) DEF TableType

\* The version of a slot stays a VersionMod-bit number (u16 in the code).
LEMMA BumpType ==
  ASSUME NEW T \in TableType, NEW s \in Slots
  PROVE  Bump(T.version[s]) \in 0 .. VersionMod - 1
<1>1. T.version[s] \in 0 .. VersionMod - 1
  BY Fields
<1>2. QED
  BY <1>1, SizesAssumption, SMTT(30) DEF Bump

\* Writing a record into a slot changes its status, version and data only.
LEMMA PutRowEffect ==
  ASSUME NEW T \in TableType, NEW s \in Slots, NEW row \in Rows
  PROVE  /\ PutRow(T, s, row) \in TableType
         /\ PutRow(T, s, row).free_slots = T.free_slots
         /\ PutRow(T, s, row).free_slot_count = T.free_slot_count
         /\ PutRow(T, s, row).status = [T.status EXCEPT ![s] = "Used"]
         /\ PutRow(T, s, row).low_power_mode = T.low_power_mode
  BY BumpType, Fields DEF PutRow, TableType

\* UPDATE leaves status and free stack alone.
LEMMA UpdateRowEffect ==
  ASSUME NEW T \in TableType, NEW s \in Slots, NEW row \in Rows \cup {ZeroRow}
  PROVE  /\ UpdateRow(T, s, row) \in TableType
         /\ UpdateRow(T, s, row).free_slots = T.free_slots
         /\ UpdateRow(T, s, row).free_slot_count = T.free_slot_count
         /\ UpdateRow(T, s, row).status = T.status
         /\ UpdateRow(T, s, row).low_power_mode = T.low_power_mode
  BY BumpType, Fields DEF UpdateRow, TableType

----------------------------------------------------------------------------
(* The free stack *)

\* The cell that insert pops, and the stack without it.
LEMMA PopEffect ==
  ASSUME NEW T \in TableType, NEW N \in TableType, StackDistinct(T),
         NEW n \in 1 .. T.free_slot_count,
         N.free_slots = T.free_slots,
         N.free_slot_count = T.free_slot_count - n
  PROVE  LET Top == {T.free_slots[T.free_slot_count - j] : j \in 1 .. n}
         IN  /\ StackDistinct(N)
             /\ Top \subseteq Slots
             /\ Stack(N) = Stack(T) \ Top
             /\ Top \subseteq Stack(T)
<1> DEFINE c == T.free_slot_count
           Top == {T.free_slots[c - j] : j \in 1 .. n}
<1>0. /\ c \in Int /\ c <= MaxRecords /\ n \in Int /\ 1 <= n /\ n <= c
      /\ T.free_slots \in [Slots -> Slots]
  BY Fields, SizesAssumption, SMTT(30)
<1>1. StackDistinct(N)
  BY <1>0, SMTT(30) DEF StackDistinct
<1>2. \A i \in 0 .. c - 1 : i \in Slots
  BY <1>0, SizesAssumption, SMTT(30) DEF Slots
<1>3. \A j \in 1 .. n : c - j \in 0 .. c - 1
  BY <1>0, SMTT(30)
<1>4. Top \subseteq Slots /\ Top \subseteq Stack(T)
  BY <1>0, <1>2, <1>3 DEF Stack
<1>5. ASSUME NEW x PROVE x \in Stack(N) <=> x \in Stack(T) \ Top
  <2>1. ASSUME x \in Stack(N) PROVE x \in Stack(T) \ Top
    <3>1. PICK i \in 0 .. c - n - 1 : x = T.free_slots[i]
      BY <2>1 DEF Stack
    <3>2. \A j \in 1 .. n : T.free_slots[c - j] # x
      BY <3>1, <1>0, <1>3, SMTT(30) DEF StackDistinct
    <3>3. x \in Stack(T)
      BY <3>1, <1>0, SMTT(30) DEF Stack
    <3>4. QED
      BY <3>2, <3>3
  <2>2. ASSUME x \in Stack(T) \ Top PROVE x \in Stack(N)
    <3>1. PICK i \in 0 .. c - 1 : x = T.free_slots[i]
      BY <2>2 DEF Stack
    <3>2. ~(i >= c - n)
      <4>1. SUFFICES ASSUME i >= c - n PROVE FALSE
        OBVIOUS
      <4>2. c - i \in 1 .. n /\ c - (c - i) = i
        BY <4>1, <1>0, SMTT(30)
      <4>3. x \in Top
        BY <4>2, <3>1
      <4>4. QED
        BY <4>3, <2>2
    <3>3. i \in 0 .. N.free_slot_count - 1
      BY <3>2, <1>0, SMTT(30)
    <3>4. QED
      BY <3>1, <3>3 DEF Stack
  <2>3. QED
    BY <2>1, <2>2
<1>6. QED
  BY <1>1, <1>4, <1>5

\* While some slot holds a record the stack cannot be full, so that delete
\* always finds room for the slot it frees (the test
\* free_slot_count < max_records never fails).
LEMMA StackHasRoom ==
  ASSUME NEW T, NEW R, WF(T, R), NEW s \in Used(T)
  PROVE  T.free_slot_count < MaxRecords
<1>0. T \in TableType /\ s \in Slots
  BY DEF WF, Used
<1>1. SUFFICES ASSUME T.free_slot_count = MaxRecords PROVE FALSE
  BY <1>0, Fields, SizesAssumption, SMTT(30)
<1>2. IsFiniteSet(Slots) /\ Cardinality(Slots) = MaxRecords
  BY FS_Interval, SizesAssumption, SMTT(30) DEF Slots
<1>3. /\ IsFiniteSet(Slots \ {s})
      /\ Cardinality(Slots \ {s}) < Cardinality(Slots)
  <2>1. /\ IsFiniteSet(Slots \ {s})
        /\ Cardinality(Slots \ {s}) = Cardinality(Slots) - 1
    BY <1>0, <1>2, FS_RemoveElement
  <2>2. QED
    BY <1>2, <2>1, SizesAssumption, SMTT(30)
<1>4. s \notin Stack(T)
  BY <1>0 DEF WF, Partition
<1>5. T.free_slots \in [Slots -> Slots \ {s}]
  BY <1>0, <1>1, <1>4, Fields DEF Stack, Slots
<1>6. \E x, y \in Slots : x # y /\ T.free_slots[x] = T.free_slots[y]
  BY <1>2, <1>3, <1>5, FS_PigeonHole, SMTT(30)
<1>7. QED
  BY <1>1, <1>6 DEF WF, StackDistinct, Slots

----------------------------------------------------------------------------
(* The operations keep a table well formed *)

\* MemoryTable::new pushes every slot once.
LEMMA NewTableWF ==
  ASSUME NEW T \in NewTables
  PROVE  /\ WF(T, {}) /\ Used(T) = {}
         /\ T.record_count = 0 /\ T.low_power_mode = FALSE
<1>0. PICK c \in [Slots -> Nat], d \in [Slots -> Nat] : T = NewTable(c, d)
  BY PksAssumption, SMTT(30) DEF NewTables
<1>1. T \in TableType
  BY <1>0, SizesAssumption, SMTT(30) DEF NewTable, TableType, Slots
<1>2. StackDistinct(T)
  BY <1>0, SizesAssumption, SMTT(30) DEF NewTable, StackDistinct, Slots
<1>3. ASSUME NEW s \in Slots PROVE s \in Stack(T)
  <2>1. /\ MaxRecords - 1 - s \in 0 .. MaxRecords - 1
        /\ MaxRecords - 1 - (MaxRecords - 1 - s) = s
    BY SizesAssumption, SMTT(30) DEF Slots
  <2>2. QED
    BY <1>0, <2>1, SizesAssumption DEF NewTable, Stack, Slots
<1>4. Used(T) = {}
  BY <1>0 DEF NewTable, Used
<1>5. T.record_count = 0 /\ T.low_power_mode = FALSE
  BY <1>0 DEF NewTable
<1>6. QED
  BY <1>1, <1>2, <1>3, <1>4, <1>5 DEF WF, Partition

\* insert: in the slot on top of the stack below capacity, over a used slot at
\* capacity in low power mode.
LEMMA InsertRowWF ==
  ASSUME NEW T, NEW R \in SUBSET Slots, WF(T, R), NEW row \in Rows,
         NEW s \in InsertSlot(T)
  PROVE  /\ WF(InsertRow(T, s, row), R)
         /\ InsertRow(T, s, row).low_power_mode = T.low_power_mode
         /\ Used(InsertRow(T, s, row)) = Used(T) \cup {s}
         /\ \/ /\ s \in Used(T)
               /\ InsertRow(T, s, row).record_count = T.record_count
            \/ /\ s \notin Used(T)
               /\ InsertRow(T, s, row).record_count = T.record_count + 1
<1> DEFINE P == PutRow(T, s, row)
           N == InsertRow(T, s, row)
<1>0. T \in TableType
  BY DEF WF
<1>1. s \in Slots
  <2>1. CASE AtCapacity(T)
    BY <2>1 DEF InsertSlot, OldestSlot, Used
  <2>2. CASE ~AtCapacity(T)
    <3>0. T.free_slot_count # 0 /\ T.free_slot_count \in 0 .. MaxRecords
      BY <1>0, <2>2, Fields DEF InsertSlot
    <3>1. T.free_slot_count - 1 \in Slots
      BY <3>0, SizesAssumption, SMTT(30) DEF Slots
    <3>2. QED
      BY <1>0, <2>2, <3>1, Fields DEF InsertSlot
  <2>3. QED
    BY <2>1, <2>2
<1>2. /\ P \in TableType
      /\ P.free_slots = T.free_slots
      /\ P.free_slot_count = T.free_slot_count
      /\ P.status = [T.status EXCEPT ![s] = "Used"]
      /\ P.low_power_mode = T.low_power_mode
  BY <1>0, <1>1, PutRowEffect
<1>3. Larger(P.max_pk, row.pk) \in Nat
  BY <1>2, Fields, PksAssumption DEF Larger, Rows
<1>7. P.record_count = T.record_count /\ T.record_count \in Int
  BY <1>0, Fields DEF PutRow, TableType
<1>4. CASE AtCapacity(T)
  <2>1. T.status[s] = "Used"
    BY <1>4 DEF InsertSlot, OldestSlot, Used
  <2>2. /\ N \in TableType
        /\ N.free_slots = T.free_slots
        /\ N.free_slot_count = T.free_slot_count
        /\ N.status = P.status
        /\ N.low_power_mode = T.low_power_mode
        /\ N.record_count = T.record_count
    <3> HIDE DEF P
    <3>1. N = [P EXCEPT !.max_pk = Larger(@, row.pk),
                        !.free_slot_count = @ - 0, !.record_count = @ + 0]
      BY <1>4 DEF InsertRow, P
    <3>2. P.free_slot_count - 0 = P.free_slot_count
      BY <1>2, Fields, SMTT(30)
    <3>3. P.record_count + 0 = T.record_count /\ T.record_count \in Int
      BY <1>7, SMTT(30)
    <3>4. QED
      BY <1>2, <1>3, <3>1, <3>2, <3>3 DEF TableType
  <2>3. N.status = T.status
    BY <1>0, <1>2, <2>1, <2>2, Fields, SMTT(30)
  <2>4. Used(N) = Used(T) /\ s \in Used(T)
    BY <1>1, <2>1, <2>3 DEF Used
  <2>5. WF(N, R)
    BY <2>2, <2>3, SMTT(30) DEF WF, StackDistinct, Partition, Stack, Used
  <2>6. QED
    BY <2>2, <2>4, <2>5
<1>5. CASE ~AtCapacity(T)
  <2>1. /\ T.free_slot_count \in 1 .. MaxRecords
        /\ s = T.free_slots[T.free_slot_count - 1]
    BY <1>0, <1>5, Fields, SizesAssumption, SMTT(30) DEF InsertSlot
  <2>2. /\ N \in TableType
        /\ N.free_slots = T.free_slots
        /\ N.free_slot_count = T.free_slot_count - 1
        /\ N.status = P.status
        /\ N.low_power_mode = T.low_power_mode
        /\ N.record_count = T.record_count + 1
    <3> HIDE DEF P
    <3>1. N = [P EXCEPT !.max_pk = Larger(@, row.pk),
                        !.free_slot_count = @ - 1, !.record_count = @ + 1]
      BY <1>5 DEF InsertRow, P
    <3>2. P.free_slot_count - 1 \in 0 .. MaxRecords
      BY <1>2, <2>1, SizesAssumption, SMTT(30)
    <3>3. P.record_count + 1 = T.record_count + 1 /\ T.record_count + 1 \in Int
      BY <1>7, SMTT(30)
    <3>4. N = [P EXCEPT !.max_pk = Larger(P.max_pk, row.pk),
                        !.free_slot_count = P.free_slot_count - 1,
                        !.record_count = T.record_count + 1]
      BY <3>1, <3>3
    <3> HIDE DEF N
    <3>5. N \in TableType
      BY <1>2, <1>3, <3>2, <3>3, <3>4 DEF TableType
    <3>6. QED
      BY <1>2, <3>4, <3>5 DEF TableType
  <2>3. {T.free_slots[T.free_slot_count - j] : j \in 1 .. 1} = {s}
    BY <2>1, SMTT(30)
  <2>4. 1 \in 1 .. T.free_slot_count
    BY <2>1, SizesAssumption, SMTT(30)
  <2>5. /\ StackDistinct(N)
        /\ Stack(N) = Stack(T) \ {s}
        /\ s \in Stack(T)
    BY <1>0, <2>2, <2>3, <2>4, PopEffect, SMTT(30) DEF WF
  <2>6. Used(N) = Used(T) \cup {s}
    BY <1>0, <1>1, <1>2, <2>2, Fields, SMTT(30) DEF Used
  <2>7. s \notin Used(T)
    BY <1>1, <2>5 DEF WF, Partition
  <2>8. QED
    BY <1>1, <2>2, <2>5, <2>6, <2>7 DEF WF, Partition
<1>6. QED
  BY <1>4, <1>5

\* update of a slot, whether or not it holds a record.
LEMMA UpdateRowWF ==
  ASSUME NEW T, NEW R, WF(T, R), NEW s \in Slots, NEW row \in Rows
  PROVE  /\ WF(UpdateRow(T, s, row), R)
         /\ UpdateRow(T, s, row).low_power_mode = T.low_power_mode
         /\ Used(UpdateRow(T, s, row)) = Used(T)
         /\ UpdateRow(T, s, row).record_count = T.record_count
<1>1. T \in TableType
  BY DEF WF
<1>2. UpdateRow(T, s, row).record_count = T.record_count
  BY <1>1 DEF UpdateRow, TableType
<1>3. QED
  BY <1>1, <1>2, UpdateRowEffect, SMTT(30) DEF WF, StackDistinct, Partition, Stack, Used

\* delete pushes the slot it frees.
LEMMA DeleteRowWF ==
  ASSUME NEW T, NEW R \in SUBSET Slots, WF(T, R), NEW s \in Used(T)
  PROVE  /\ WF(DeleteRow(T, s), R)
         /\ DeleteRow(T, s).low_power_mode = T.low_power_mode
         /\ Used(DeleteRow(T, s)) = Used(T) \ {s}
         /\ DeleteRow(T, s).record_count = T.record_count - 1
<1> DEFINE c == T.free_slot_count
           P == PushFree(T, s)
           N == DeleteRow(T, s)
<1>0. T \in TableType /\ s \in Slots /\ T.status[s] = "Used"
  BY DEF WF, Used
<1>1. c < MaxRecords /\ c \in Slots /\ c + 1 \in 0 .. MaxRecords
  BY <1>0, StackHasRoom, Fields, SizesAssumption, SMTT(30) DEF Slots
<1>2. P = [T EXCEPT !.free_slots[c] = s, !.free_slot_count = @ + 1]
  BY <1>1 DEF PushFree
<1>3. /\ P \in TableType
      /\ P.free_slots = [T.free_slots EXCEPT ![c] = s]
      /\ P.free_slot_count = c + 1
      /\ P.status = T.status
      /\ P.low_power_mode = T.low_power_mode
      /\ P.record_count = T.record_count
  <2>1. /\ T.free_slots \in [Slots -> Slots]
        /\ [T.free_slots EXCEPT ![c] = s] \in [Slots -> Slots]
    BY <1>0, <1>1, Fields
  <2> HIDE DEF P
  <2>2. QED
    BY <1>0, <1>1, <1>2, <2>1 DEF TableType
<1>4. /\ N \in TableType
      /\ N.free_slots = P.free_slots
      /\ N.free_slot_count = P.free_slot_count
      /\ N.status = [P.status EXCEPT ![s] = "Free"]
      /\ N.low_power_mode = P.low_power_mode
      /\ N.record_count = P.record_count - 1
  <2> HIDE DEF P
  <2>1. N = [P EXCEPT !.status[s] = "Free", !.version[s] = Bump(@),
                      !.data[s] = ZeroRow, !.record_count = @ - 1]
    BY DEF DeleteRow, P
  <2>2. Bump(P.version[s]) \in 0 .. VersionMod - 1
    BY <1>0, <1>3, BumpType, Fields
  <2>3. P.record_count - 1 \in Int
    BY <1>3, Fields, SMTT(30)
  <2>4. /\ P.status \in [Slots -> {"Free", "Used"}]
        /\ P.version \in [Slots -> 0 .. VersionMod - 1]
        /\ P.data \in [Slots -> Rows \cup {ZeroRow}]
    BY <1>3, Fields
  <2>5. /\ [P.status EXCEPT ![s] = "Free"] \in [Slots -> {"Free", "Used"}]
        /\ [P.version EXCEPT ![s] = Bump(P.version[s])]
             \in [Slots -> 0 .. VersionMod - 1]
        /\ [P.data EXCEPT ![s] = ZeroRow] \in [Slots -> Rows \cup {ZeroRow}]
    BY <1>0, <2>2, <2>4
  <2>6. QED
    BY <1>3, <2>1, <2>3, <2>5, ZenonT(60) DEF TableType
<1>5. \A i \in 0 .. c - 1 : N.free_slots[i] = T.free_slots[i]
  <2> HIDE DEF P, N
  <2>1. \A i \in 0 .. c - 1 : i \in Slots /\ i # c
    BY <1>1, SizesAssumption, SMTT(30) DEF Slots
  <2>2. T.free_slots \in [Slots -> Slots]
    BY <1>0, Fields
  <2> HIDE DEF c
  <2>3. QED
    BY <1>3, <1>4, <2>1, <2>2
<1>6. N.free_slots[c] = s
  BY <1>0, <1>1, <1>3, <1>4, Fields, SMTT(30)
<1>7. c \in Nat /\ N.free_slot_count - 1 = c
  BY <1>0, <1>3, <1>4, Fields, SizesAssumption, SMTT(30)
<1>8. s \notin Stack(T) /\ s \notin R
  BY <1>0 DEF WF, Partition
<1>9. Stack(N) = Stack(T) \cup {s}
  <2> HIDE DEF c, P, N
  <2>1. ASSUME NEW x \in Stack(N) PROVE x \in Stack(T) \cup {s}
    <3>1. PICK i \in 0 .. c : x = N.free_slots[i]
      BY <1>7 DEF Stack
    <3>2. CASE i = c
      BY <3>1, <3>2, <1>6
    <3>3. CASE i \in 0 .. c - 1
      BY <3>1, <3>3, <1>5 DEF Stack, c
    <3>4. QED
      BY <3>2, <3>3, <1>7, SMTT(30)
  <2>2. Stack(T) \subseteq Stack(N)
    BY <1>5, <1>7, SMTT(30) DEF Stack, c
  <2>3. s \in Stack(N)
    BY <1>6, <1>7, SMTT(30) DEF Stack
  <2>4. QED
    BY <2>1, <2>2, <2>3
<1>10. StackDistinct(N)
  <2> HIDE DEF P, N
  <2>1. \A i \in 0 .. c - 1 : N.free_slots[i] # s
    BY <1>5, <1>8 DEF Stack
  <2>2. QED
    BY <1>5, <1>6, <1>7, <2>1, SMTT(30) DEF StackDistinct, WF
<1>11. Used(N) = Used(T) \ {s}
  BY <1>0, <1>3, <1>4, Fields, SMTT(30) DEF Used
<1>12. QED
  BY <1>0, <1>3, <1>4, <1>8, <1>9, <1>10, <1>11 DEF WF, Partition

\* The first critical section of batch_insert: the slots it takes off the
\* stack are distinct, free, and in no other batch.
LEMMA BatchReserveWF ==
  ASSUME NEW T, NEW R \in SUBSET Slots, WF(T, R), T.low_power_mode = FALSE,
         NEW n \in Nat
  PROVE  LET S == BatchSlots(T, n)
             A == {S[j] : j \in DOMAIN S}
         IN  /\ S \in Seq(Slots) /\ Len(S) <= n
             /\ \A i, j \in DOMAIN S : S[i] = S[j] => i = j
             /\ A \subseteq Slots /\ A \cap R = {}
             /\ WF(BatchReserve(T, n), R \cup A)
             /\ BatchReserve(T, n).low_power_mode = FALSE
<1> DEFINE c == T.free_slot_count
           w == BatchSize(T, n)
           p == Smaller(w, c)
           S == BatchSlots(T, n)
           A == {S[j] : j \in DOMAIN S}
           N == BatchReserve(T, n)
<1>0. T \in TableType /\ c \in 0 .. MaxRecords /\ T.record_count \in Int
      /\ T.free_slots \in [Slots -> Slots]
  BY Fields DEF WF
<1>1. w \in 0 .. n
  <2>1. Available(T) \in Int
    BY <1>0, SizesAssumption, SMTT(30) DEF Available, EffectiveMax
  <2>2. QED
    BY <2>1, SMTT(30) DEF BatchSize
<1>2. p \in 0 .. c /\ p <= n /\ c - p \in 0 .. MaxRecords
  BY <1>0, <1>1, SizesAssumption, SMTT(30) DEF Smaller
<1>3. S = [j \in 1 .. p |-> T.free_slots[c - j]]
  BY SMTT(30) DEF BatchSlots
<1>4. /\ N \in TableType /\ N.free_slots = T.free_slots
      /\ N.free_slot_count = c - p /\ N.status = T.status
      /\ N.low_power_mode = FALSE
  <2> HIDE DEF p
  <2>1. N = [T EXCEPT !.free_slot_count = c - p]
    BY DEF BatchReserve, p
  <2>2. QED
    BY <1>0, <1>2, <2>1 DEF TableType
<1>5. CASE p = 0
  <2>1. S = <<>> /\ A = {} /\ c - 0 = c
    BY <1>0, <1>2, <1>3, <1>5, SMTT(30)
  <2>2. N.free_slot_count = T.free_slot_count
    BY <1>4, <1>5, <2>1
  <2>3. WF(N, R)
    BY <1>4, <2>2, SMTT(30) DEF WF, StackDistinct, Partition, Stack, Used
  <2> HIDE DEF N, S
  <2>4. /\ S \in Seq(Slots) /\ Len(S) <= n
        /\ \A i, j \in DOMAIN S : S[i] = S[j] => i = j
    BY <2>1, SMTT(30)
  <2>5. QED
    BY <1>4, <2>1, <2>3, <2>4 DEF N, S
<1>6. CASE p # 0
  <2> HIDE DEF S, N, p
  <2>1. p \in 1 .. T.free_slot_count
    BY <1>0, <1>2, <1>6, SizesAssumption, SMTT(30)
  <2>2. DOMAIN S = 1 .. p /\ A = {T.free_slots[c - j] : j \in 1 .. p}
    BY <1>3
  <2>3. /\ StackDistinct(N)
        /\ A \subseteq Slots
        /\ Stack(N) = Stack(T) \ A
        /\ A \subseteq Stack(T)
    BY <1>0, <1>4, <2>1, <2>2, PopEffect DEF WF
  <2>4. S \in Seq(Slots) /\ Len(S) = p
    <3>1. \A j \in 1 .. p : S[j] \in Slots
      BY <2>2, <2>3
    <3>2. QED
      BY <1>2, <1>3, <2>2, <3>1, SMTT(30)
  <2>5. \A i, j \in DOMAIN S : S[i] = S[j] => i = j
    <3>1. TAKE i, j \in DOMAIN S
    <3>2. HAVE S[i] = S[j]
    <3>3. /\ c - i \in 0 .. c - 1 /\ c - j \in 0 .. c - 1
          /\ T.free_slots[c - i] = T.free_slots[c - j]
      BY <1>0, <1>2, <1>3, <2>2, <3>2, SizesAssumption, SMTT(30)
    <3>4. c - i = c - j
      BY <3>3 DEF WF, StackDistinct
    <3>5. QED
      BY <1>0, <1>2, <2>2, <3>4, SizesAssumption, SMTT(30)
  <2>6. Used(N) = Used(T)
    BY <1>4 DEF Used
  <2>7. A \cap R = {} /\ WF(N, R \cup A)
    BY <1>4, <2>3, <2>6 DEF WF, Partition
  <2>8. QED
    BY <1>2, <1>4, <2>3, <2>4, <2>5, <2>7 DEF S, N
<1>7. QED
  BY <1>5, <1>6

\* A batch writes a record into a slot it has taken.
LEMMA PutTakenWF ==
  ASSUME NEW T, NEW R \in SUBSET Slots, WF(T, R), NEW s \in R, NEW row \in Rows
  PROVE  /\ WF(PutRow(T, s, row), R \ {s})
         /\ PutRow(T, s, row).low_power_mode = T.low_power_mode
<1> DEFINE N == PutRow(T, s, row)
<1>1. T \in TableType /\ s \in Slots
  BY DEF WF
<1>2. /\ N \in TableType /\ N.free_slots = T.free_slots
      /\ N.free_slot_count = T.free_slot_count
      /\ N.status = [T.status EXCEPT ![s] = "Used"]
      /\ N.low_power_mode = T.low_power_mode
  BY <1>1, PutRowEffect
<1>3. T.status \in [Slots -> {"Free", "Used"}]
  BY <1>1, Fields
<1> HIDE DEF N
<1>4. Used(N) = Used(T) \cup {s}
  BY <1>1, <1>2, <1>3 DEF Used
<1>5. StackDistinct(N) /\ Stack(N) = Stack(T)
  BY <1>2, SMTT(30) DEF WF, StackDistinct, Stack
<1>6. QED
  BY <1>1, <1>2, <1>4, <1>5 DEF WF, Partition, N

\* The second critical section of batch_insert.
LEMMA BatchCountedWF ==
  ASSUME NEW T, NEW R, WF(T, R), NEW max, NEW n \in Nat
  PROVE  /\ WF(BatchCounted(T, max, n), R)
         /\ BatchCounted(T, max, n).low_power_mode = T.low_power_mode
<1> DEFINE N == BatchCounted(T, max, n)
<1>1. T \in TableType /\ T.record_count \in Int
  BY Fields DEF WF
<1>2. PICK m \in Int : N = [T EXCEPT !.record_count = m]
  <2>1. CASE T.low_power_mode /\ (T.record_count < 0 \/ T.record_count >= max)
    <3>1. N = [T EXCEPT !.record_count = T.record_count]
      BY <2>1 DEF BatchCounted
    <3>2. QED
      BY <1>1, <3>1
  <2>2. CASE ~(T.low_power_mode /\ (T.record_count < 0 \/ T.record_count >= max))
    <3>1. N = [T EXCEPT !.record_count = T.record_count + n]
      BY <2>2 DEF BatchCounted
    <3>2. T.record_count + n \in Int
      BY <1>1, SMTT(30)
    <3>3. QED
      BY <3>1, <3>2
  <2>3. QED
    BY <2>1, <2>2
<1> HIDE DEF N
<1>3. /\ N \in TableType /\ N.free_slots = T.free_slots
      /\ N.free_slot_count = T.free_slot_count /\ N.status = T.status
      /\ N.low_power_mode = T.low_power_mode
  BY <1>1, <1>2 DEF TableType
<1>4. QED
  BY <1>3, SMTT(30) DEF WF, StackDistinct, Partition, Stack, Used, N

----------------------------------------------------------------------------
(* The number of records *)

\* Consistency of a table on its own.
Sound(T) == WF(T, {}) /\ T.record_count = Cardinality(Used(T))

\* A table has finitely many records.
LEMMA UsedFinite ==
  ASSUME NEW T
  PROVE  IsFiniteSet(Used(T)) /\ Cardinality(Used(T)) \in Nat
<1>1. IsFiniteSet(Slots)
  BY FS_Interval, SizesAssumption, SMTT(30) DEF Slots
<1>2. Used(T) \subseteq Slots
  BY DEF Used
<1>3. IsFiniteSet(Used(T))
  BY <1>1, <1>2, FS_Subset
<1>4. QED
  BY <1>3, FS_CardinalityType

\* One record more, one record less.
LEMMA CountAdd ==
  ASSUME NEW T, NEW N, NEW s, s \notin Used(T), Used(N) = Used(T) \cup {s},
         T.record_count = Cardinality(Used(T)),
         N.record_count = T.record_count + 1
  PROVE  N.record_count = Cardinality(Used(N))
<1>1. IsFiniteSet(Used(T))
  BY UsedFinite
<1>2. Cardinality(Used(T) \cup {s}) = Cardinality(Used(T)) + 1
  BY <1>1, FS_AddElement
<1>3. QED
  BY <1>2

\* One record less, one less in record_count.
LEMMA CountRemove ==
  ASSUME NEW T, NEW N, NEW s \in Used(T), Used(N) = Used(T) \ {s},
         T.record_count = Cardinality(Used(T)),
         N.record_count = T.record_count - 1
  PROVE  N.record_count = Cardinality(Used(N))
<1>1. IsFiniteSet(Used(T))
  BY UsedFinite
<1>2. Cardinality(Used(T) \ {s}) = Cardinality(Used(T)) - 1
  BY <1>1, FS_RemoveElement
<1>3. QED
  BY <1>2

----------------------------------------------------------------------------
(* The operations keep a table sound *)

\* The slot insert picks is a slot of the table.
LEMMA SlotOfInsert ==
  ASSUME NEW T, WF(T, {}), NEW s \in InsertSlot(T)
  PROVE  s \in Slots
<1>1. CASE s \in OldestSlot(T)
  BY <1>1 DEF OldestSlot, Used
<1>2. CASE T.free_slot_count # 0 /\ s = T.free_slots[T.free_slot_count - 1]
  <2>1. T.free_slot_count - 1 \in Slots
    BY <1>2, Fields, SizesAssumption, SMTT(30) DEF WF, Slots
  <2>2. QED
    BY <1>2, <2>1, Fields DEF WF
<1>3. QED
  BY <1>1, <1>2 DEF InsertSlot

\* insert, update and delete keep a table sound, at its limit in low power mode
\* too.
LEMMA InsertSound ==
  ASSUME NEW T, Sound(T), NEW row \in Rows, NEW s \in InsertSlot(T)
  PROVE  Sound(InsertRow(T, s, row))
<1> DEFINE N == InsertRow(T, s, row)
<1>1. /\ WF(N, {}) /\ Used(N) = Used(T) \cup {s}
      /\ \/ s \in Used(T) /\ N.record_count = T.record_count
         \/ s \notin Used(T) /\ N.record_count = T.record_count + 1
  BY InsertRowWF DEF Sound
<1> HIDE DEF N
<1>2. CASE s \in Used(T)
  <2>1. Used(N) = Used(T)
    BY <1>1, <1>2
  <2>2. QED
    BY <1>1, <1>2, <2>1 DEF Sound, N
<1>3. CASE s \notin Used(T)
  BY <1>1, <1>3, CountAdd DEF Sound, N
<1>4. QED
  BY <1>2, <1>3

\* update keeps a table sound.
LEMMA UpdateSound ==
  ASSUME NEW T, Sound(T), NEW row \in Rows, NEW s \in Slots
  PROVE  Sound(UpdateRow(T, s, row))
BY UpdateRowWF DEF Sound

\* delete keeps a table sound.
LEMMA DeleteSound ==
  ASSUME NEW T, Sound(T), NEW s \in Used(T)
  PROVE  Sound(DeleteRow(T, s))
<1>1. /\ WF(DeleteRow(T, s), {}) /\ Used(DeleteRow(T, s)) = Used(T) \ {s}
      /\ DeleteRow(T, s).record_count = T.record_count - 1
  BY DeleteRowWF DEF Sound
<1>2. QED
  BY <1>1, CountRemove DEF Sound

----------------------------------------------------------------------------
(* Contents and the primary index *)

\* What a table can hold: rows in some of its slots.
Contents == UNION {[D -> Rows \cup {ZeroRow}] : D \in SUBSET Slots}

\* A content is a function on some of the slots, which are finitely many.
LEMMA ContentsDomain ==
  ASSUME NEW f \in Contents
  PROVE  /\ DOMAIN f \subseteq Slots /\ f \in [DOMAIN f -> Rows \cup {ZeroRow}]
         /\ f = [s \in DOMAIN f |-> f[s]]
BY DEF Contents

\* A content has finitely many records.
LEMMA ContentFinite ==
  ASSUME NEW f \in Contents
  PROVE  IsFiniteSet(DOMAIN f) /\ Cardinality(DOMAIN f) \in Nat
<1>1. IsFiniteSet(Slots)
  BY FS_Interval, SizesAssumption, SMTT(30) DEF Slots
<1>2. IsFiniteSet(DOMAIN f)
  BY <1>1, ContentsDomain, FS_Subset
<1>3. QED
  BY <1>2, FS_CardinalityType

\* A content without the record of a slot.
LEMMA ContentWithout ==
  ASSUME NEW f \in Contents, NEW s
  PROVE  [u \in DOMAIN f \ {s} |-> f[u]] \in Contents
<1> DEFINE D == DOMAIN f \ {s}
<1>1. D \in SUBSET Slots /\ D \subseteq DOMAIN f
      /\ f \in [DOMAIN f -> Rows \cup {ZeroRow}]
  BY ContentsDomain
<1> HIDE DEF D
<1>2. [u \in D |-> f[u]] \in [D -> Rows \cup {ZeroRow}]
  BY <1>1
<1>3. QED
  BY <1>1, <1>2 DEF Contents, D

\* A key with an item has a newest item.
LEMMA FirstItemExists ==
  ASSUME NEW Keys, NEW I \in IndexType(Keys, Slots), NEW key, HasKey(I, key)
  PROVE  FirstItem(I, key) \in DOMAIN I /\ I[FirstItem(I, key)].key = key
<1> DEFINE P == {i \in DOMAIN I : I[i].key = key}
           Less == OpToRel(<, Nat)
<1>1. I \in Seq([key : Keys, id : Slots])
  BY DEF IndexType
<1>2. DOMAIN I = 1 .. Len(I) /\ Len(I) \in Nat
  BY <1>1, SMTT(30)
<1>3. P \subseteq Nat /\ P # {}
  BY <1>2, SMTT(30) DEF HasKey
<1>4. IsWellFoundedOn(Less, Nat)
  BY NatLessThanWellFounded
<1> HIDE DEF P, Less
<1>5. PICK x \in P : \A y \in P : ~(<<y, x>> \in Less)
  BY <1>3, <1>4, WFMin
<1>6. \A y \in P : ~(y < x)
  <2>1. SUFFICES ASSUME NEW y \in P, y < x PROVE <<y, x>> \in Less
    BY <1>5
  <2>2. <<y, x>> \in Nat \X Nat /\ <<y, x>>[1] < <<y, x>>[2]
    BY <1>3, <2>1
  <2>3. QED
    BY <2>2 DEF Less, OpToRel
<1>7. x \in DOMAIN I /\ I[x].key = key
  BY DEF P
<1>8. \A j \in 1 .. x - 1 : I[j].key # key
  <2>1. SUFFICES ASSUME NEW j \in 1 .. x - 1, I[j].key = key PROVE FALSE
    OBVIOUS
  <2>2. j \in DOMAIN I /\ j < x
    BY <1>2, <1>7, SMTT(30)
  <2>3. j \in P
    BY <2>1, <2>2 DEF P
  <2>4. QED
    BY <1>6, <2>2, <2>3
<1>9. QED
  BY <1>7, <1>8 DEF FirstItem

\* The operations of the index keep its type.
LEMMA IndexOpsType ==
  ASSUME NEW Keys, NEW I \in IndexType(Keys, Slots)
  PROVE  /\ \A key : IndexDelete(I, key) \in IndexType(Keys, Slots)
         /\ \A max : \A key \in Keys, id \in Slots :
              IndexInsert(I, max, key, id) \in IndexType(Keys, Slots)
<1> DEFINE Item == [key : Keys, id : Slots]
<1>1. I \in Seq(Item) /\ Len(I) \in Nat /\ DOMAIN I = 1 .. Len(I)
  BY SMTT(30) DEF IndexType
<1>2. ASSUME NEW key PROVE IndexDelete(I, key) \in Seq(Item)
  <2>1. CASE ~HasKey(I, key)
    BY <1>1, <2>1 DEF IndexDelete
  <2>2. CASE HasKey(I, key)
    <3> DEFINE i == FirstItem(I, key)
    <3>1. i \in 1 .. Len(I)
      BY <1>1, <2>2, FirstItemExists
    <3> HIDE DEF i, Item
    <3>2. /\ SubSeq(I, 1, i - 1) \in Seq(Item)
          /\ SubSeq(I, i + 1, Len(I)) \in Seq(Item)
      BY <1>1, <3>1, SMTT(30)
    <3>3. SubSeq(I, 1, i - 1) \o SubSeq(I, i + 1, Len(I)) \in Seq(Item)
      BY <3>2, SMTT(30)
    <3>4. QED
      BY <2>2, <3>3 DEF IndexDelete, i
  <2>3. QED
    BY <2>1, <2>2
<1>3. ASSUME NEW key \in Keys, NEW id \in Slots, NEW max
      PROVE  IndexInsert(I, max, key, id) \in Seq(Item)
  <2>1. [key |-> key, id |-> id] \in Item
    OBVIOUS
  <2> HIDE DEF Item
  <2>2. <<[key |-> key, id |-> id]>> \o I \in Seq(Item)
    BY <1>1, <2>1, SMTT(30)
  <2>3. QED
    BY <1>1, <2>2 DEF IndexInsert
<1>4. QED
  BY <1>2, <1>3 DEF IndexType

\* The items of index I are the records of content f, one item for each.
Exact(I, f) ==
  /\ \A i \in DOMAIN I : I[i].id \in DOMAIN f /\ I[i].key = f[I[i].id].pk
  /\ \A s \in DOMAIN f : \E i \in DOMAIN I : I[i].id = s
  /\ \A i, j \in DOMAIN I : I[i].key = I[j].key => i = j
  /\ Len(I) = Cardinality(DOMAIN f)

Index == IndexType(Pks \cup {0}, Slots)

\* delete takes the item of its key out of the sequence.
LEMMA IndexDeleteEffect ==
  ASSUME NEW I \in Index, NEW k \in DOMAIN I,
         \A i, j \in DOMAIN I : I[i].key = I[j].key => i = j
  PROVE  LET J == IndexDelete(I, I[k].key)
         IN  /\ J \in Index
             /\ Len(J) = Len(I) - 1
             /\ \A j \in 1 .. Len(J) : J[j] = IF j < k THEN I[j] ELSE I[j + 1]
<1> DEFINE key == I[k].key
           J == IndexDelete(I, key)
           Item == [key : Pks \cup {0}, id : Slots]
<1>1. J \in Index
  BY IndexOpsType DEF Index
<1>2. I \in Seq(Item) /\ Len(I) \in Nat /\ DOMAIN I = 1 .. Len(I)
  BY SMTT(30) DEF Index, IndexType
<1>3. HasKey(I, key)
  BY DEF HasKey
<1>4. FirstItem(I, key) = k
  <2>1. FirstItem(I, key) \in DOMAIN I /\ I[FirstItem(I, key)].key = key
    BY <1>3, FirstItemExists DEF Index
  <2>2. QED
    BY <2>1
<1>5. J = SubSeq(I, 1, k - 1) \o SubSeq(I, k + 1, Len(I))
  BY <1>3, <1>4 DEF IndexDelete
<1> DEFINE A == SubSeq(I, 1, k - 1)
           B == SubSeq(I, k + 1, Len(I))
           n == Len(I)
<1> HIDE DEF J, key, Item
<1>6. k \in 1 .. n /\ n \in Nat
  BY <1>2
<1>7. /\ A \in Seq(Item) /\ Len(A) = k - 1
      /\ \A j \in 1 .. k - 1 : A[j] = I[j]
  BY <1>2, <1>6, SMTT(30)
<1>8. /\ B \in Seq(Item) /\ Len(B) = n - k
      /\ \A j \in 1 .. n - k : B[j] = I[k + j]
  BY <1>2, <1>6, SMTT(30)
<1>9. J = A \o B
  BY <1>5
<1> HIDE DEF A, B, n
<1>10. /\ Len(J) = Len(A) + Len(B)
       /\ \A j \in 1 .. Len(A) + Len(B) :
            J[j] = IF j <= Len(A) THEN A[j] ELSE B[j - Len(A)]
  <2>1. A \in Seq(Item) /\ B \in Seq(Item)
    BY <1>7, <1>8
  <2>2. /\ Len(A \o B) = Len(A) + Len(B)
        /\ \A j \in 1 .. Len(A) + Len(B) :
             (A \o B)[j] = IF j <= Len(A) THEN A[j] ELSE B[j - Len(A)]
    BY <2>1, SMTT(30)
  <2>3. QED
    BY <1>9, <2>2
<1>11. Len(J) = n - 1
  BY <1>6, <1>7, <1>8, <1>10, SMTT(30)
<1>12. ASSUME NEW j \in 1 .. Len(J)
       PROVE  J[j] = IF j < k THEN I[j] ELSE I[j + 1]
  <2>1. CASE j < k
    <3>1. j \in 1 .. Len(A) + Len(B) /\ j <= Len(A) /\ j \in 1 .. k - 1
      BY <1>6, <1>7, <1>10, <2>1, SMTT(30)
    <3>2. QED
      BY <1>7, <1>10, <2>1, <3>1
  <2>2. CASE ~(j < k)
    <3>1. /\ j \in 1 .. Len(A) + Len(B) /\ ~(j <= Len(A))
          /\ j - Len(A) \in 1 .. n - k /\ k + (j - Len(A)) = j + 1
      BY <1>6, <1>7, <1>8, <1>10, <2>2, SMTT(30)
    <3>2. J[j] = B[j - Len(A)]
      BY <1>10, <3>1
    <3>3. B[j - Len(A)] = I[j + 1]
      BY <1>8, <3>1
    <3>4. QED
      BY <2>2, <3>2, <3>3
  <2>3. QED
    BY <2>1, <2>2
<1>13. QED
  BY <1>1, <1>11, <1>12 DEF J, key, n

\* insert puts an item in front.
LEMMA IndexInsertEffect ==
  ASSUME NEW I \in Index, Len(I) # MaxRecords, NEW key \in Pks \cup {0},
         NEW s \in Slots
  PROVE  LET J == IndexInsert(I, MaxRecords, key, s)
         IN  /\ J \in Index
             /\ Len(J) = Len(I) + 1
             /\ J[1].key = key /\ J[1].id = s
             /\ \A j \in 2 .. Len(J) : J[j] = I[j - 1]
<1> DEFINE x == [key |-> key, id |-> s]
           J == <<x>> \o I
           Item == [key : Pks \cup {0}, id : Slots]
<1>1. I \in Seq(Item) /\ Len(I) \in Nat
  BY SMTT(30) DEF Index, IndexType
<1>2. IndexInsert(I, MaxRecords, key, s) = J
  BY DEF IndexInsert
<1>3. IndexInsert(I, MaxRecords, key, s) \in Index
  BY IndexOpsType DEF Index
<1>4. x \in Item /\ x.key = key /\ x.id = s
  OBVIOUS
<1> HIDE DEF x, Item
<1>5. Len(J) = Len(I) + 1 /\ J[1] = x /\ \A j \in 2 .. Len(J) : J[j] = I[j - 1]
  BY <1>1, <1>4, SMTT(30)
<1>6. QED
  BY <1>2, <1>3, <1>4, <1>5

\* The record of slot s and its item go.
LEMMA ExactDelete ==
  ASSUME NEW I \in Index, NEW f \in Contents, Exact(I, f), NEW s \in DOMAIN f,
         NEW g, DOMAIN g = DOMAIN f \ {s}, \A u \in DOMAIN g : g[u] = f[u]
  PROVE  IndexDelete(I, f[s].pk) \in Index /\ Exact(IndexDelete(I, f[s].pk), g)
<1>1. Len(I) \in Nat /\ DOMAIN I = 1 .. Len(I)
  BY SMTT(30) DEF Index, IndexType
<1>2. PICK k \in DOMAIN I : I[k].id = s
  BY DEF Exact
<1>3. I[k].key = f[s].pk
  BY <1>2 DEF Exact
<1> DEFINE J == IndexDelete(I, I[k].key)
           o(j) == IF j < k THEN j ELSE j + 1
<1>4. /\ J \in Index /\ Len(J) = Len(I) - 1
      /\ \A j \in 1 .. Len(J) : J[j] = IF j < k THEN I[j] ELSE I[j + 1]
  <2>1. \A i, j \in DOMAIN I : I[i].key = I[j].key => i = j
    BY DEF Exact
  <2>2. QED
    BY <2>1, IndexDeleteEffect
<1> HIDE DEF J
<1>5. DOMAIN J = 1 .. Len(J) /\ k \in 1 .. Len(I) /\ Len(J) \in Nat
  BY <1>1, <1>4, SMTT(30) DEF Index, IndexType
<1>6. ASSUME NEW j \in DOMAIN J
      PROVE  J[j] = I[o(j)] /\ o(j) \in DOMAIN I /\ o(j) # k
  BY <1>1, <1>4, <1>5, SMTT(30)
<1>7. \A i, j \in DOMAIN J : o(i) = o(j) => i = j
  BY <1>1, <1>5, SMTT(30)
<1>8. ASSUME NEW i \in DOMAIN I, i # k
      PROVE  \E j \in DOMAIN J : o(j) = i
  <2>1. CASE i < k
    <3>1. i \in DOMAIN J /\ o(i) = i
      BY <1>1, <1>4, <1>5, <2>1, SMTT(30)
    <3>2. QED
      BY <3>1
  <2>2. CASE i > k
    <3>1. i - 1 \in DOMAIN J /\ o(i - 1) = i
      BY <1>1, <1>4, <1>5, <2>2, SMTT(30)
    <3>2. QED
      BY <3>1
  <2>3. QED
    BY <1>1, <1>5, <1>8, <2>1, <2>2, SMTT(30)
<1> HIDE DEF o
<1>9. ASSUME NEW i \in DOMAIN I, i # k PROVE I[i].id # s
  BY <1>2, <1>9, SMTT(30) DEF Exact
<1>10. \A j \in DOMAIN J : J[j].id \in DOMAIN g /\ J[j].key = g[J[j].id].pk
  BY <1>6, <1>9, SMTT(30) DEF Exact
<1>11. ASSUME NEW u \in DOMAIN g PROVE \E j \in DOMAIN J : J[j].id = u
  <2>1. PICK i \in DOMAIN I : I[i].id = u
    BY DEF Exact
  <2>2. i # k
    BY <1>2, <2>1
  <2>3. PICK j \in DOMAIN J : o(j) = i
    BY <1>8, <2>2
  <2>4. QED
    BY <1>6, <2>1, <2>3
<1>12. ASSUME NEW i \in DOMAIN J, NEW j \in DOMAIN J, J[i].key = J[j].key
       PROVE  i = j
  <2>1. o(i) = o(j)
    BY <1>6, <1>12, SMTT(30) DEF Exact
  <2>2. QED
    BY <1>7, <2>1
<1>13. Len(J) = Cardinality(DOMAIN g)
  <2>1. IsFiniteSet(DOMAIN f)
    BY ContentFinite
  <2>2. Cardinality(DOMAIN f \ {s}) = Cardinality(DOMAIN f) - 1
    BY <2>1, FS_RemoveElement
  <2>3. QED
    BY <1>4, <2>2 DEF Exact
<1>14. QED
  BY <1>3, <1>4, <1>10, <1>11, <1>12, <1>13 DEF Exact, J

\* A record comes to slot s, and an item in front of the others.
LEMMA ExactInsert ==
  ASSUME NEW I \in Index, NEW f \in Contents, Exact(I, f),
         NEW s \in Slots, s \notin DOMAIN f,
         NEW g, DOMAIN g = DOMAIN f \cup {s}, \A u \in DOMAIN f : g[u] = f[u],
         g[s].pk \in Pks \cup {0}, \A u \in DOMAIN f : f[u].pk # g[s].pk
  PROVE  LET J == IndexInsert(I, MaxRecords, g[s].pk, s)
         IN  J \in Index /\ Exact(J, g)
<1> DEFINE key == g[s].pk
           J == IndexInsert(I, MaxRecords, key, s)
<1>1. Len(I) \in Nat /\ DOMAIN I = 1 .. Len(I) /\ Len(I) = Cardinality(DOMAIN f)
  BY SMTT(30) DEF Index, IndexType, Exact
<1>2. IsFiniteSet(DOMAIN f) /\ DOMAIN f \subseteq Slots
  BY ContentFinite, ContentsDomain
<1>3. Cardinality(DOMAIN f \cup {s}) = Cardinality(DOMAIN f) + 1
  BY <1>2, FS_AddElement
<1>4. Len(I) # MaxRecords
  <2>1. IsFiniteSet(Slots) /\ Cardinality(Slots) = MaxRecords
    BY FS_Interval, SizesAssumption, SMTT(30) DEF Slots
  <2>2. Cardinality(DOMAIN f \cup {s}) <= MaxRecords
    BY <1>2, <2>1, FS_Subset
  <2>3. QED
    BY <1>1, <1>3, <2>2, SizesAssumption, SMTT(30)
<1>5. /\ J \in Index /\ Len(J) = Len(I) + 1
      /\ J[1].key = key /\ J[1].id = s
      /\ \A j \in 2 .. Len(J) : J[j] = I[j - 1]
  BY <1>4, IndexInsertEffect, SMTT(30)
<1> HIDE DEF J, key
<1>6. DOMAIN J = 1 .. Len(J) /\ Len(J) \in Nat
  BY <1>5, SMTT(30) DEF Index, IndexType
<1>7. ASSUME NEW j \in DOMAIN J, j # 1
      PROVE  J[j] = I[j - 1] /\ j - 1 \in DOMAIN I
  BY <1>1, <1>5, <1>6, <1>7, SMTT(30)
<1>8. ASSUME NEW i \in DOMAIN I PROVE i + 1 \in DOMAIN J /\ J[i + 1] = I[i]
  BY <1>1, <1>5, <1>6, SMTT(30)
<1>9. 1 \in DOMAIN J
  BY <1>1, <1>5, <1>6, SMTT(30)
<1>10. ASSUME NEW j \in DOMAIN J
       PROVE  J[j].id \in DOMAIN g /\ J[j].key = g[J[j].id].pk
  <2>1. CASE j = 1
    BY <1>5, <2>1 DEF key
  <2>2. CASE j # 1
    BY <1>7, <2>2, SMTT(30) DEF Exact
  <2>3. QED
    BY <2>1, <2>2
<1>11. ASSUME NEW u \in DOMAIN g PROVE \E j \in DOMAIN J : J[j].id = u
  <2>1. CASE u = s
    BY <1>5, <1>9, <2>1
  <2>2. CASE u # s
    <3>1. PICK i \in DOMAIN I : I[i].id = u
      BY <2>2 DEF Exact
    <3>2. QED
      BY <1>8, <3>1
  <2>3. QED
    BY <2>1, <2>2
<1>12. ASSUME NEW j \in DOMAIN J, j # 1 PROVE J[j].key # key
  BY <1>7, <1>12, SMTT(30) DEF Exact, key
<1>13. ASSUME NEW i \in DOMAIN J, NEW j \in DOMAIN J, J[i].key = J[j].key
       PROVE  i = j
  <2>1. CASE i = 1 \/ j = 1
    BY <1>5, <1>12, <1>13, <2>1
  <2>2. CASE i # 1 /\ j # 1
    <3>1. i - 1 = j - 1
      BY <1>7, <1>13, <2>2, SMTT(30) DEF Exact
    <3>2. QED
      BY <1>6, <3>1, SMTT(30)
  <2>3. QED
    BY <2>1, <2>2
<1>14. Len(J) = Cardinality(DOMAIN g)
  BY <1>1, <1>3, <1>5
<1>15. QED
  BY <1>5, <1>10, <1>11, <1>13, <1>14 DEF Exact, J, key
=============================================================================
