---------------------------- MODULE MemoryTable ----------------------------
(***************************************************************************)
(* The in-memory table of table.rs as a value.  A table is a record; every *)
(* operation of struct MemoryTable that changes the table is an operator   *)
(* from tables to tables.  The state machines of the project (threads,     *)
(* transactions, recovery, snapshots) are built from these operators.      *)
(*                                                                         *)
(* A row is a primary key and a payload; the bytes of the other columns    *)
(* are not told apart.  Arithmetic is that of the release build:           *)
(* record_count is a usize, so a negative value here stands for the value  *)
(* plus 2^64, and the u16 slot version wraps at VersionMod.                *)
(***************************************************************************)
EXTENDS Integers, FiniteSets

CONSTANTS MaxRecords,   \* def.max_records
          LowPowerMax,  \* low_power_max_records (MaxRecords when None)
          VersionMod,   \* 2^16 in the code
          StaleTxIds,   \* what the allocator leaves in a new table's headers
          Pks,          \* primary key values
          Vals,         \* payloads
          UniqueVal     \* the payload column is UNIQUE

ASSUME SizesAssumption ==
  /\ MaxRecords \in Nat \ {0}
  /\ LowPowerMax \in Nat
  /\ VersionMod \in Nat \ {0}

ASSUME PksAssumption ==
  Pks \subseteq Nat /\ StaleTxIds \subseteq Nat /\ UniqueVal \in BOOLEAN

Slots == 0 .. MaxRecords - 1
Rows == [pk : Pks, val : Vals]

\* What memset(record_ptr, 0, record_size) leaves in a slot.
ZeroRow == [pk |-> 0, val |-> 0]

TableType ==
  [ status : [Slots -> {"Free", "Used"}],
    version : [Slots -> 0 .. VersionMod - 1],
    create : [Slots -> Nat],              \* create_tx_id
    delete : [Slots -> Nat],              \* delete_tx_id
    data : [Slots -> Rows \cup {ZeroRow}],
    free_slots : [Slots -> Slots],        \* the array behind the stack
    free_slot_count : 0 .. MaxRecords,
    record_count : Int,
    max_pk : Nat,
    low_power_mode : BOOLEAN ]

(***************************************************************************)
(* MemoryTable::new.  It sets status and version of the headers; their     *)
(* create_tx_id and delete_tx_id are what the memory held before, 0 when   *)
(* the pool was zeroed and the block never used.                           *)
(***************************************************************************)
NewTable(create, delete) ==
  [ status |-> [s \in Slots |-> "Free"],
    version |-> [s \in Slots |-> 0],
    create |-> create,
    delete |-> delete,
    data |-> [s \in Slots |-> ZeroRow],
    free_slots |-> [i \in Slots |-> MaxRecords - 1 - i],
    free_slot_count |-> MaxRecords,
    record_count |-> 0,
    max_pk |-> 0,
    low_power_mode |-> FALSE ]

NewTables ==
  {NewTable(create, delete) : create, delete \in [Slots -> StaleTxIds]}

Used(T) == {s \in Slots : T.status[s] = "Used"}
Stack(T) == {T.free_slots[i] : i \in 0 .. T.free_slot_count - 1}

Bump(v) == (v + 1) % VersionMod
Larger(a, b) == IF a > b THEN a ELSE b

(***************************************************************************)
(* validate_constraints: a used slot other than `excl` that is visible to  *)
(* the transaction counter `cur` and holds the same key, or the same value *)
(* of a UNIQUE column, is a conflict.                                      *)
(***************************************************************************)
\* Mutant: the comparison is reversed for records of transactions.
IsVisibleReversed(create, delete, cur) == create = 0 \/ create >= cur

IsVisible(create, delete, cur) ==
  \/ create = cur
  \/ create < cur /\ ~(0 < delete /\ delete < cur)

SamePk(T, s, row) == T.data[s].pk = row.pk
SameUnique(T, s, row) == UniqueVal /\ T.data[s].val = row.val

Conflict(T, row, excl, cur) ==
  \E s \in Used(T) \ excl :
     /\ IsVisible(T.create[s], T.delete[s], cur)
     /\ SamePk(T, s, row) \/ SameUnique(T, s, row)

(***************************************************************************)
(* insert, after the lock is taken                                         *)
(***************************************************************************)
EffectiveMax(T) == IF T.low_power_mode THEN LowPowerMax ELSE MaxRecords

AtCapacity(T) == T.record_count < 0 \/ T.record_count >= EffectiveMax(T)

\* The scan of insert for the record to overwrite: the first used slot of
\* the smallest version, a version of u16::MAX never being smaller.
OldestSlot(T) ==
  LET C == {s \in Used(T) : T.version[s] < VersionMod - 1}
  IN  {s \in C : \A u \in C : \/ T.version[s] < T.version[u]
                              \/ T.version[s] = T.version[u] /\ s <= u}

\* The slot insert writes to (at most one), empty when insert fails.
InsertSlot(T) ==
  IF AtCapacity(T)
  THEN IF T.low_power_mode THEN OldestSlot(T) ELSE {}
  ELSE IF T.free_slot_count = 0 THEN {}
       ELSE {T.free_slots[T.free_slot_count - 1]}

PutRow(T, s, row) ==
  [T EXCEPT !.status[s] = "Used",
            !.version[s] = Bump(@),
            !.data[s] = row]

InsertRow(T, s, row) ==
  LET new == IF AtCapacity(T) THEN 0 ELSE 1
  IN  [PutRow(T, s, row) EXCEPT
         !.max_pk = Larger(@, row.pk),
         !.free_slot_count = @ - new,
         !.record_count = @ + new]

(***************************************************************************)
(* update and delete, after the lock is taken                              *)
(***************************************************************************)
UpdateRow(T, s, row) ==
  [T EXCEPT !.data[s] = row, !.version[s] = Bump(@)]

\* Mutant: the last cell of the stack is never used.
PushFreeOffByOne(T, s) ==
  IF T.free_slot_count < MaxRecords - 1
  THEN [T EXCEPT !.free_slots[T.free_slot_count] = s,
                 !.free_slot_count = @ + 1]
  ELSE T

PushFree(T, s) ==
  IF T.free_slot_count < MaxRecords
  THEN [T EXCEPT !.free_slots[T.free_slot_count] = s,
                 !.free_slot_count = @ + 1]
  ELSE T

\* Mutant: the status stays Used.
DeleteRowKeepsStatus(T, s) ==
  [PushFree(T, s) EXCEPT !.version[s] = Bump(@), !.record_count = @ - 1]

DeleteRow(T, s) ==
  [PushFree(T, s) EXCEPT
     !.status[s] = "Free",
     !.version[s] = Bump(@),
     !.data[s] = ZeroRow,
     !.record_count = @ - 1]

(***************************************************************************)
(* batch_insert: slot ids taken for `n` records                            *)
(***************************************************************************)
Available(T) == EffectiveMax(T) - T.record_count

BatchSize(T, n) ==
  IF \/ T.low_power_mode /\ AtCapacity(T)
     \/ Available(T) < 0 \/ Available(T) >= n
  THEN n ELSE Available(T)

Smaller(a, b) == IF a < b THEN a ELSE b

\* The insertion loop over `oldest_ids` and `oldest_versions`: record r goes
\* to the first position j with a larger version; the loop over k then
\* copies entry k-1 to k until oldest_versions[k] > oldest_versions[k-1].
OldestStep(A, T, r) ==
  LET P == {j \in DOMAIN A : T.version[r] < A[j].version}
      j == CHOOSE j \in P : \A i \in P : j <= i
      shifted(k) == k > j /\ \A i \in j + 1 .. k : A[i].version <= A[j].version
  IN  IF T.status[r] # "Used" \/ P = {} THEN A
      ELSE [k \in DOMAIN A |->
              IF k = j THEN [id |-> r, version |-> T.version[r]]
              ELSE IF shifted(k) THEN A[j] ELSE A[k]]

OldestSlots(T, m) ==
  LET scan[r \in 0 .. MaxRecords] ==
        IF r = 0
        THEN [j \in 1 .. m |-> [id |-> 0, version |-> VersionMod - 1]]
        ELSE OldestStep(scan[r - 1], T, r - 1)
  IN  [j \in 1 .. m |-> scan[MaxRecords][j].id]

\* slot_ids[0 .. inserted_count - 1] as a sequence.
BatchSlots(T, n) ==
  LET want == BatchSize(T, n)
      popped == Smaller(want, T.free_slot_count)
      taken == IF T.low_power_mode THEN want ELSE popped
      old == OldestSlots(T, want - popped)
  IN  [j \in 1 .. taken |-> IF j <= popped
                            THEN T.free_slots[T.free_slot_count - j]
                            ELSE old[j - popped]]

\* Mutant: the stack is lowered by one.
BatchReserveOne(T, n) ==
  [T EXCEPT !.free_slot_count = IF @ = 0 THEN 0 ELSE @ - 1]

BatchReserve(T, n) ==
  [T EXCEPT !.free_slot_count = @ - Smaller(BatchSize(T, n), @)]

\* The second critical section; `max` is the limit read in the first one.
BatchCounted(T, max, n) ==
  [T EXCEPT !.record_count =
     IF T.low_power_mode /\ (@ < 0 \/ @ >= max) THEN @ ELSE @ + n]

(***************************************************************************)
(* time_series_batch_insert                                                *)
(***************************************************************************)
TsSize(T, n) ==
  LET available == MaxRecords - T.record_count
  IN  Smaller(IF available < 0 THEN n ELSE Smaller(n, available),
              T.free_slot_count)

TsReserve(T, n) == [T EXCEPT !.free_slot_count = @ - TsSize(T, n)]

\* Mutant: the status is not set.
TsPutRowNoStatus(T, s, row) == [T EXCEPT !.data[s] = row]

TsPutRow(T, s, row) == [T EXCEPT !.data[s] = row, !.status[s] = "Used"]

(***************************************************************************)
(* set_low_power_mode                                                      *)
(***************************************************************************)
SetLowPowerMode(T, on) == [T EXCEPT !.low_power_mode = on]

(***************************************************************************)
(* What the operations maintain.  R is the set of slots that batches have  *)
(* taken and not yet written.                                              *)
(***************************************************************************)
StackDistinct(T) ==
  \A i, j \in 0 .. T.free_slot_count - 1 :
     T.free_slots[i] = T.free_slots[j] => i = j

Partition(T, R) ==
  \A s \in Slots : s \in Stack(T) <=> s \notin Used(T) \cup R

UniquePks(T) ==
  \A s, u \in Used(T) :
     SamePk(T, s, T.data[u]) \/ SameUnique(T, s, T.data[u]) => s = u
=============================================================================
