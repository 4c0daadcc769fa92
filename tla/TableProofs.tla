---------------------------- MODULE TableProofs -----------------------------
(***************************************************************************)
(* The free stack of a table, for every number of slots, threads, keys and *)
(* batch sizes: under every interleaving of insert, update, delete and     *)
(* batch_insert (Spec of TableThreads), and in and out of low power mode   *)
(* (LpSpec of LowPowerTable).                                              *)
(***************************************************************************)
EXTENDS TableThreads, LowPowerTable, MemoryTableLemmas

USE ZenonT(30)

(***************************************************************************)
(* Threads on one table                                                    *)
(***************************************************************************)

\* What each program counter says about the locals of its thread.
LocalsOK(t) ==
  /\ pc[t] # "ts"
  /\ pc[t] \in {"insert", "update"} => reg[t].row \in Rows
  /\ pc[t] # "batch" => reg[t].slots = <<>>
  /\ pc[t] = "batch" => Len(reg[t].slots) <= Len(reg[t].rows)

\* The inductive invariant: the stack, the used slots and the slots in flight
\* partition the table, and every slot in flight has one owner.
IInv ==
  /\ TypeOK
  /\ tbl.low_power_mode = FALSE
  /\ \A t \in Threads : LocalsOK(t)
  /\ BatchesDisjoint
  /\ WF(tbl, InFlight)

\* The types of the locals, one by one.
LEMMA LocalFields ==
  ASSUME NEW r \in Locals
  PROVE  /\ r.row \in Rows \cup {ZeroRow} /\ r.slot \in Slots
         /\ r.slots \in Seq(Slots) /\ r.rows \in Seq(Rows)
         /\ r.top \in 0 .. MaxRecords /\ r.done \in Nat /\ r.max \in Nat
BY DEF Locals

\* The locals of an idle thread.
LEMMA IdleLocalsType == IdleLocals \in Locals
<1>1. 0 \in Slots /\ 0 \in 0 .. MaxRecords
  BY SizesAssumption, SMTT(30) DEF Slots
<1>2. QED
  BY <1>1, SMTT(30) DEF IdleLocals, Locals

\* The slots in flight are slots.
LEMMA InFlightSlots ==
  ASSUME TypeOK, \A t \in Threads : LocalsOK(t)
  PROVE  /\ \A t \in Threads :
              Taken(t) = {reg[t].slots[j] : j \in DOMAIN reg[t].slots}
         /\ InFlight \in SUBSET Slots
<1>1. ASSUME NEW t \in Threads
      PROVE  /\ Taken(t) = {reg[t].slots[j] : j \in DOMAIN reg[t].slots}
             /\ Taken(t) \subseteq Slots
  <2>1. pc[t] # "ts"
    BY DEF LocalsOK
  <2>2. reg[t].slots \in Seq(Slots)
    BY LocalFields DEF TypeOK
  <2>3. QED
    BY <2>1, <2>2, SMTT(30) DEF Taken
<1>2. QED
  BY <1>1 DEF InFlight

\* A step that leaves every thread's slot_ids alone, whatever else it does to
\* the locals, leaves the slots in flight alone.
LEMMA SameInFlight ==
  ASSUME TypeOK, TypeOK', \A t \in Threads : LocalsOK(t) /\ LocalsOK(t)',
         \A t \in Threads : reg'[t].slots = reg[t].slots,
         BatchesDisjoint
  PROVE  InFlight' = InFlight /\ BatchesDisjoint'
<1>1. \A t \in Threads :
         /\ Taken(t) = {reg[t].slots[j] : j \in DOMAIN reg[t].slots}
         /\ Taken(t)' = {reg'[t].slots[j] : j \in DOMAIN reg'[t].slots}
  BY DEF LocalsOK, Taken
<1>2. \A t \in Threads : Taken(t)' = Taken(t)
  BY <1>1, SMTT(30)
<1>3. InFlight' = InFlight
  BY <1>2 DEF InFlight
<1>4. QED
  BY <1>2, <1>3 DEF BatchesDisjoint

----------------------------------------------------------------------------

\* The invariant holds for a new table and idle threads.
LEMMA InitIInv == Init => IInv
<1> SUFFICES ASSUME Init PROVE IInv
  OBVIOUS
<1>1. WF(tbl, {}) /\ tbl.low_power_mode = FALSE
  BY NewTableWF DEF Init
<1>2. TypeOK
  BY <1>1, IdleLocalsType DEF Init, TypeOK, PCs, WF
<1>3. ASSUME NEW t \in Threads
      PROVE  LocalsOK(t) /\ Taken(t) = {} /\ reg[t].slots = <<>>
  BY SMTT(30) DEF Init, LocalsOK, Taken, IdleLocals
<1>4. InFlight = {}
  BY <1>3 DEF InFlight
<1>5. BatchesDisjoint
  BY <1>3, SMTT(30) DEF BatchesDisjoint
<1>6. QED
  BY <1>1, <1>2, <1>3, <1>4, <1>5 DEF Init, IInv

\* A step of t that takes no slots and gives none back: t had none in flight
\* and has none after it, and the new table is well formed for the same R.
LEMMA QuietStep ==
  ASSUME IInv, NEW t \in Threads, reg[t].slots = <<>>,
         NEW l \in PCs \ {"ts"}, NEW r \in Locals, Goto(t, l, r),
         r.slots = <<>>, l \in {"insert", "update"} => r.row \in Rows,
         WF(tbl', InFlight), tbl'.low_power_mode = FALSE
  PROVE  IInv'
<1>1. /\ pc \in [Threads -> PCs] /\ reg \in [Threads -> Locals]
      /\ pc' = [pc EXCEPT ![t] = l] /\ reg' = [reg EXCEPT ![t] = r]
      /\ \A u \in Threads : LocalsOK(u)
      /\ BatchesDisjoint /\ TypeOK
  BY DEF IInv, TypeOK, Goto
<1>2. TypeOK'
  BY <1>1 DEF TypeOK, WF
<1>3. r.rows \in Seq(Rows)
  BY LocalFields
<1>4. ASSUME NEW u \in Threads
      PROVE  LocalsOK(u)' /\ reg'[u].slots = reg[u].slots
  <2>1. CASE u = t
    BY <1>1, <1>3, <2>1, SMTT(30) DEF LocalsOK
  <2>2. CASE u # t
    BY <1>1, <2>2 DEF LocalsOK
  <2>3. QED
    BY <2>1, <2>2
<1>5. InFlight' = InFlight /\ BatchesDisjoint'
  BY <1>1, <1>2, <1>4, SameInFlight
<1>6. QED
  BY <1>2, <1>4, <1>5 DEF IInv

----------------------------------------------------------------------------
(* One lemma per group of steps *)

\* Every step of insert, update and delete keeps the invariant.
LEMMA RecordStep ==
  ASSUME IInv, NEW t \in Threads,
         \/ InsertValidate(t) \/ InsertLocked(t)
         \/ UpdateCheck(t) \/ UpdateLocked(t) \/ Delete(t)
  PROVE  IInv'
<1>0. /\ tbl \in TableType /\ reg[t] \in Locals /\ LocalsOK(t)
      /\ WF(tbl, InFlight) /\ tbl.low_power_mode = FALSE
      /\ InFlight \in SUBSET Slots
  BY InFlightSlots DEF IInv, TypeOK
<1>1. IdleLocals.slots = <<>>
  BY DEF IdleLocals
<1>2. CASE InsertValidate(t)
  <2>1. PICK row \in Rows : Goto(t, "insert", [IdleLocals EXCEPT !.row = row])
    BY <1>2 DEF InsertValidate
  <2> DEFINE r == [IdleLocals EXCEPT !.row = row]
  <2>2. r \in Locals /\ r.slots = <<>> /\ r.row \in Rows
    BY IdleLocalsType DEF IdleLocals, Locals
  <2>3. reg[t].slots = <<>> /\ tbl' = tbl
    BY <1>0, <1>2 DEF InsertValidate, LocalsOK
  <2> HIDE DEF r
  <2>4. QED
    BY <1>0, <2>1, <2>2, <2>3, QuietStep DEF PCs, r
<1>3. CASE InsertLocked(t)
  <2>1. reg[t].row \in Rows /\ reg[t].slots = <<>>
    BY <1>0, <1>3 DEF InsertLocked, LocalsOK
  <2>2. WF(tbl', InFlight) /\ tbl'.low_power_mode = FALSE
    <3>1. CASE tbl' = tbl
      BY <1>0, <3>1
    <3>2. CASE \E s \in InsertSlot(tbl) : tbl' = InsertRow(tbl, s, reg[t].row)
      BY <1>0, <2>1, <3>2, InsertRowWF, SMTT(30)
    <3>3. QED
      BY <1>3, <3>1, <3>2 DEF InsertLocked
  <2>3. Goto(t, "idle", IdleLocals)
    BY <1>3 DEF InsertLocked, Return
  <2>4. QED
    BY <1>1, <2>1, <2>2, <2>3, IdleLocalsType, QuietStep DEF PCs
<1>4. CASE UpdateCheck(t)
  <2>1. PICK s \in Used(tbl), row \in Rows :
           Goto(t, "update", [IdleLocals EXCEPT !.slot = s, !.row = row])
    BY <1>4 DEF UpdateCheck
  <2> DEFINE r == [IdleLocals EXCEPT !.slot = s, !.row = row]
  <2>2. s \in Slots
    BY DEF Used
  <2>3. r \in Locals /\ r.slots = <<>> /\ r.row \in Rows
    BY <2>2, IdleLocalsType DEF IdleLocals, Locals
  <2>4. reg[t].slots = <<>> /\ tbl' = tbl
    BY <1>0, <1>4 DEF UpdateCheck, LocalsOK
  <2> HIDE DEF r
  <2>5. QED
    BY <1>0, <2>1, <2>3, <2>4, QuietStep DEF PCs, r
<1>5. CASE UpdateLocked(t)
  <2>1. reg[t].row \in Rows /\ reg[t].slots = <<>> /\ reg[t].slot \in Slots
    BY <1>0, <1>5, LocalFields DEF UpdateLocked, LocalsOK
  <2>2. WF(tbl', InFlight) /\ tbl'.low_power_mode = FALSE
    BY <1>0, <1>5, <2>1, UpdateRowWF DEF UpdateLocked
  <2>3. Goto(t, "idle", IdleLocals)
    BY <1>5 DEF UpdateLocked, Return
  <2>4. QED
    BY <1>1, <2>1, <2>2, <2>3, IdleLocalsType, QuietStep DEF PCs
<1>6. CASE Delete(t)
  <2>1. WF(tbl', InFlight) /\ tbl'.low_power_mode = FALSE
    BY <1>0, <1>6, DeleteRowWF, SMTT(30) DEF Delete
  <2>2. reg[t].slots = <<>>
    BY <1>0, <1>6 DEF Delete, LocalsOK
  <2>3. pc' = pc /\ reg' = reg
    BY <1>6 DEF Delete
  <2>4. Goto(t, pc[t], reg[t])
    BY <2>3 DEF Goto, IInv, TypeOK
  <2>5. pc[t] = "idle"
    BY <1>6 DEF Delete
  <2>6. QED
    BY <1>0, <2>1, <2>2, <2>4, <2>5, QuietStep DEF PCs
<1>7. QED
  BY <1>2, <1>3, <1>4, <1>5, <1>6

\* batch_insert takes its slots.
LEMMA BatchBeginStep ==
  ASSUME IInv, NEW t \in Threads, BatchBegin(t)
  PROVE  IInv'
<1>0. /\ tbl \in TableType /\ reg \in [Threads -> Locals]
      /\ pc \in [Threads -> PCs]
      /\ \A u \in Threads : LocalsOK(u)
      /\ WF(tbl, InFlight) /\ tbl.low_power_mode = FALSE
      /\ InFlight \in SUBSET Slots /\ BatchesDisjoint
      /\ \A u \in Threads :
             Taken(u) = {reg[u].slots[j] : j \in DOMAIN reg[u].slots}
  BY InFlightSlots DEF IInv, TypeOK
<1>1. PICK n \in 1 .. MaxBatch : \E rows \in [1 .. n -> Rows] :
         /\ tbl' = BatchReserve(tbl, n)
         /\ Goto(t, "batch", [IdleLocals EXCEPT !.slots = BatchSlots(tbl, n),
                                                !.rows = rows,
                                                !.max = EffectiveMax(tbl)])
  BY DEF BatchBegin
<1>2. PICK rows \in [1 .. n -> Rows] :
         /\ tbl' = BatchReserve(tbl, n)
         /\ Goto(t, "batch", [IdleLocals EXCEPT !.slots = BatchSlots(tbl, n),
                                                !.rows = rows,
                                                !.max = EffectiveMax(tbl)])
  BY <1>1
<1> DEFINE S == BatchSlots(tbl, n)
           A == {S[j] : j \in DOMAIN S}
           r == [IdleLocals EXCEPT !.slots = S, !.rows = rows,
                                   !.max = EffectiveMax(tbl)]
<1>3. n \in Nat
  BY MaxBatchAssumption, SMTT(30)
<1>4. /\ S \in Seq(Slots) /\ Len(S) <= n
      /\ \A i, j \in DOMAIN S : S[i] = S[j] => i = j
      /\ A \subseteq Slots /\ A \cap InFlight = {}
      /\ WF(tbl', InFlight \cup A)
      /\ tbl'.low_power_mode = FALSE
  <2>1. /\ S \in Seq(Slots) /\ Len(S) <= n
        /\ \A i, j \in DOMAIN S : S[i] = S[j] => i = j
        /\ A \subseteq Slots /\ A \cap InFlight = {}
        /\ WF(BatchReserve(tbl, n), InFlight \cup A)
        /\ BatchReserve(tbl, n).low_power_mode = FALSE
    <3> HIDE DEF S
    <3>1. WF(tbl, InFlight) /\ tbl.low_power_mode = FALSE
          /\ InFlight \in SUBSET Slots
      BY <1>0
    <3>2. QED
      BY <1>3, <3>1, BatchReserveWF DEF S
  <2>2. QED
    BY <1>2, <2>1
<1> HIDE DEF S
<1>5. rows \in Seq(Rows) /\ Len(rows) = n
  <2>1. DOMAIN rows = 1 .. n /\ \A j \in 1 .. n : rows[j] \in Rows
    OBVIOUS
  <2>2. rows \in Seq(Rows)
    BY <1>3, SMTT(30)
  <2>3. QED
    BY <1>3, <2>1, <2>2, SMTT(30)
<1>6. EffectiveMax(tbl) \in Nat
  BY SizesAssumption DEF EffectiveMax
<1>7. r \in Locals /\ r.slots = S /\ r.rows = rows
  BY <1>4, <1>5, <1>6, IdleLocalsType DEF IdleLocals, Locals
<1> HIDE DEF r
<1>8. pc' = [pc EXCEPT ![t] = "batch"] /\ reg' = [reg EXCEPT ![t] = r]
  BY <1>2 DEF Goto, r, S
<1>9. TypeOK'
  BY <1>0, <1>4, <1>7, <1>8 DEF TypeOK, WF, PCs
<1>10. ASSUME NEW u \in Threads PROVE LocalsOK(u)'
  <2>1. CASE u = t
    BY <1>0, <1>4, <1>5, <1>7, <1>8, <2>1 DEF LocalsOK
  <2>2. CASE u # t
    BY <1>0, <1>8, <2>2 DEF LocalsOK
  <2>3. QED
    BY <2>1, <2>2
<1>11. Taken(t) = {} /\ Taken(t)' = A /\ reg'[t].slots = S
  <2>1. reg[t].slots = <<>>
    BY <1>0 DEF BatchBegin, LocalsOK
  <2>2. reg'[t].slots = S /\ pc'[t] = "batch"
    BY <1>0, <1>7, <1>8
  <2>3. Taken(t)' = {reg'[t].slots[j] : j \in DOMAIN reg'[t].slots}
    BY <2>2 DEF Taken
  <2>4. Taken(t) = {}
    BY <1>0, <2>1, SMTT(30)
  <2>5. QED
    BY <2>2, <2>3, <2>4
<1>12. \A u \in Threads \ {t} :
          Taken(u)' = Taken(u) /\ reg'[u].slots = reg[u].slots
  <2>1. ASSUME NEW u \in Threads \ {t}
        PROVE  /\ pc'[u] # "ts" /\ pc[u] # "ts"
               /\ reg'[u].slots = reg[u].slots
    BY <1>0, <1>8 DEF LocalsOK
  <2>2. ASSUME NEW u \in Threads \ {t}
        PROVE  Taken(u)' = {reg[u].slots[j] : j \in DOMAIN reg[u].slots}
    BY <2>1 DEF Taken
  <2>3. QED
    BY <1>0, <2>1, <2>2
<1> HIDE DEF A
<1>13. InFlight' = InFlight \cup A
  BY <1>11, <1>12 DEF InFlight
<1>14. BatchesDisjoint'
  <2>1. \A u \in Threads : Taken(u) \cap A = {}
    BY <1>4 DEF InFlight
  <2>2. \A u, v \in Threads : u # v => Taken(u)' \cap Taken(v)' = {}
    BY <1>0, <1>11, <1>12, <2>1, SMTT(30) DEF BatchesDisjoint
  <2>3. \A u \in Threads : \A i, j \in DOMAIN reg'[u].slots :
           reg'[u].slots[i] = reg'[u].slots[j] => i = j
    BY <1>0, <1>4, <1>11, <1>12 DEF BatchesDisjoint
  <2>4. QED
    BY <2>2, <2>3 DEF BatchesDisjoint
<1>15. QED
  BY <1>4, <1>9, <1>10, <1>13, <1>14 DEF IInv

\* batch_insert writes the next record.
LEMMA BatchCopyStep ==
  ASSUME IInv, NEW t \in Threads, BatchCopy(t)
  PROVE  IInv'
<1>0. /\ tbl \in TableType /\ reg \in [Threads -> Locals]
      /\ pc \in [Threads -> PCs] /\ pc' = pc
      /\ \A u \in Threads : LocalsOK(u)
      /\ WF(tbl, InFlight) /\ tbl.low_power_mode = FALSE
      /\ InFlight \in SUBSET Slots /\ BatchesDisjoint
      /\ \A u \in Threads :
             Taken(u) = {reg[u].slots[j] : j \in DOMAIN reg[u].slots}
  BY InFlightSlots DEF IInv, TypeOK, BatchCopy
<1> DEFINE S == reg[t].slots
           W == reg[t].rows
           r == [reg[t] EXCEPT !.slots = Tail(@), !.rows = Tail(@),
                               !.done = @ + 1]
<1>1. /\ S \in Seq(Slots) /\ W \in Seq(Rows) /\ S # <<>>
      /\ Len(S) <= Len(W) /\ reg[t].done \in Nat /\ pc[t] = "batch"
  BY <1>0, LocalFields DEF BatchCopy, LocalsOK
<1>2. W # <<>>
  BY <1>1, SMTT(30)
<1>3. /\ Head(S) \in Slots /\ Tail(S) \in Seq(Slots)
      /\ Len(Tail(S)) = Len(S) - 1
      /\ Head(S) = S[1] /\ 1 \in DOMAIN S /\ DOMAIN S = 1 .. Len(S)
      /\ DOMAIN Tail(S) = 1 .. Len(S) - 1
      /\ \A j \in 1 .. Len(S) - 1 : Tail(S)[j] = S[j + 1]
  BY <1>1, SMTT(30)
<1>4. /\ Head(W) \in Rows /\ Tail(W) \in Seq(Rows)
      /\ Len(Tail(W)) = Len(W) - 1
  BY <1>1, <1>2, SMTT(30)
<1>5. /\ tbl' = PutRow(tbl, Head(S), Head(W))
      /\ reg' = [reg EXCEPT ![t] = r]
  BY <1>0 DEF BatchCopy
<1>6. r \in Locals /\ r.slots = Tail(S) /\ r.rows = Tail(W)
  <2>1. reg[t] \in Locals
    BY <1>0
  <2>2. reg[t].done + 1 \in Nat
    BY <1>1, SMTT(30)
  <2>3. r = [reg[t] EXCEPT !.slots = Tail(S), !.rows = Tail(W),
                           !.done = reg[t].done + 1]
    OBVIOUS
  <2> HIDE DEF S, W, r
  <2>4. QED
    BY <1>3, <1>4, <2>1, <2>2, <2>3 DEF Locals
<1> HIDE DEF r, S, W
<1>7. ASSUME NEW u \in Threads
      PROVE  LocalsOK(u)' /\ pc'[u] # "ts"
  <2>1. CASE u = t
    BY <1>0, <1>1, <1>3, <1>4, <1>5, <1>6, <2>1, SMTT(30) DEF LocalsOK
  <2>2. CASE u # t
    BY <1>0, <1>5, <2>2 DEF LocalsOK
  <2>3. QED
    BY <2>1, <2>2
<1>8. ASSUME NEW x
      PROVE  x \in {Tail(S)[j] : j \in DOMAIN Tail(S)}
               <=> x \in {S[j] : j \in DOMAIN S} \ {Head(S)}
  <2>1. \A i, j \in DOMAIN S : S[i] = S[j] => i = j
    BY <1>0 DEF BatchesDisjoint, S
  <2>2. ASSUME NEW j \in 1 .. Len(S) - 1
        PROVE  j + 1 \in DOMAIN S /\ S[j + 1] # S[1]
    <3>1. j + 1 \in DOMAIN S /\ j + 1 # 1
      BY <1>1, <1>3, SMTT(30)
    <3>2. QED
      BY <1>3, <2>1, <3>1
  <2>3. ASSUME NEW i \in DOMAIN S, S[i] # S[1]
        PROVE  i - 1 \in 1 .. Len(S) - 1 /\ Tail(S)[i - 1] = S[i]
    <3>1. i - 1 \in 1 .. Len(S) - 1 /\ (i - 1) + 1 = i
      BY <1>1, <1>3, <2>3, SMTT(30)
    <3>2. QED
      BY <1>3, <3>1
  <2>4. ASSUME x \in {Tail(S)[j] : j \in DOMAIN Tail(S)}
        PROVE  x \in {S[j] : j \in DOMAIN S} \ {Head(S)}
    <3>1. PICK j \in 1 .. Len(S) - 1 : x = S[j + 1]
      BY <1>3, <2>4
    <3>2. QED
      BY <1>3, <2>2, <3>1
  <2>5. ASSUME x \in {S[j] : j \in DOMAIN S} \ {Head(S)}
        PROVE  x \in {Tail(S)[j] : j \in DOMAIN Tail(S)}
    <3>1. PICK i \in DOMAIN S : x = S[i] /\ S[i] # S[1]
      BY <1>3, <2>5
    <3>2. QED
      BY <1>3, <2>3, <3>1
  <2>6. QED
    BY <2>4, <2>5
<1>9. /\ Taken(t) = {S[j] : j \in DOMAIN S}
      /\ reg'[t].slots = Tail(S)
      /\ Taken(t)' = Taken(t) \ {Head(S)}
  <2>1. reg'[t].slots = Tail(S)
    BY <1>0, <1>5, <1>6
  <2>2. Taken(t)' = {reg'[t].slots[j] : j \in DOMAIN reg'[t].slots}
    BY <1>7 DEF Taken
  <2>3. Taken(t) = {S[j] : j \in DOMAIN S}
    BY <1>0 DEF S
  <2>4. {Tail(S)[j] : j \in DOMAIN Tail(S)}
          = {S[j] : j \in DOMAIN S} \ {Head(S)}
    BY <1>8
  <2>5. QED
    BY <2>1, <2>2, <2>3, <2>4
<1>10. ASSUME NEW u \in Threads \ {t}
       PROVE  Taken(u)' = Taken(u) /\ reg'[u].slots = reg[u].slots
  <2>1. reg'[u].slots = reg[u].slots
    BY <1>0, <1>5
  <2>2. Taken(u)' = {reg[u].slots[j] : j \in DOMAIN reg[u].slots}
    BY <1>7, <2>1 DEF Taken
  <2>3. QED
    BY <1>0, <2>1, <2>2
<1>11. Head(S) \in Taken(t)
  BY <1>3, <1>9
<1>12. InFlight' = InFlight \ {Head(S)}
  <2>1. \A u \in Threads \ {t} : Head(S) \notin Taken(u)
    BY <1>0, <1>11 DEF BatchesDisjoint
  <2>2. QED
    BY <1>9, <1>10, <1>11, <2>1, SMTT(30) DEF InFlight
<1>13. WF(tbl', InFlight') /\ tbl'.low_power_mode = FALSE
  <2>1. Head(S) \in InFlight
    BY <1>11 DEF InFlight
  <2>2. QED
    BY <1>0, <1>4, <1>5, <1>12, <2>1, PutTakenWF
<1>14. TypeOK'
  BY <1>0, <1>5, <1>6, <1>13 DEF TypeOK, WF
<1>15. BatchesDisjoint'
  <2>1. \A u, v \in Threads : u # v => Taken(u)' \cap Taken(v)' = {}
    BY <1>0, <1>9, <1>10, SMTT(30) DEF BatchesDisjoint
  <2>2. \A i, j \in DOMAIN Tail(S) : Tail(S)[i] = Tail(S)[j] => i = j
    <3>1. \A i, j \in DOMAIN S : S[i] = S[j] => i = j
      BY <1>0 DEF BatchesDisjoint, S
    <3>2. TAKE i, j \in DOMAIN Tail(S)
    <3>3. i + 1 \in DOMAIN S /\ j + 1 \in DOMAIN S
      BY <1>1, <1>3, SMTT(30)
    <3>4. HAVE Tail(S)[i] = Tail(S)[j]
    <3>5. i + 1 = j + 1
      BY <1>3, <3>1, <3>3, <3>4
    <3>6. QED
      BY <1>1, <1>3, <3>5, SMTT(30)
  <2>3. \A u \in Threads : \A i, j \in DOMAIN reg'[u].slots :
           reg'[u].slots[i] = reg'[u].slots[j] => i = j
    BY <1>0, <1>9, <1>10, <2>2 DEF BatchesDisjoint
  <2>4. QED
    BY <2>1, <2>3 DEF BatchesDisjoint
<1>16. QED
  BY <1>7, <1>13, <1>14, <1>15 DEF IInv

\* batch_insert adds its records to record_count.
LEMMA BatchCountStep ==
  ASSUME IInv, NEW t \in Threads, BatchCount(t)
  PROVE  IInv'
<1>1. /\ WF(tbl, InFlight) /\ tbl.low_power_mode = FALSE
      /\ reg[t] \in Locals /\ reg[t].slots = <<>>
      /\ tbl' = BatchCounted(tbl, reg[t].max, reg[t].done)
      /\ Goto(t, "idle", IdleLocals)
  BY DEF IInv, TypeOK, BatchCount, Return
<1>2. WF(tbl', InFlight) /\ tbl'.low_power_mode = FALSE
  BY <1>1, LocalFields, BatchCountedWF
<1>3. IdleLocals.slots = <<>>
  BY DEF IdleLocals
<1>4. QED
  BY <1>1, <1>2, <1>3, IdleLocalsType, QuietStep DEF PCs

----------------------------------------------------------------------------

\* Every step of every thread keeps the invariant.
LEMMA NextIInv == IInv /\ [Next]_vars => IInv'
<1> SUFFICES ASSUME IInv, [Next]_vars PROVE IInv'
  OBVIOUS
<1>1. CASE UNCHANGED vars
  <2>1. tbl' = tbl /\ pc' = pc /\ reg' = reg
    BY <1>1 DEF vars
  <2>2. \A t \in Threads : Taken(t)' = Taken(t) /\ LocalsOK(t)' = LocalsOK(t)
    BY <2>1 DEF Taken, LocalsOK
  <2>3. InFlight' = InFlight
    BY <2>2 DEF InFlight
  <2>4. TypeOK' /\ BatchesDisjoint'
    BY <2>1, <2>2 DEF IInv, TypeOK, BatchesDisjoint
  <2>5. QED
    BY <2>1, <2>2, <2>3, <2>4 DEF IInv
<1>2. CASE Next
  BY <1>2, RecordStep, BatchBeginStep, BatchCopyStep, BatchCountStep DEF Next
<1>3. QED
  BY <1>1, <1>2

\* Type correctness of the table and of the locals of every thread, for every
\* interleaving of insert, update, delete and batch_insert.
THEOREM TypeCorrect == Spec => []TypeOK
<1>1. IInv => TypeOK
  BY DEF IInv
<1>2. QED
  BY <1>1, InitIInv, NextIInv, PTL DEF Spec

\* The free stack of a table is exact in every reachable state (FreeStackExact):
\* it never holds a slot twice, never a slot with a record, and never loses one.
THEOREM FreeStackSafe == Spec => []FreeStackExact
<1>1. IInv => FreeStackExact
  BY DEF IInv, WF, FreeStackExact
<1>2. QED
  BY <1>1, InitIInv, NextIInv, PTL DEF Spec

\* A slot that batch_insert took in its first critical section is written by
\* that batch only (BatchesDisjoint).
THEOREM BatchesSafe == Spec => []BatchesDisjoint
<1>1. IInv => BatchesDisjoint
  BY DEF IInv
<1>2. QED
  BY <1>1, InitIInv, NextIInv, PTL DEF Spec

----------------------------------------------------------------------------
(* The refinement of AtomicTable.  What a client sees changes as the        *)
(* abstract table says, whatever the table's fields are.                    *)

\* A record written into a slot appears under its id.
LEMMA PutShown ==
  ASSUME NEW T \in TableType, NEW s \in Slots, NEW row \in Rows
  PROVE  Shown(PutRow(T, s, row)) = [Shown(T) EXCEPT ![s] = row]
<1>1. /\ PutRow(T, s, row).status = [T.status EXCEPT ![s] = "Used"]
      /\ PutRow(T, s, row).data = [T.data EXCEPT ![s] = row]
  BY DEF PutRow, TableType
<1>2. QED
  BY <1>1, Fields DEF Shown

\* insert shows its record like a plain write.
LEMMA InsertShown ==
  ASSUME NEW T \in TableType, NEW s \in Slots, NEW row \in Rows
  PROVE  Shown(InsertRow(T, s, row)) = [Shown(T) EXCEPT ![s] = row]
<1> DEFINE P == PutRow(T, s, row)
<1>1. P \in TableType
  BY PutRowEffect
<1>2. /\ InsertRow(T, s, row).status = P.status
      /\ InsertRow(T, s, row).data = P.data
  <2> HIDE DEF P
  <2>1. QED
    BY <1>1 DEF InsertRow, TableType, P
<1>3. QED
  BY <1>2, PutShown, SMTT(30) DEF Shown

\* update changes what a client sees only when the slot still holds a record.
LEMMA UpdateShown ==
  ASSUME NEW T \in TableType, NEW s \in Slots, NEW row \in Rows
  PROVE  Shown(UpdateRow(T, s, row)) =
           IF s \in Used(T) THEN [Shown(T) EXCEPT ![s] = row] ELSE Shown(T)
<1>1. /\ UpdateRow(T, s, row).status = T.status
      /\ UpdateRow(T, s, row).data = [T.data EXCEPT ![s] = row]
  BY DEF UpdateRow, TableType
<1>2. QED
  BY <1>1, Fields DEF Shown, Used

\* delete removes the record.
LEMMA DeleteShown ==
  ASSUME NEW T \in TableType, NEW s \in Slots
  PROVE  Shown(DeleteRow(T, s)) = [Shown(T) EXCEPT ![s] = Absent]
<1>1. /\ PushFree(T, s).status = T.status
      /\ PushFree(T, s).data = T.data
      /\ DOMAIN PushFree(T, s) = DOMAIN T
  BY DEF PushFree, TableType
<1>2. /\ DeleteRow(T, s).status = [T.status EXCEPT ![s] = "Free"]
      /\ DeleteRow(T, s).data = [T.data EXCEPT ![s] = ZeroRow]
  BY <1>1 DEF DeleteRow, TableType
<1>3. QED
  BY <1>2, Fields DEF Shown

\* Reserving slots and counting records show nothing.
LEMMA CountShown ==
  ASSUME NEW T \in TableType, NEW n, NEW max
  PROVE  /\ Shown(BatchReserve(T, n)) = Shown(T)
         /\ BatchReserve(T, n).record_count = T.record_count
         /\ Shown(BatchCounted(T, max, n)) = Shown(T)
<1>1. /\ BatchReserve(T, n).status = T.status
      /\ BatchReserve(T, n).data = T.data
      /\ BatchReserve(T, n).record_count = T.record_count
      /\ BatchCounted(T, max, n).status = T.status
      /\ BatchCounted(T, max, n).data = T.data
  BY DEF BatchReserve, BatchCounted, TableType
<1>2. QED
  BY <1>1 DEF Shown

\* A client sees a row exactly under the ids of the used slots.
LEMMA ShownUsed ==
  ASSUME NEW T \in TableType, NEW s \in Slots
  PROVE  Shown(T)[s] = Absent <=> s \notin Used(T)
BY Fields, AbsentAssumption, SMTT(30) DEF Shown, Used

\* What the refinement adds to the invariant: only a batch has records to
\* count, and they are finitely many.
RInv ==
  /\ IInv
  /\ IsFiniteSet(Written)
  /\ \A t \in Threads : pc[t] # "batch" => reg[t].done = 0

\* An element of Written.
LEMMA WrittenElement ==
  ASSUME NEW e
  PROVE  e \in Written <=> \E t \in Threads : e \in {t} \X (1 .. reg[t].done)
BY DEF Written

\* A step of t that leaves done at 0 leaves Written alone.
LEMMA QuietWritten ==
  ASSUME RInv, NEW t \in Threads, pc[t] # "batch",
         NEW l, NEW r \in Locals, r.done = 0, Goto(t, l, r)
  PROVE  /\ Written' = Written
         /\ \A u \in Threads : pc'[u] # "batch" => reg'[u].done = 0
<1>1. /\ pc \in [Threads -> PCs] /\ reg \in [Threads -> Locals]
      /\ pc' = [pc EXCEPT ![t] = l] /\ reg' = [reg EXCEPT ![t] = r]
      /\ reg[t].done = 0
  BY DEF RInv, IInv, TypeOK, Goto
<1>2. \A u \in Threads : reg'[u].done = reg[u].done
  BY <1>1
<1>3. Written' = Written
  BY <1>2 DEF Written
<1>4. \A u \in Threads : pc'[u] # "batch" => reg'[u].done = 0
  BY <1>1 DEF RInv
<1>5. QED
  BY <1>3, <1>4

\* The abstract steps, from what they do to rows and count.
LEMMA AbstractInsert ==
  ASSUME NEW s \in Slots, NEW row \in Rows, Shown(tbl)[s] = Absent,
         Shown(tbl') = [Shown(tbl) EXCEPT ![s] = row],
         tbl'.record_count + Cardinality(Written')
           = tbl.record_count + Cardinality(Written) + 1
  PROVE  Abstract!ANext
<1>1. Shown(tbl)' = Shown(tbl') /\ Cardinality(Written)' = Cardinality(Written')
  BY DEF Shown
<1>2. Abstract!AInsert(s, row)
  BY <1>1 DEF Abstract!AInsert
<1>3. QED
  BY <1>2 DEF Abstract!ANext

\* A step that changes the row of a record is an update of the abstract table.
LEMMA AbstractUpdate ==
  ASSUME NEW s \in Slots, NEW row \in Rows, Shown(tbl)[s] # Absent,
         Shown(tbl') = [Shown(tbl) EXCEPT ![s] = row],
         tbl'.record_count + Cardinality(Written')
           = tbl.record_count + Cardinality(Written)
  PROVE  Abstract!ANext
<1>1. Shown(tbl)' = Shown(tbl') /\ Cardinality(Written)' = Cardinality(Written')
  BY DEF Shown
<1>2. Abstract!AUpdate(s, row)
  BY <1>1 DEF Abstract!AUpdate
<1>3. QED
  BY <1>2 DEF Abstract!ANext

\* A step that empties a slot is a delete of the abstract table.
LEMMA AbstractDelete ==
  ASSUME NEW s \in Slots, Shown(tbl)[s] # Absent,
         Shown(tbl') = [Shown(tbl) EXCEPT ![s] = Absent],
         tbl'.record_count + Cardinality(Written')
           = (tbl.record_count + Cardinality(Written)) - 1
  PROVE  Abstract!ANext
<1>1. Shown(tbl)' = Shown(tbl') /\ Cardinality(Written)' = Cardinality(Written')
  BY DEF Shown
<1>2. Abstract!ADelete(s)
  BY <1>1 DEF Abstract!ADelete
<1>3. QED
  BY <1>2 DEF Abstract!ANext

\* A step that shows nothing is a stutter of the abstract table.
LEMMA AbstractStutter ==
  ASSUME Shown(tbl') = Shown(tbl),
         tbl'.record_count + Cardinality(Written')
           = tbl.record_count + Cardinality(Written)
  PROVE  UNCHANGED Abstract!avars
<1>1. Shown(tbl)' = Shown(tbl') /\ Cardinality(Written)' = Cardinality(Written')
  BY DEF Shown
<1>2. QED
  BY <1>1 DEF Abstract!avars

----------------------------------------------------------------------------
(* Every step of a thread is a step of the abstract table or a stutter.     *)

AbstractStep == Abstract!ANext \/ UNCHANGED Abstract!avars

\* insert, update and delete.
LEMMA RecordRefines ==
  ASSUME RInv, NEW t \in Threads,
         \/ InsertValidate(t) \/ InsertLocked(t)
         \/ UpdateCheck(t) \/ UpdateLocked(t) \/ Delete(t)
  PROVE  AbstractStep /\ RInv'
<1>0. /\ tbl \in TableType /\ reg[t] \in Locals /\ LocalsOK(t)
      /\ WF(tbl, InFlight) /\ tbl.low_power_mode = FALSE
      /\ InFlight \in SUBSET Slots
      /\ tbl.record_count \in Int /\ Cardinality(Written) \in Nat
      /\ IInv
  BY InFlightSlots, Fields, FS_CardinalityType DEF RInv, IInv, TypeOK
<1>1. IInv'
  BY <1>0, RecordStep
<1>2. IdleLocals \in Locals /\ IdleLocals.done = 0
  BY IdleLocalsType DEF IdleLocals
<1>3. /\ Written' = Written
      /\ \A u \in Threads : pc'[u] # "batch" => reg'[u].done = 0
  <2>1. CASE InsertValidate(t)
    <3>1. PICK row \in Rows : Goto(t, "insert", [IdleLocals EXCEPT !.row = row])
      BY <2>1 DEF InsertValidate
    <3> DEFINE r == [IdleLocals EXCEPT !.row = row]
    <3>2. r \in Locals /\ r.done = 0
      BY IdleLocalsType DEF IdleLocals, Locals
    <3>3. pc[t] # "batch"
      BY <2>1 DEF InsertValidate
    <3> HIDE DEF r
    <3>4. QED
      BY <3>1, <3>2, <3>3, QuietWritten DEF r
  <2>2. CASE UpdateCheck(t)
    <3>1. PICK s \in Used(tbl), row \in Rows :
             Goto(t, "update", [IdleLocals EXCEPT !.slot = s, !.row = row])
      BY <2>2 DEF UpdateCheck
    <3> DEFINE r == [IdleLocals EXCEPT !.slot = s, !.row = row]
    <3>2. s \in Slots
      BY DEF Used
    <3>3. r \in Locals /\ r.done = 0
      BY <3>2, IdleLocalsType DEF IdleLocals, Locals
    <3>4. pc[t] # "batch"
      BY <2>2 DEF UpdateCheck
    <3> HIDE DEF r
    <3>5. QED
      BY <3>1, <3>3, <3>4, QuietWritten DEF r
  <2>3. CASE InsertLocked(t) \/ UpdateLocked(t)
    <3>1. pc[t] # "batch" /\ Goto(t, "idle", IdleLocals)
      BY <2>3 DEF InsertLocked, UpdateLocked, Return
    <3>2. QED
      BY <1>2, <3>1, QuietWritten
  <2>4. CASE Delete(t)
    BY <2>4 DEF Delete, Written, RInv
  <2>5. QED
    BY <2>1, <2>2, <2>3, <2>4
<1>4. RInv'
  BY <1>1, <1>3 DEF RInv
<1>5. CASE tbl' = tbl
  BY <1>3, <1>4, <1>5, AbstractStutter DEF AbstractStep
<1>6. CASE InsertLocked(t) /\ tbl' # tbl
  <2>1. PICK s \in InsertSlot(tbl) : tbl' = InsertRow(tbl, s, reg[t].row)
    BY <1>6 DEF InsertLocked
  <2>2. reg[t].row \in Rows
    BY <1>0, <1>6 DEF InsertLocked, LocalsOK
  <2>3. s \in Slots /\ s \notin Used(tbl)
    <3>1. /\ ~AtCapacity(tbl) /\ tbl.free_slot_count # 0
          /\ s = tbl.free_slots[tbl.free_slot_count - 1]
      BY <1>0 DEF InsertSlot
    <3> DEFINE n == tbl.free_slot_count
    <3>5. n \in 0 .. MaxRecords /\ n # 0
      BY <1>0, <3>1, Fields
    <3> HIDE DEF n
    <3>2. n - 1 \in 0 .. n - 1 /\ n - 1 \in Slots
      BY <3>5, SizesAssumption, SMTT(30) DEF Slots
    <3>3. s \in Stack(tbl) /\ s \in Slots
      BY <1>0, <3>1, <3>2, Fields DEF Stack, n
    <3>4. QED
      BY <1>0, <3>3 DEF WF, Partition
  <2>4. tbl'.record_count = tbl.record_count + 1
    BY <1>0, <2>1, <2>2, <2>3, InsertRowWF
  <2>5. /\ Shown(tbl') = [Shown(tbl) EXCEPT ![s] = reg[t].row]
        /\ Shown(tbl)[s] = Absent
    BY <1>0, <2>1, <2>2, <2>3, InsertShown, ShownUsed, SMTT(30)
  <2>6. tbl'.record_count + Cardinality(Written')
           = tbl.record_count + Cardinality(Written) + 1
    BY <1>0, <1>3, <2>4, SMTT(30)
  <2>7. QED
    BY <1>4, <2>2, <2>3, <2>5, <2>6, AbstractInsert DEF AbstractStep
<1>7. CASE UpdateLocked(t)
  <2>1. /\ reg[t].row \in Rows /\ reg[t].slot \in Slots
        /\ tbl' = UpdateRow(tbl, reg[t].slot, reg[t].row)
    BY <1>0, <1>7, LocalFields DEF UpdateLocked, LocalsOK
  <2>2. tbl'.record_count = tbl.record_count
    BY <1>0, <2>1, UpdateRowWF
  <2>3. CASE reg[t].slot \in Used(tbl)
    <3>1. /\ Shown(tbl') = [Shown(tbl) EXCEPT ![reg[t].slot] = reg[t].row]
          /\ Shown(tbl)[reg[t].slot] # Absent
      BY <1>0, <2>1, <2>3, UpdateShown, ShownUsed
    <3>2. QED
      BY <1>3, <1>4, <2>1, <2>2, <3>1, AbstractUpdate DEF AbstractStep
  <2>4. CASE reg[t].slot \notin Used(tbl)
    <3>1. Shown(tbl') = Shown(tbl)
      BY <1>0, <2>1, <2>4, UpdateShown
    <3>2. QED
      BY <1>3, <1>4, <2>2, <3>1, AbstractStutter DEF AbstractStep
  <2>5. QED
    BY <2>3, <2>4
<1>8. CASE Delete(t)
  <2>1. PICK s \in Used(tbl) : tbl' = DeleteRow(tbl, s)
    BY <1>8 DEF Delete
  <2>2. s \in Slots
    BY DEF Used
  <2>3. tbl'.record_count = tbl.record_count - 1
    BY <1>0, <2>1, DeleteRowWF
  <2>4. /\ Shown(tbl') = [Shown(tbl) EXCEPT ![s] = Absent]
        /\ Shown(tbl)[s] # Absent
    BY <1>0, <2>1, <2>2, DeleteShown, ShownUsed
  <2>5. tbl'.record_count + Cardinality(Written')
           = (tbl.record_count + Cardinality(Written)) - 1
    BY <1>0, <1>3, <2>3, SMTT(30)
  <2>6. QED
    BY <1>4, <2>2, <2>4, <2>5, AbstractDelete DEF AbstractStep
<1>9. QED
  BY <1>4, <1>5, <1>6, <1>7, <1>8 DEF InsertValidate, UpdateCheck

\* batch_insert takes its slots: nothing is seen of it.
LEMMA BatchBeginRefines ==
  ASSUME RInv, NEW t \in Threads, BatchBegin(t)
  PROVE  AbstractStep /\ RInv'
<1>1. IInv /\ tbl \in TableType /\ reg \in [Threads -> Locals]
  BY DEF RInv, IInv, TypeOK
<1>2. IInv'
  BY <1>1, BatchBeginStep
<1>3. PICK n \in 1 .. MaxBatch : \E rows \in [1 .. n -> Rows] :
         /\ tbl' = BatchReserve(tbl, n)
         /\ Goto(t, "batch", [IdleLocals EXCEPT !.slots = BatchSlots(tbl, n),
                                                !.rows = rows,
                                                !.max = EffectiveMax(tbl)])
  BY DEF BatchBegin
<1>4. PICK rows \in [1 .. n -> Rows] :
         /\ tbl' = BatchReserve(tbl, n)
         /\ Goto(t, "batch", [IdleLocals EXCEPT !.slots = BatchSlots(tbl, n),
                                                !.rows = rows,
                                                !.max = EffectiveMax(tbl)])
  BY <1>3
<1> DEFINE r == [IdleLocals EXCEPT !.slots = BatchSlots(tbl, n),
                                   !.rows = rows, !.max = EffectiveMax(tbl)]
<1>5. r.done = 0
  BY DEF IdleLocals
<1> HIDE DEF r
<1>6. r \in Locals
  <2>1. reg' = [reg EXCEPT ![t] = r]
    BY <1>4 DEF Goto, r
  <2>2. reg' \in [Threads -> Locals]
    BY <1>2 DEF IInv, TypeOK
  <2>3. QED
    BY <1>1, <2>1, <2>2
<1>7. /\ Written' = Written
      /\ \A u \in Threads : pc'[u] # "batch" => reg'[u].done = 0
  <2>1. pc[t] # "batch" /\ Goto(t, "batch", r)
    BY <1>4 DEF BatchBegin, r
  <2>2. QED
    BY <1>5, <1>6, <2>1, QuietWritten
<1>8. Shown(tbl') = Shown(tbl) /\ tbl'.record_count = tbl.record_count
  BY <1>1, <1>4, CountShown
<1>9. QED
  BY <1>2, <1>7, <1>8, AbstractStutter DEF AbstractStep, RInv

\* batch_insert writes its next record: an insert into an empty slot, counted
\* in Written until the second critical section.
LEMMA BatchCopyRefines ==
  ASSUME RInv, NEW t \in Threads, BatchCopy(t)
  PROVE  AbstractStep /\ RInv'
<1>0. /\ tbl \in TableType /\ reg \in [Threads -> Locals]
      /\ pc' = pc /\ pc[t] = "batch" /\ LocalsOK(t)
      /\ WF(tbl, InFlight) /\ IInv /\ IsFiniteSet(Written)
      /\ tbl.record_count \in Int /\ Cardinality(Written) \in Nat
      /\ Taken(t) = {reg[t].slots[j] : j \in DOMAIN reg[t].slots}
  BY InFlightSlots, Fields, FS_CardinalityType
     DEF RInv, IInv, TypeOK, BatchCopy
<1>1. IInv'
  BY <1>0, BatchCopyStep
<1> DEFINE S == reg[t].slots
           W == reg[t].rows
           d == reg[t].done
<1>2. /\ S \in Seq(Slots) /\ W \in Seq(Rows) /\ S # <<>>
      /\ Len(S) <= Len(W) /\ d \in Nat
  BY <1>0, LocalFields DEF BatchCopy, LocalsOK
<1>3. Head(S) = S[1] /\ 1 \in DOMAIN S /\ Head(S) \in Slots
  BY <1>2, SMTT(30)
<1>4. Head(W) \in Rows
  BY <1>2, SMTT(30)
<1>5. Head(S) \in InFlight
  BY <1>0, <1>3 DEF InFlight
<1>6. /\ tbl' = PutRow(tbl, Head(S), Head(W))
      /\ reg' = [reg EXCEPT ![t] = [reg[t] EXCEPT !.slots = Tail(@),
                                       !.rows = Tail(@), !.done = @ + 1]]
  BY <1>0 DEF BatchCopy
<1>7. reg'[t].done = d + 1 /\ \A u \in Threads \ {t} : reg'[u] = reg[u]
  <2>1. reg'[t] = [reg[t] EXCEPT !.slots = Tail(@), !.rows = Tail(@),
                                 !.done = @ + 1]
    BY <1>0, <1>6
  <2>2. reg[t] \in Locals
    BY <1>0
  <2>3. reg'[t].done = d + 1
    BY <2>1, <2>2 DEF Locals
  <2>4. QED
    BY <1>0, <1>6, <2>3
<1> HIDE DEF S, W, d
<1>8. Written' = Written \cup {<<t, d + 1>>} /\ <<t, d + 1>> \notin Written
  <2>1. 1 .. d + 1 = (1 .. d) \cup {d + 1}
    BY <1>2, SMTT(30)
  <2>2. {t} \X (1 .. d + 1) = ({t} \X (1 .. d)) \cup {<<t, d + 1>>}
    BY <2>1, SMTT(30)
  <2>3. Written' = UNION {{u} \X (1 .. reg'[u].done) : u \in Threads}
    BY DEF Written
  <2>4. ASSUME NEW e
        PROVE  e \in Written' <=> e \in Written \/ e = <<t, d + 1>>
    <3>1. e \in Written' <=>
            \E u \in Threads : e \in {u} \X (1 .. reg'[u].done)
      BY <2>3
    <3>2. \A u \in Threads : u # t => {u} \X (1 .. reg'[u].done)
                                        = {u} \X (1 .. reg[u].done)
      BY <1>7
    <3>3. {t} \X (1 .. reg'[t].done)
             = ({t} \X (1 .. reg[t].done)) \cup {<<t, d + 1>>}
      BY <1>7, <2>2 DEF d
    <3>4. QED
      BY <3>1, <3>2, <3>3, WrittenElement
  <2>5. <<t, d + 1>> \notin Written
    BY <1>2, WrittenElement, SMTT(30) DEF d
  <2>6. QED
    BY <2>4, <2>5
<1>9. IsFiniteSet(Written') /\ Cardinality(Written') = Cardinality(Written) + 1
  BY <1>0, <1>8, FS_AddElement
<1>10. RInv'
  BY <1>0, <1>1, <1>7, <1>9 DEF RInv
<1>11. tbl'.record_count = tbl.record_count
  BY <1>0, <1>6 DEF PutRow, TableType
<1>12. Head(S) \notin Used(tbl)
  BY <1>0, <1>3, <1>5 DEF WF, Partition
<1>13. /\ Shown(tbl') = [Shown(tbl) EXCEPT ![Head(S)] = Head(W)]
       /\ Shown(tbl)[Head(S)] = Absent
  BY <1>0, <1>3, <1>4, <1>6, <1>12, PutShown, ShownUsed, SMTT(30)
<1>14. tbl'.record_count + Cardinality(Written')
          = tbl.record_count + Cardinality(Written) + 1
  BY <1>0, <1>9, <1>11, SMTT(30)
<1>15. QED
  BY <1>3, <1>4, <1>10, <1>13, <1>14, AbstractInsert DEF AbstractStep

\* batch_insert adds its records to record_count: they leave Written.
LEMMA BatchCountRefines ==
  ASSUME RInv, NEW t \in Threads, BatchCount(t)
  PROVE  AbstractStep /\ RInv'
<1> DEFINE d == reg[t].done
           B == {t} \X (1 .. d)
<1>0. /\ tbl \in TableType /\ reg \in [Threads -> Locals]
      /\ pc \in [Threads -> PCs]
      /\ tbl.low_power_mode = FALSE /\ IInv /\ IsFiniteSet(Written)
      /\ tbl.record_count \in Int /\ Cardinality(Written) \in Nat
      /\ d \in Nat
      /\ tbl' = BatchCounted(tbl, reg[t].max, d)
      /\ pc' = [pc EXCEPT ![t] = "idle"]
      /\ reg' = [reg EXCEPT ![t] = IdleLocals]
  BY Fields, LocalFields, FS_CardinalityType
     DEF RInv, IInv, TypeOK, BatchCount, Return, Goto
<1>1. IInv'
  BY <1>0, BatchCountStep
<1>2. /\ reg'[t].done = 0
      /\ \A u \in Threads \ {t} : reg'[u] = reg[u] /\ pc'[u] = pc[u]
  BY <1>0 DEF IdleLocals
<1>3. IsFiniteSet(B) /\ Cardinality(B) = d
  <2>1. IsFiniteSet(1 .. d) /\ Cardinality(1 .. d) = d
    BY <1>0, FS_Interval, SMTT(30)
  <2>2. IsFiniteSet({t}) /\ Cardinality({t}) = 1
    BY FS_Singleton
  <2>3. IsFiniteSet(B) /\ Cardinality(B) = Cardinality({t}) * Cardinality(1 .. d)
    BY <2>1, <2>2, FS_Product
  <2>4. Cardinality(B) = 1 * d
    BY <2>1, <2>2, <2>3
  <2>5. QED
    BY <1>0, <2>3, <2>4, SMTT(30)
<1> HIDE DEF d
<1>4. Written' = Written \ B /\ B \subseteq Written
  <2>1. \A e : e \in B => e \in Written
    BY WrittenElement DEF d
  <2>2. \A e : e \in B <=> \E i \in 1 .. d : e = <<t, i>>
    BY SMTT(30) DEF B
  <2>3. Written' = UNION {{u} \X (1 .. reg'[u].done) : u \in Threads}
    BY DEF Written
  <2>4. {t} \X (1 .. reg'[t].done) = {}
    BY <1>2, SMTT(30)
  <2>5. ASSUME NEW e
        PROVE  e \in Written' <=> e \in Written /\ e \notin B
    <3>1. e \in Written' <=>
            \E u \in Threads \ {t} : e \in {u} \X (1 .. reg'[u].done)
      BY <2>3, <2>4
    <3>2. \A u \in Threads \ {t} : {u} \X (1 .. reg'[u].done)
                                     = {u} \X (1 .. reg[u].done)
      BY <1>2
    <3>3. \A u \in Threads \ {t} : e \in {u} \X (1 .. reg[u].done) => e \notin B
      BY DEF B
    <3>4. QED
      BY <3>1, <3>2, <3>3, WrittenElement DEF d, B
  <2>6. QED
    BY <2>1, <2>5
<1> HIDE DEF B
<1>5. /\ IsFiniteSet(Written')
      /\ Cardinality(Written') = Cardinality(Written) - d
  <2>1. Written \cap B = B
    BY <1>4
  <2>2. QED
    BY <1>0, <1>3, <1>4, <2>1, FS_Difference
<1>6. tbl'.record_count = tbl.record_count + d
  BY <1>0 DEF BatchCounted, TableType
<1>7. Shown(tbl') = Shown(tbl)
  BY <1>0, CountShown
<1>8. tbl'.record_count + Cardinality(Written')
         = tbl.record_count + Cardinality(Written)
  BY <1>0, <1>5, <1>6, SMTT(30)
<1>9. RInv'
  BY <1>0, <1>1, <1>2, <1>5 DEF RInv
<1>10. QED
  BY <1>7, <1>8, <1>9, AbstractStutter DEF AbstractStep

\* The initial states show an empty table.
LEMMA InitRefines == Init => RInv /\ Abstract!AInit
<1> SUFFICES ASSUME Init PROVE RInv /\ Abstract!AInit
  OBVIOUS
<1>1. IInv /\ tbl \in TableType
  BY InitIInv DEF IInv, TypeOK
<1>2. Used(tbl) = {} /\ tbl.record_count = 0
  BY NewTableWF DEF Init
<1>3. \A t \in Threads : reg[t].done = 0
  BY DEF Init, IdleLocals
<1>4. Written = {}
  BY <1>3, WrittenElement, SMTT(30)
<1>5. IsFiniteSet(Written) /\ Cardinality(Written) = 0
  BY <1>4, FS_EmptySet
<1>6. Shown(tbl) = [s \in Slots |-> Absent]
  BY <1>2 DEF Shown, Used
<1>7. QED
  BY <1>1, <1>2, <1>3, <1>5, <1>6, SMTT(30) DEF RInv, Abstract!AInit

\* Every step of every thread is a step of the abstract table or leaves it
\* alone.
LEMMA NextRefines == RInv /\ [Next]_vars => AbstractStep /\ RInv'
<1> SUFFICES ASSUME RInv, [Next]_vars PROVE AbstractStep /\ RInv'
  OBVIOUS
<1>1. CASE UNCHANGED vars
  <2>1. tbl' = tbl /\ pc' = pc /\ reg' = reg
    BY <1>1 DEF vars
  <2>2. IInv'
    BY <1>1, NextIInv DEF RInv
  <2>3. Written' = Written
    BY <2>1 DEF Written
  <2>4. RInv'
    BY <2>1, <2>2, <2>3 DEF RInv
  <2>5. QED
    BY <2>1, <2>3, <2>4, AbstractStutter DEF AbstractStep
<1>2. CASE Next
  BY <1>2, RecordRefines, BatchBeginRefines, BatchCopyRefines,
     BatchCountRefines DEF Next
<1>3. QED
  BY <1>1, <1>2

\* Every interleaving of insert, update, delete and batch_insert looks, to a
\* client that sees record ids and rows, like the atomic table: each record of
\* a batch appears by one insert into an empty slot, update never brings a
\* deleted record back, and record_count follows the inserts and deletes up to
\* the records a batch has written and not yet counted.
THEOREM TableRefinesAtomic == Spec => ImplementsAtomicTable
<1>1. Init => RInv /\ Abstract!AInit
  BY InitRefines
<1>2. RInv /\ [Next]_vars => RInv' /\ [Abstract!ANext]_(Abstract!avars)
  BY NextRefines DEF AbstractStep
<1>3. QED
  BY <1>1, <1>2, PTL DEF Spec, ImplementsAtomicTable, Abstract!ASpec

(***************************************************************************)
(* Loops as recursive functions                                            *)
(***************************************************************************)
\* A set of naturals has a least element.
LEMMA LeastNumber ==
  ASSUME NEW T, T \subseteq Nat, T # {}
  PROVE  \E m \in T : \A k \in T : m <= k
<1> DEFINE R == OpToRel(<, Nat)
<1>1. \A x, y \in Nat : x < y => <<x, y>> \in R
  BY DEF OpToRel
<1>2. IsWellFoundedOn(R, Nat)
  BY NatLessThanWellFounded
<1> HIDE DEF R
<1>3. PICK m \in T : \A k \in T : ~ (<<k, m>> \in R)
  BY <1>2, WFMin
<1>4. \A k \in T : ~(k < m)
  BY <1>1, <1>3
<1>5. QED
  BY <1>4, SMTT(30)

\* Induction on the naturals, for a set in place of a predicate.
LEMMA InductiveSet ==
  ASSUME NEW P, 0 \in P, \A n \in Nat : n \in P => n + 1 \in P
  PROVE  Nat \subseteq P
<1> SUFFICES ASSUME Nat \ P # {} PROVE FALSE
  OBVIOUS
<1>1. PICK m \in Nat \ P : \A k \in Nat \ P : m <= k
  BY LeastNumber
<1>2. m - 1 \in Nat /\ m - 1 \in P
  BY <1>1, SMTT(30)
<1>3. QED
  BY <1>2, SMTT(30)

\* What is true before a loop of N rounds and kept by every round.
LEMMA LoopInduction ==
  ASSUME NEW N \in Nat, NEW P, 0 \in P,
         \A j \in 1 .. N : j - 1 \in P => j \in P
  PROVE  0 .. N \subseteq P
<1> DEFINE Q == {n \in Nat : n <= N => n \in P}
<1>1. 0 \in Q
  OBVIOUS
<1>2. ASSUME NEW n \in Nat, n \in Q PROVE n + 1 \in Q
  <2> SUFFICES ASSUME n + 1 <= N PROVE n + 1 \in P
    BY SMTT(30)
  <2>1. n + 1 \in 1 .. N /\ (n + 1) - 1 = n /\ n \in P
    BY <1>2, SMTT(30)
  <2>2. QED
    BY <2>1
<1> HIDE DEF Q
<1>3. Nat \subseteq Q
  BY <1>1, <1>2, InductiveSet
<1>4. QED
  BY <1>3, SMTT(30) DEF Q

\* A loop of N rounds from a, round j being the function g[j] on X.
Rounds(X, N) == [1 .. N -> [X -> X]]

IsLoop(f, X, N, a, g) ==
  /\ f \in [0 .. N -> X] /\ f[0] = a
  /\ \A j \in 1 .. N : f[j] = g[j][f[j - 1]]

\* The loop exists: its rounds are done one after the other.
LEMMA Loop ==
  ASSUME NEW X, NEW N \in Nat, NEW a \in X, NEW g \in Rounds(X, N)
  PROVE  \E f : IsLoop(f, X, N, a, g)
<1> DEFINE Upto(f, n) == /\ f \in [0 .. N -> X] /\ f[0] = a
                         /\ \A j \in 1 .. n : f[j] = g[j][f[j - 1]]
           P == {n \in 0 .. N : \E f : Upto(f, n)}
<1>1. 0 \in P
  <2> DEFINE f == [j \in 0 .. N |-> a]
  <2>1. Upto(f, 0)
    BY SMTT(30)
  <2> HIDE DEF f, Upto
  <2>2. QED
    BY <2>1, SMTT(30)
<1>2. ASSUME NEW j \in 1 .. N, j - 1 \in P PROVE j \in P
  <2>1. PICK f : Upto(f, j - 1)
    BY <1>2
  <2> DEFINE h == [f EXCEPT ![j] = g[j][f[j - 1]]]
  <2>2. f[j - 1] \in X /\ g[j][f[j - 1]] \in X
    BY <2>1, SMTT(30) DEF Rounds
  <2>3. h \in [0 .. N -> X] /\ h[0] = a
    BY <2>1, <2>2, SMTT(30)
  <2>4. ASSUME NEW i \in 1 .. j PROVE h[i] = g[i][h[i - 1]]
    <3>1. h[i - 1] = f[i - 1]
      BY <2>1, SMTT(30)
    <3>2. CASE i = j
      BY <2>1, <3>1, <3>2, SMTT(30)
    <3>3. CASE i # j
      <4>1. i \in 1 .. j - 1 /\ h[i] = f[i]
        BY <2>1, <3>3, SMTT(30)
      <4>2. QED
        BY <2>1, <3>1, <4>1
    <3>4. QED
      BY <3>2, <3>3
  <2> HIDE DEF h
  <2>5. Upto(h, j)
    BY <2>3, <2>4
  <2> HIDE DEF Upto
  <2>6. QED
    BY <2>5, SMTT(30)
<1>3. N \in P
  <2> HIDE DEF P
  <2>1. 0 .. N \subseteq P
    BY <1>1, <1>2, LoopInduction
  <2>2. QED
    BY <2>1, SMTT(30)
<1>4. PICK f : Upto(f, N)
  BY <1>3
<1>5. IsLoop(f, X, N, a, g)
  BY <1>4 DEF IsLoop
<1>6. QED
  BY <1>5

\* The first n slots of S.
Firsts(S, n) == {S[k] : k \in 1 .. n}

\* The first j members of a sequence.
LEMMA FirstsNext ==
  ASSUME NEW S, NEW j \in Nat \ {0}
  PROVE  Firsts(S, j) = Firsts(S, j - 1) \cup {S[j]} /\ Firsts(S, 0) = {}
<1>1. ASSUME NEW x PROVE x \in Firsts(S, j) <=> x \in Firsts(S, j - 1) \cup {S[j]}
  <2>1. ASSUME x \in Firsts(S, j) PROVE x \in Firsts(S, j - 1) \cup {S[j]}
    <3>1. PICK k \in 1 .. j : x = S[k]
      BY <2>1 DEF Firsts
    <3>2. k = j \/ k \in 1 .. j - 1
      BY SMTT(30)
    <3>3. QED
      BY <3>1, <3>2 DEF Firsts
  <2>2. ASSUME x \in Firsts(S, j - 1) \cup {S[j]} PROVE x \in Firsts(S, j)
    BY <2>2, SMTT(30) DEF Firsts
  <2>3. QED
    BY <2>1, <2>2
<1>2. Firsts(S, 0) = {}
  BY SMTT(30) DEF Firsts
<1>3. QED
  BY <1>1, <1>2

(***************************************************************************)
(* The slots of batch_insert                                               *)
(***************************************************************************)
Entries(m) == [1 .. m -> [id : Slots, version : Int]]

\* A round of the search for the oldest records keeps the list of entries.
LEMMA OldestStepType ==
  ASSUME NEW T \in TableType, NEW m \in Nat, NEW A \in Entries(m), NEW r \in Slots
  PROVE  OldestStep(A, T, r) \in Entries(m)
<1> DEFINE P == {j \in DOMAIN A : T.version[r] < A[j].version}
           j == CHOOSE j \in P : \A i \in P : j <= i
           shifted(k) == k > j /\ \A i \in j + 1 .. k : A[i].version <= A[j].version
<1>1. CASE T.status[r] # "Used" \/ P = {}
  BY <1>1 DEF OldestStep
<1>2. CASE ~(T.status[r] # "Used" \/ P = {})
  <2>0. DOMAIN A = 1 .. m
    BY DEF Entries
  <2>1. P \subseteq Nat /\ P # {}
    BY <1>2, <2>0, SMTT(30)
  <2> HIDE DEF P
  <2>2. \E k \in P : \A i \in P : k <= i
    BY <2>1, LeastNumber
  <2>3. j \in P
    BY <2>2
  <2>4. j \in 1 .. m
    BY <2>0, <2>3 DEF P
  <2>5. T.version[r] \in Int
    BY Fields, SizesAssumption, SMTT(30)
  <2>6. OldestStep(A, T, r) = [k \in DOMAIN A |->
                                IF k = j THEN [id |-> r, version |-> T.version[r]]
                                ELSE IF shifted(k) THEN A[j] ELSE A[k]]
    BY <1>2 DEF OldestStep, P
  <2> HIDE DEF j, shifted
  <2>7. QED
    BY <2>0, <2>4, <2>5, <2>6, SMTT(30) DEF Entries
<1>3. QED
  BY <1>1, <1>2

\* The scan for the oldest records yields slots of the table.
LEMMA OldestSlotsType ==
  ASSUME NEW T \in TableType, NEW m \in Nat
  PROVE  OldestSlots(T, m) \in [1 .. m -> Slots]
<1> DEFINE a == [j \in 1 .. m |-> [id |-> 0, version |-> VersionMod - 1]]
           g == [r \in 1 .. MaxRecords |-> [A \in Entries(m) |-> OldestStep(A, T, r - 1)]]
           Eq(f) == f = [r \in 0 .. MaxRecords |->
                           IF r = 0 THEN a ELSE OldestStep(f[r - 1], T, r - 1)]
           scan == CHOOSE f : Eq(f)
<1>0. MaxRecords \in Nat /\ 0 \in Slots
  BY SizesAssumption, SMTT(30) DEF Slots
<1>1. a \in Entries(m)
  BY <1>0, SizesAssumption, SMTT(30) DEF Entries
<1>2. g \in Rounds(Entries(m), MaxRecords)
  <2>1. \A r \in 1 .. MaxRecords : r - 1 \in Slots
    BY <1>0, SMTT(30) DEF Slots
  <2>2. QED
    BY <2>1, OldestStepType DEF Rounds
<1>3. \E f : IsLoop(f, Entries(m), MaxRecords, a, g)
  <2> HIDE DEF a, g
  <2>1. QED
    BY <1>0, <1>1, <1>2, Loop
<1>4. PICK f : IsLoop(f, Entries(m), MaxRecords, a, g)
  BY <1>3
<1>5. Eq(f)
  <2>1. \A r \in 1 .. MaxRecords : f[r] = OldestStep(f[r - 1], T, r - 1)
    <3> TAKE r \in 1 .. MaxRecords
    <3>1. f[r - 1] \in Entries(m)
      BY <1>0, <1>4, SMTT(30) DEF IsLoop
    <3>2. QED
      BY <1>4, <3>1 DEF IsLoop
  <2> HIDE DEF a, g
  <2>2. \A r \in 0 .. MaxRecords :
          f[r] = IF r = 0 THEN a ELSE OldestStep(f[r - 1], T, r - 1)
    BY <1>0, <1>4, <2>1, SMTT(30) DEF IsLoop
  <2>3. QED
    BY <1>4, <2>2 DEF IsLoop
<1>6. Eq(scan)
  <2> HIDE DEF Eq
  <2>1. QED
    BY <1>5
<1>7. scan[MaxRecords] \in Entries(m)
  <2> DEFINE P == {r \in 0 .. MaxRecords : scan[r] \in Entries(m)}
  <2> HIDE DEF scan
  <2>1. /\ scan[0] = a
        /\ \A r \in 1 .. MaxRecords : scan[r] = OldestStep(scan[r - 1], T, r - 1)
    <3> HIDE DEF a
    <3>1. QED
      BY <1>0, <1>6, SMTT(30)
  <2>2. 0 \in P
    BY <1>0, <1>1, <2>1, SMTT(30)
  <2>3. ASSUME NEW r \in 1 .. MaxRecords, r - 1 \in P PROVE r \in P
    <3>1. r - 1 \in Slots /\ scan[r - 1] \in Entries(m)
      BY <1>0, <2>3, SMTT(30) DEF Slots
    <3>2. QED
      BY <2>1, <3>1, OldestStepType, SMTT(30)
  <2> HIDE DEF P
  <2>4. 0 .. MaxRecords \subseteq P
    BY <1>0, <2>2, <2>3, LoopInduction
  <2>5. QED
    BY <1>0, <2>4, SMTT(30) DEF P
<1>8. OldestSlots(T, m) = [j \in 1 .. m |-> scan[MaxRecords][j].id]
  BY DEF OldestSlots
<1> HIDE DEF scan
<1>9. QED
  BY <1>7, <1>8 DEF Entries

(***************************************************************************)
(* Writing the records of a batch                                          *)
(***************************************************************************)
\* N is T with a record put into slot s.
Puts(T, N, s) ==
  /\ N \in TableType
  /\ N.status = [T.status EXCEPT ![s] = "Used"]
  /\ N.free_slots = T.free_slots /\ N.free_slot_count = T.free_slot_count
  /\ N.record_count = T.record_count /\ N.low_power_mode = T.low_power_mode

\* batch_insert puts a row into one slot.
LEMMA PutRowPuts ==
  ASSUME NEW T \in TableType, NEW s \in Slots, NEW row \in Rows
  PROVE  Puts(T, PutRow(T, s, row), s)
<1>1. PutRow(T, s, row).record_count = T.record_count
  BY DEF PutRow, TableType
<1>2. QED
  BY <1>1, PutRowEffect DEF Puts

\* So does the write of time_series_batch_insert.
LEMMA TsPutRowPuts ==
  ASSUME NEW T \in TableType, NEW s \in Slots, NEW row \in Rows
  PROVE  Puts(T, TsPutRow(T, s, row), s)
  BY Fields DEF TsPutRow, TableType, Puts

\* A slot that was taken, or already holds a record, can be written.
LEMMA PutsWF ==
  ASSUME NEW T, NEW R \in SUBSET Slots, WF(T, R), NEW s \in R \cup Used(T),
         NEW N, Puts(T, N, s)
  PROVE  /\ WF(N, R \ {s}) /\ Used(N) = Used(T) \cup {s}
<1>1. T \in TableType /\ s \in Slots
  BY DEF WF, Used
<1>2. T.status \in [Slots -> {"Free", "Used"}]
  BY <1>1, Fields
<1>3. Used(N) = Used(T) \cup {s}
  BY <1>1, <1>2 DEF Used, Puts
<1>4. StackDistinct(N) /\ Stack(N) = Stack(T)
  BY SMTT(30) DEF WF, StackDistinct, Stack, Puts
<1>5. QED
  BY <1>1, <1>3, <1>4 DEF WF, Partition, Puts

\* Slots of S that hold no record yet, each once.
Fresh(S, U) == /\ \A i, j \in DOMAIN S : S[i] = S[j] => i = j
               /\ \A i \in DOMAIN S : S[i] \notin U

\* The loop over the slots S of a batch, Top being those it took off the stack.
Put(T, N, S, Top, U, n) ==
  /\ WF(N, Top \ Firsts(S, n)) /\ Used(N) = U \cup Firsts(S, n)
  /\ N.record_count = T.record_count /\ N.low_power_mode = T.low_power_mode
  /\ Fresh(S, U) => Cardinality(Used(N)) = Cardinality(U) + n

\* One round of a batch.
LEMMA PutStep ==
  ASSUME NEW T \in TableType, NEW Top \in SUBSET Slots, NEW U, NEW S \in Seq(Slots),
         \A i \in DOMAIN S : S[i] \in U \cup Top,
         NEW j \in 1 .. Len(S), NEW N, NEW M,
         Put(T, N, S, Top, U, j - 1), Puts(N, M, S[j])
  PROVE  Put(T, M, S, Top, U, j)
<1> DEFINE R == Top \ Firsts(S, j - 1)
<1>0. Firsts(S, j) = Firsts(S, j - 1) \cup {S[j]} /\ j \in DOMAIN S
  BY FirstsNext, SMTT(30)
<1>1. R \in SUBSET Slots /\ WF(N, R) /\ Used(N) = U \cup Firsts(S, j - 1)
  BY DEF Put
<1>2. S[j] \in R \cup Used(N)
  BY <1>0, <1>1
<1> HIDE DEF R
<1>3. WF(M, R \ {S[j]}) /\ Used(M) = Used(N) \cup {S[j]}
  BY <1>1, <1>2, PutsWF
<1>4. R \ {S[j]} = Top \ Firsts(S, j) /\ Used(M) = U \cup Firsts(S, j)
  BY <1>0, <1>1, <1>3 DEF R
<1>5. M.record_count = T.record_count /\ M.low_power_mode = T.low_power_mode
  BY DEF Put, Puts
<1>6. ASSUME Fresh(S, U) PROVE Cardinality(Used(M)) = Cardinality(U) + j
  <2>1. S[j] \notin Firsts(S, j - 1)
    <3>1. SUFFICES ASSUME NEW k \in 1 .. j - 1, S[j] = S[k] PROVE FALSE
      BY DEF Firsts
    <3>2. k \in DOMAIN S /\ k # j
      BY SMTT(30)
    <3>3. QED
      BY <1>0, <1>6, <3>1, <3>2 DEF Fresh
  <2>2. S[j] \notin Used(N)
    BY <1>0, <1>1, <1>6, <2>1 DEF Fresh
  <2>3. Cardinality(Used(N)) = Cardinality(U) + (j - 1)
    BY <1>6 DEF Put
  <2>4. Cardinality(Used(M)) = Cardinality(Used(N)) + 1
    BY <1>3, <2>2, UsedFinite, FS_AddElement
  <2>5. U \subseteq Slots
    BY <1>1 DEF Used
  <2>6. Cardinality(U) \in Nat
    <3>1. IsFiniteSet(Slots)
      BY FS_Interval, SizesAssumption, SMTT(30) DEF Slots
    <3>2. QED
      BY <2>5, <3>1, FS_Subset, FS_CardinalityType
  <2>7. QED
    BY <2>3, <2>4, <2>6, SMTT(30)
<1>7. QED
  BY <1>3, <1>4, <1>5, <1>6 DEF Put

\* The whole loop.
LEMMA PutAll ==
  ASSUME NEW T \in TableType, NEW Top \in SUBSET Slots, NEW S \in Seq(Slots),
         WF(T, Top), \A i \in DOMAIN S : S[i] \in Used(T) \cup Top,
         NEW f, f[0] = T,
         \A j \in 1 .. Len(S) : f[j - 1] \in TableType => Puts(f[j - 1], f[j], S[j])
  PROVE  Put(T, f[Len(S)], S, Top, Used(T), Len(S))
<1> DEFINE U == Used(T)
           P == {j \in 0 .. Len(S) : Put(T, f[j], S, Top, U, j)}
<1>0. Len(S) \in Nat
  BY SMTT(30)
<1>1. 0 \in P
  <2>1. Firsts(S, 0) = {}
    BY FirstsNext, SMTT(30)
  <2>2. Cardinality(U) \in Nat
    BY UsedFinite
  <2>3. Put(T, f[0], S, Top, U, 0)
    <3>1. Top \ Firsts(S, 0) = Top /\ U \cup Firsts(S, 0) = U
      BY <2>1
    <3>2. Cardinality(U) + 0 = Cardinality(U)
      BY <2>2, SMTT(30)
    <3>3. QED
      BY <3>1, <3>2 DEF Put
  <2>4. QED
    BY <1>0, <2>3, SMTT(30)
<1>2. ASSUME NEW j \in 1 .. Len(S), j - 1 \in P PROVE j \in P
  <2>1. Put(T, f[j - 1], S, Top, U, j - 1)
    BY <1>2
  <2>2. Puts(f[j - 1], f[j], S[j])
    BY <2>1 DEF Put, WF
  <2> HIDE DEF U
  <2>3. \A i \in DOMAIN S : S[i] \in U \cup Top
    BY DEF U
  <2>4. Put(T, f[j], S, Top, U, j)
    BY <2>1, <2>2, <2>3, PutStep
  <2>5. QED
    BY <1>0, <2>4, SMTT(30)
<1> HIDE DEF P
<1>3. 0 .. Len(S) \subseteq P
  BY <1>0, <1>1, <1>2, LoopInduction
<1>4. Len(S) \in P
  BY <1>0, <1>3, SMTT(30)
<1>5. QED
  BY <1>4 DEF P

\* The slots of a batch: those off the stack, then, when the stack is used up,
\* any that hold a record.
LEMMA BatchPlan ==
  ASSUME NEW T, WF(T, {}), NEW n \in Nat
  PROVE  LET S == BatchSlots(T, n)
             N == BatchReserve(T, n)
         IN  \E Top \in SUBSET Slots :
               /\ S \in Seq(Slots) /\ Len(S) <= n
               /\ WF(N, Top) /\ Used(N) = Used(T)
               /\ N.record_count = T.record_count
               /\ N.low_power_mode = T.low_power_mode
               /\ \A i \in DOMAIN S : S[i] \in Used(T) \cup Top
               /\ Top \subseteq Firsts(S, Len(S))
               /\ ~T.low_power_mode => Fresh(S, Used(T))
<1> DEFINE c == T.free_slot_count
           w == BatchSize(T, n)
           p == Smaller(w, c)
           L == IF T.low_power_mode THEN w ELSE p
           S == BatchSlots(T, n)
           Top == {T.free_slots[c - j] : j \in 1 .. p}
           N == BatchReserve(T, n)
           old == OldestSlots(T, w - p)
<1>0. T \in TableType /\ c \in 0 .. MaxRecords /\ T.record_count \in Int
      /\ T.free_slots \in [Slots -> Slots] /\ T.low_power_mode \in BOOLEAN
  BY Fields DEF WF
<1>1. w \in 0 .. n
  <2>1. Available(T) \in Int
    BY <1>0, SizesAssumption, SMTT(30) DEF Available, EffectiveMax
  <2>2. QED
    BY <2>1, SMTT(30) DEF BatchSize
<1>2. /\ p \in 0 .. c /\ p <= w /\ c - p \in 0 .. MaxRecords /\ w - p \in Nat
      /\ p < w => p = c
  BY <1>0, <1>1, SizesAssumption, SMTT(30) DEF Smaller
<1>3. S = [j \in 1 .. L |-> IF j <= p THEN T.free_slots[c - j] ELSE old[j - p]]
  BY DEF BatchSlots
<1>4. old \in [1 .. w - p -> Slots]
  BY <1>0, <1>2, OldestSlotsType
<1>5. L \in Nat /\ p <= L /\ L <= n /\ L <= w
  BY <1>0, <1>1, <1>2, SMTT(30)
<1>6. /\ N \in TableType /\ N.free_slots = T.free_slots
      /\ N.free_slot_count = c - p /\ N.status = T.status
      /\ N.low_power_mode = T.low_power_mode /\ N.record_count = T.record_count
  <2> HIDE DEF p
  <2>1. N = [T EXCEPT !.free_slot_count = c - p]
    BY DEF BatchReserve, p
  <2>2. QED
    BY <1>0, <1>2, <2>1 DEF TableType
<1>7. Used(N) = Used(T)
  BY <1>6 DEF Used
<1> HIDE DEF S, N, p, w, L, old
<1>8. Top \subseteq Slots /\ WF(N, Top) /\ Top \cap Used(T) = {}
  <2>1. CASE p = 0
    <3>1. Top = {} /\ N.free_slot_count = T.free_slot_count
      BY <1>0, <1>6, <2>1, SMTT(30)
    <3>2. WF(N, {})
      BY <1>6, <3>1, SMTT(30) DEF WF, StackDistinct, Partition, Stack, Used
    <3>3. QED
      BY <3>1, <3>2
  <2>2. CASE p # 0
    <3>1. p \in 1 .. T.free_slot_count
      BY <1>0, <1>2, <2>2, SMTT(30)
    <3>2. /\ StackDistinct(N) /\ Top \subseteq Slots
          /\ Stack(N) = Stack(T) \ Top /\ Top \subseteq Stack(T)
      BY <1>0, <1>6, <3>1, PopEffect DEF WF
    <3>3. QED
      BY <1>6, <1>7, <3>2 DEF WF, Partition
  <2>3. QED
    BY <2>1, <2>2
<1>9. \A j \in 1 .. L : S[j] \in Slots
  <2> TAKE j \in 1 .. L
  <2>1. CASE j <= p
    <3>1. S[j] \in Top
      BY <1>2, <1>3, <1>5, <2>1, SMTT(30)
    <3>2. QED
      BY <1>8, <3>1
  <2>2. CASE ~(j <= p)
    <3>1. j - p \in 1 .. w - p
      BY <1>0, <1>1, <1>2, <1>5, <2>2, SMTT(30)
    <3>2. QED
      BY <1>3, <1>4, <2>2, <3>1
  <2>3. QED
    BY <2>1, <2>2
<1>10. S \in Seq(Slots) /\ Len(S) = L /\ DOMAIN S = 1 .. L
  <2>1. S = [j \in 1 .. L |-> S[j]]
    BY <1>3
  <2>2. QED
    BY <1>5, <1>9, <2>1, SMTT(30)
<1>11. \A i \in 1 .. L : i <= p => S[i] \in Top
  BY <1>2, <1>3, <1>5, SMTT(30)
<1>12. ASSUME NEW i \in DOMAIN S PROVE S[i] \in Used(T) \cup Top
  <2>1. CASE i <= p
    BY <1>10, <1>11, <2>1
  <2>2. CASE ~(i <= p)
    <3>1. p = c
      BY <1>0, <1>1, <1>2, <1>5, <1>10, <2>2, SMTT(30)
    <3>2. Stack(N) = {}
      BY <1>0, <1>6, <3>1, SMTT(30) DEF Stack
    <3>3. QED
      BY <1>7, <1>8, <1>9, <1>10, <3>2 DEF WF, Partition
  <2>3. QED
    BY <2>1, <2>2
<1>13. Top \subseteq Firsts(S, Len(S))
  <2> SUFFICES ASSUME NEW j \in 1 .. p PROVE T.free_slots[c - j] \in Firsts(S, L)
    BY <1>10
  <2>1. j \in 1 .. L /\ S[j] = T.free_slots[c - j]
    BY <1>2, <1>3, <1>5, SMTT(30)
  <2>2. QED
    BY <2>1 DEF Firsts
<1>14. ASSUME ~T.low_power_mode PROVE Fresh(S, Used(T))
  <2>1. L = p
    BY <1>14 DEF L
  <2>2. ASSUME NEW i \in DOMAIN S, NEW j \in DOMAIN S, S[i] = S[j] PROVE i = j
    <3>1. /\ c - i \in 0 .. c - 1 /\ c - j \in 0 .. c - 1
          /\ T.free_slots[c - i] = T.free_slots[c - j] /\ i \in Int /\ j \in Int
      BY <1>0, <1>2, <1>3, <1>10, <2>1, <2>2, SMTT(30)
    <3>2. c - i = c - j
      BY <3>1 DEF WF, StackDistinct
    <3>3. QED
      BY <1>0, <3>1, <3>2, SMTT(30)
  <2>3. \A i \in DOMAIN S : S[i] \in Top
    <3>1. \A i \in 1 .. L : i <= p
      BY <1>5, <2>1, SMTT(30)
    <3> HIDE DEF Top
    <3>2. QED
      BY <1>10, <1>11, <3>1
  <2>4. QED
    BY <1>8, <2>2, <2>3 DEF Fresh
<1>15. /\ S \in Seq(Slots) /\ Len(S) <= n
       /\ WF(N, Top) /\ Used(N) = Used(T)
       /\ N.record_count = T.record_count /\ N.low_power_mode = T.low_power_mode
       /\ \A i \in DOMAIN S : S[i] \in Used(T) \cup Top
       /\ Top \subseteq Firsts(S, Len(S)) /\ Top \in SUBSET Slots
       /\ ~T.low_power_mode => Fresh(S, Used(T))
  BY <1>5, <1>6, <1>7, <1>8, <1>10, <1>12, <1>13, <1>14
<1> HIDE DEF Top
<1>16. QED
  BY <1>15 DEF S, N

\* The loops of the two batch methods.
IsPutLoop(f, T, S, rows) ==
  f = [j \in 0 .. Len(S) |-> IF j = 0 THEN T ELSE PutRow(f[j - 1], S[j], rows[j])]

\* The rounds of batch_insert.
LEMMA PutLoop ==
  ASSUME NEW T \in TableType, NEW S \in Seq(Slots), NEW rows \in Seq(Rows),
         Len(S) <= Len(rows)
  PROVE  LET put == CHOOSE f : IsPutLoop(f, T, S, rows)
         IN  /\ put[0] = T
             /\ \A j \in 1 .. Len(S) : put[j] = PutRow(put[j - 1], S[j], rows[j])
<1> DEFINE L == Len(S)
           X == TableType
           g == [j \in 1 .. L |-> [A \in X |-> PutRow(A, S[j], rows[j])]]
           put == CHOOSE f : IsPutLoop(f, T, S, rows)
<1>0. L \in Nat /\ \A j \in 1 .. L : S[j] \in Slots /\ rows[j] \in Rows
  BY SMTT(30)
<1>1. g \in Rounds(X, L)
  <2>1. \A j \in 1 .. L, A \in X : PutRow(A, S[j], rows[j]) \in X
    BY <1>0, PutRowEffect
  <2>2. QED
    BY <2>1 DEF Rounds
<1>2. \E f : IsLoop(f, X, L, T, g)
  <2> HIDE DEF g, L, X
  <2>1. T \in X
    BY DEF X
  <2>2. QED
    BY <1>0, <1>1, <2>1, Loop
<1>3. PICK f : IsLoop(f, X, L, T, g)
  BY <1>2
<1>4. IsPutLoop(f, T, S, rows)
  <2>1. ASSUME NEW j \in 1 .. L PROVE f[j] = PutRow(f[j - 1], S[j], rows[j])
    <3>1. f[j - 1] \in X
      BY <1>0, <1>3, SMTT(30) DEF IsLoop
    <3>2. QED
      BY <1>3, <3>1 DEF IsLoop
  <2> HIDE DEF X, g
  <2>2. \A j \in 0 .. L : f[j] = IF j = 0 THEN T ELSE PutRow(f[j - 1], S[j], rows[j])
    BY <1>0, <1>3, <2>1, SMTT(30) DEF IsLoop
  <2>3. f = [j \in 0 .. L |-> f[j]]
    BY <1>3 DEF IsLoop
  <2>4. QED
    BY <2>2, <2>3 DEF IsPutLoop
<1>5. IsPutLoop(put, T, S, rows)
  BY <1>4
<1> HIDE DEF put
<1>6. \A j \in 0 .. L : put[j] = IF j = 0 THEN T ELSE PutRow(put[j - 1], S[j], rows[j])
  BY <1>5 DEF IsPutLoop
<1>7. QED
  BY <1>0, <1>6, SMTT(30) DEF put

IsTsLoop(f, T, N, m, rows) ==
  f = [j \in 0 .. m |->
         IF j = 0 THEN N
         ELSE TsPutRow(f[j - 1], T.free_slots[T.free_slot_count - j], rows[j])]

\* The rounds of time_series_batch_insert.
LEMMA TsLoop ==
  ASSUME NEW T, NEW N \in TableType, NEW m \in Nat, NEW rows,
         \A j \in 1 .. m : /\ T.free_slots[T.free_slot_count - j] \in Slots
                           /\ rows[j] \in Rows
  PROVE  LET put == CHOOSE f : IsTsLoop(f, T, N, m, rows)
         IN  /\ put[0] = N
             /\ \A j \in 1 .. m : put[j] =
                  TsPutRow(put[j - 1], T.free_slots[T.free_slot_count - j], rows[j])
<1> DEFINE s(j) == T.free_slots[T.free_slot_count - j]
           X == TableType
           g == [j \in 1 .. m |-> [A \in X |-> TsPutRow(A, s(j), rows[j])]]
           put == CHOOSE f : IsTsLoop(f, T, N, m, rows)
<1>1. g \in Rounds(X, m)
  <2>1. \A j \in 1 .. m, A \in X : TsPutRow(A, s(j), rows[j]) \in X
    BY TsPutRowPuts DEF Puts
  <2>2. QED
    BY <2>1 DEF Rounds
<1>2. \E f : IsLoop(f, X, m, N, g)
  <2> HIDE DEF g, X
  <2>1. N \in X
    BY DEF X
  <2>2. QED
    BY <1>1, <2>1, Loop
<1>3. PICK f : IsLoop(f, X, m, N, g)
  BY <1>2
<1>4. IsTsLoop(f, T, N, m, rows)
  <2>1. ASSUME NEW j \in 1 .. m PROVE f[j] = TsPutRow(f[j - 1], s(j), rows[j])
    <3>1. f[j - 1] \in X
      BY <1>3, SMTT(30) DEF IsLoop
    <3>2. QED
      BY <1>3, <3>1 DEF IsLoop
  <2> HIDE DEF X, g
  <2>2. \A j \in 0 .. m : f[j] = IF j = 0 THEN N ELSE TsPutRow(f[j - 1], s(j), rows[j])
    BY <1>3, <2>1, SMTT(30) DEF IsLoop
  <2>3. f = [j \in 0 .. m |-> f[j]]
    BY <1>3 DEF IsLoop
  <2>4. QED
    BY <2>2, <2>3 DEF IsTsLoop
<1>5. IsTsLoop(put, T, N, m, rows)
  BY <1>4
<1> HIDE DEF put
<1>6. \A j \in 0 .. m : put[j] = IF j = 0 THEN N ELSE TsPutRow(put[j - 1], s(j), rows[j])
  BY <1>5 DEF IsTsLoop
<1>7. QED
  BY <1>6, SMTT(30) DEF put

\* The batch is counted at its end.
LEMMA CountedEffect ==
  ASSUME NEW T, WF(T, {}), NEW max, NEW n \in Nat
  PROVE  LET N == BatchCounted(T, max, n)
         IN  /\ WF(N, {}) /\ N.low_power_mode = T.low_power_mode
             /\ Used(N) = Used(T)
             /\ ~T.low_power_mode => N.record_count = T.record_count + n
<1> DEFINE N == BatchCounted(T, max, n)
<1>1. T \in TableType
  BY DEF WF
<1>2. WF(N, {}) /\ N.low_power_mode = T.low_power_mode
  BY BatchCountedWF
<1>3. N.status = T.status
  BY <1>1 DEF BatchCounted, TableType
<1>4. ~T.low_power_mode => N.record_count = T.record_count + n
  BY <1>1 DEF BatchCounted, TableType
<1>5. Used(N) = Used(T)
  BY <1>3 DEF Used
<1>6. QED
  BY <1>2, <1>4, <1>5

(***************************************************************************)
(* The table in and out of low power mode                                  *)
(***************************************************************************)
LpInv ==
  /\ WF(lpTbl, {})
  /\ lpMode \in BOOLEAN /\ lpBatched \in BOOLEAN
  /\ lpTbl.low_power_mode = lpMode
  /\ CountUnlessBatched

\* The step that LimitHolds allows.
WithinLimit ==
  lpMode /\ lpMode' /\ ~lpBatched' =>
    Cardinality(Used(lpTbl')) <= Larger(Cardinality(Used(lpTbl)), LowPowerMax)

\* The invariant holds for a new table.
LEMMA LpInitInv == LpInit => LpInv
<1> SUFFICES ASSUME LpInit PROVE LpInv
  OBVIOUS
<1>1. WF(lpTbl, {}) /\ Used(lpTbl) = {} /\ lpTbl.record_count = 0
      /\ lpTbl.low_power_mode = FALSE
  BY NewTableWF DEF LpInit
<1>2. Cardinality({}) = 0
  BY FS_EmptySet
<1>3. QED
  BY <1>1, <1>2 DEF LpInit, LpInv, CountUnlessBatched

\* A step that adds no record stays within the limit.
LEMMA NoGrowth ==
  ASSUME Cardinality(Used(lpTbl')) <= Cardinality(Used(lpTbl))
  PROVE  WithinLimit
<1>1. Cardinality(Used(lpTbl)) \in Nat /\ Cardinality(Used(lpTbl')) \in Nat
  BY UsedFinite
<1>2. QED
  BY <1>1, SizesAssumption, SMTT(30) DEF WithinLimit, Larger

\* insert, at the limit over the oldest record.
LEMMA LpInsertStep == LpInv /\ LpInsert => LpInv' /\ WithinLimit
<1> SUFFICES ASSUME LpInv, LpInsert PROVE LpInv' /\ WithinLimit
  OBVIOUS
<1> DEFINE T == lpTbl
<1>1. PICK row \in Rows, s \in InsertSlot(T) :
        lpTbl' = InsertRow(T, s, row) /\ UNCHANGED <<lpMode, lpBatched>>
  BY DEF LpInsert
<1>2. WF(T, {}) /\ {} \in SUBSET Slots
  BY DEF LpInv
<1>3. /\ WF(lpTbl', {}) /\ lpTbl'.low_power_mode = T.low_power_mode
      /\ Used(lpTbl') = Used(T) \cup {s}
      /\ \/ s \in Used(T) /\ lpTbl'.record_count = T.record_count
         \/ s \notin Used(T) /\ lpTbl'.record_count = T.record_count + 1
  BY <1>1, <1>2, InsertRowWF
<1>4. /\ s \in Used(T) => Cardinality(Used(lpTbl')) = Cardinality(Used(T))
      /\ s \notin Used(T) => Cardinality(Used(lpTbl')) = Cardinality(Used(T)) + 1
  <2>1. s \in Used(T) => Used(lpTbl') = Used(T)
    BY <1>3
  <2>2. IsFiniteSet(Used(T))
    BY UsedFinite
  <2>3. s \notin Used(T) => Cardinality(Used(T) \cup {s}) = Cardinality(Used(T)) + 1
    BY <2>2, FS_AddElement
  <2>4. QED
    BY <1>3, <2>1, <2>3
<1>5. LpInv'
  BY <1>1, <1>3, <1>4 DEF LpInv, CountUnlessBatched
<1>6. WithinLimit
  <2>0. Cardinality(Used(T)) \in Nat /\ Cardinality(Used(lpTbl')) \in Nat
    BY UsedFinite
  <2>1. CASE s \in Used(T)
    BY <1>4, <2>0, <2>1, NoGrowth, SMTT(30)
  <2>2. CASE s \notin Used(T)
    <3> SUFFICES ASSUME lpMode, ~lpBatched'
                 PROVE  Cardinality(Used(T)) + 1 <= Larger(Cardinality(Used(T)), LowPowerMax)
      BY <1>4, <2>2 DEF WithinLimit
    <3>1. /\ T.low_power_mode /\ T.record_count = Cardinality(Used(T))
          /\ lpTbl'.record_count = T.record_count + 1
      BY <1>1, <1>3, <2>2 DEF LpInv, CountUnlessBatched
    <3>2. ~AtCapacity(T)
      <4>1. AtCapacity(T) => s \in Used(T)
        BY <1>1, <3>1 DEF InsertSlot, OldestSlot
      <4>2. QED
        BY <2>2, <4>1
    <3>3. T.record_count < LowPowerMax
      BY <2>0, <3>1, <3>2, SizesAssumption, SMTT(30) DEF AtCapacity, EffectiveMax
    <3>4. QED
      BY <2>0, <3>1, <3>3, SizesAssumption, SMTT(30) DEF Larger
  <2>3. QED
    BY <2>1, <2>2
<1>7. QED
  BY <1>5, <1>6

\* update changes no slot of the stack.
LEMMA LpUpdateStep == LpInv /\ LpUpdate => LpInv' /\ WithinLimit
<1> SUFFICES ASSUME LpInv, LpUpdate PROVE LpInv' /\ WithinLimit
  OBVIOUS
<1>1. PICK s \in Used(lpTbl), row \in Rows :
        lpTbl' = UpdateRow(lpTbl, s, row) /\ UNCHANGED <<lpMode, lpBatched>>
  BY DEF LpUpdate
<1>2. WF(lpTbl, {}) /\ s \in Slots
  BY DEF LpInv, Used
<1>3. /\ WF(lpTbl', {}) /\ lpTbl'.low_power_mode = lpTbl.low_power_mode
      /\ Used(lpTbl') = Used(lpTbl) /\ lpTbl'.record_count = lpTbl.record_count
  BY <1>1, <1>2, UpdateRowWF
<1>4. LpInv'
  BY <1>1, <1>3 DEF LpInv, CountUnlessBatched
<1>5. WithinLimit
  <2>1. Cardinality(Used(lpTbl)) \in Nat
    BY UsedFinite
  <2>2. QED
    BY <1>3, <2>1, NoGrowth, SMTT(30)
<1>6. QED
  BY <1>4, <1>5

\* delete frees one slot.
LEMMA LpDeleteStep == LpInv /\ LpDelete => LpInv' /\ WithinLimit
<1> SUFFICES ASSUME LpInv, LpDelete PROVE LpInv' /\ WithinLimit
  OBVIOUS
<1>1. PICK s \in Used(lpTbl) :
        lpTbl' = DeleteRow(lpTbl, s) /\ UNCHANGED <<lpMode, lpBatched>>
  BY DEF LpDelete
<1>2. WF(lpTbl, {}) /\ {} \in SUBSET Slots
  BY DEF LpInv
<1>3. /\ WF(lpTbl', {}) /\ lpTbl'.low_power_mode = lpTbl.low_power_mode
      /\ Used(lpTbl') = Used(lpTbl) \ {s}
      /\ lpTbl'.record_count = lpTbl.record_count - 1
  BY <1>1, <1>2, DeleteRowWF
<1>4. /\ Cardinality(Used(lpTbl')) = Cardinality(Used(lpTbl)) - 1
      /\ Cardinality(Used(lpTbl)) \in Nat
  BY <1>3, UsedFinite, FS_RemoveElement
<1>5. LpInv'
  BY <1>1, <1>3, <1>4 DEF LpInv, CountUnlessBatched
<1>6. WithinLimit
  BY <1>4, NoGrowth, SMTT(30)
<1>7. QED
  BY <1>5, <1>6

\* Entering and leaving low power mode adds no record.
LEMMA LpModeStep ==
  LpInv /\ (EnterLowPowerMode \/ ExitLowPowerMode) => LpInv' /\ WithinLimit
<1> SUFFICES ASSUME LpInv, EnterLowPowerMode \/ ExitLowPowerMode
             PROVE  LpInv' /\ WithinLimit
  OBVIOUS
<1>1. PICK on \in BOOLEAN : /\ lpTbl' = SetLowPowerMode(lpTbl, on) /\ lpMode' = on
                            /\ lpMode = ~on /\ lpBatched' = lpBatched
  <2>1. CASE EnterLowPowerMode
    <3>1. lpMode = ~TRUE
      BY <2>1 DEF EnterLowPowerMode, LpInv
    <3>2. QED
      BY <2>1, <3>1 DEF EnterLowPowerMode
  <2>2. CASE ExitLowPowerMode
    <3>1. lpMode = ~FALSE
      BY <2>2 DEF ExitLowPowerMode, LpInv
    <3>2. QED
      BY <2>2, <3>1 DEF ExitLowPowerMode
  <2>3. QED
    BY <2>1, <2>2
<1>2. lpTbl \in TableType
  BY DEF LpInv, WF
<1>3. /\ lpTbl' \in TableType /\ lpTbl'.low_power_mode = on
      /\ lpTbl'.status = lpTbl.status /\ lpTbl'.free_slots = lpTbl.free_slots
      /\ lpTbl'.free_slot_count = lpTbl.free_slot_count
      /\ lpTbl'.record_count = lpTbl.record_count
  BY <1>1, <1>2 DEF SetLowPowerMode, TableType
<1>4. Used(lpTbl') = Used(lpTbl)
  BY <1>3 DEF Used
<1>5. WF(lpTbl', {})
  BY <1>3, <1>4, SMTT(30) DEF LpInv, WF, StackDistinct, Partition, Stack
<1>6. LpInv'
  BY <1>1, <1>3, <1>4, <1>5 DEF LpInv, CountUnlessBatched
<1>7. WithinLimit
  BY <1>1 DEF WithinLimit
<1>8. QED
  BY <1>6, <1>7

\* A batch is a sequence of rows.
LEMMA BatchRows ==
  ASSUME NEW rows \in Batches
  PROVE  rows \in Seq(Rows) /\ Len(rows) \in Nat
<1>1. PICK n \in 1 .. LpMaxBatch : rows \in [1 .. n -> Rows]
  BY DEF Batches
<1>2. n \in Nat
  BY LowPowerAssumption, SMTT(30)
<1>3. QED
  BY <1>1, <1>2, SMTT(30)

\* batch_insert, at the limit over the oldest records.
LEMMA LpBatchStep == LpInv /\ LpBatchInsert => LpInv' /\ WithinLimit
<1> SUFFICES ASSUME LpInv, LpBatchInsert PROVE LpInv' /\ WithinLimit
  OBVIOUS
<1> DEFINE T == lpTbl
           Slot(n) == BatchSlots(T, n)
           put(rows) == CHOOSE f : IsPutLoop(f, BatchReserve(T, Len(rows)),
                                             Slot(Len(rows)), rows)
<1>1. PICK rows \in Batches :
        /\ lpTbl' = BatchCounted(put(rows)[Len(Slot(Len(rows)))], EffectiveMax(T),
                                 Len(Slot(Len(rows))))
        /\ lpBatched' = (lpBatched \/ lpMode)
        /\ UNCHANGED lpMode
  BY DEF LpBatchInsert, IsPutLoop
<1> DEFINE n == Len(rows)
           S == BatchSlots(T, n)
           N == BatchReserve(T, n)
           f == CHOOSE h : IsPutLoop(h, N, S, rows)
           M == f[Len(S)]
<1>2. rows \in Seq(Rows) /\ n \in Nat /\ WF(T, {})
  BY BatchRows DEF LpInv
<1>3. PICK Top \in SUBSET Slots :
        /\ S \in Seq(Slots) /\ Len(S) <= n
        /\ WF(N, Top) /\ Used(N) = Used(T)
        /\ N.record_count = T.record_count /\ N.low_power_mode = T.low_power_mode
        /\ \A i \in DOMAIN S : S[i] \in Used(T) \cup Top
        /\ Top \subseteq Firsts(S, Len(S))
        /\ ~T.low_power_mode => Fresh(S, Used(T))
  <2> HIDE DEF n
  <2>1. QED
    BY <1>2, BatchPlan
<1>4. lpTbl' = BatchCounted(M, EffectiveMax(T), Len(S))
  BY <1>1
<1> HIDE DEF n, S, N
<1>5. /\ f[0] = N
      /\ \A j \in 1 .. Len(S) : f[j] = PutRow(f[j - 1], S[j], rows[j])
  <2>1. N \in TableType /\ Len(S) <= Len(rows)
    BY <1>3 DEF WF, n
  <2>2. QED
    BY <1>2, <1>3, <2>1, PutLoop
<1> HIDE DEF f
<1>6. \A j \in 1 .. Len(S) : f[j - 1] \in TableType => Puts(f[j - 1], f[j], S[j])
  <2> TAKE j \in 1 .. Len(S)
  <2>1. S[j] \in Slots /\ rows[j] \in Rows
    BY <1>2, <1>3, SMTT(30) DEF n
  <2>2. QED
    BY <1>5, <2>1, PutRowPuts
<1>7. Put(N, M, S, Top, Used(N), Len(S))
  <2>1. N \in TableType
    BY <1>3 DEF WF
  <2>2. \A i \in DOMAIN S : S[i] \in Used(N) \cup Top
    BY <1>3
  <2>3. QED
    BY <1>3, <1>5, <1>6, <2>1, <2>2, PutAll
<1>8. WF(M, {})
  <2>1. Top \ Firsts(S, Len(S)) = {}
    BY <1>3
  <2>2. QED
    BY <1>7, <2>1 DEF Put
<1>9. /\ M.low_power_mode = T.low_power_mode /\ M.record_count = T.record_count
      /\ ~T.low_power_mode => Cardinality(Used(M)) = Cardinality(Used(T)) + Len(S)
  BY <1>3, <1>7 DEF Put
<1> HIDE DEF M
<1>10. /\ WF(lpTbl', {}) /\ lpTbl'.low_power_mode = M.low_power_mode
       /\ Used(lpTbl') = Used(M)
       /\ ~M.low_power_mode => lpTbl'.record_count = M.record_count + Len(S)
  <2>1. Len(S) \in Nat
    BY <1>3, SMTT(30)
  <2>2. QED
    BY <1>4, <1>8, <2>1, CountedEffect
<1>11. ~lpBatched' => ~lpBatched /\ ~lpMode
  BY <1>1
<1>12. lpBatched' \in BOOLEAN /\ lpMode' = lpMode
  BY <1>1
<1>13. LpInv'
  BY <1>9, <1>10, <1>11, <1>12 DEF LpInv, CountUnlessBatched
<1>14. WithinLimit
  BY <1>11 DEF WithinLimit
<1>15. QED
  BY <1>13, <1>14

\* time_series_batch_insert, at the limit over the oldest records.
LEMMA LpTsBatchStep == LpInv /\ LpTimeSeriesBatchInsert => LpInv' /\ WithinLimit
<1> SUFFICES ASSUME LpInv, LpTimeSeriesBatchInsert PROVE LpInv' /\ WithinLimit
  OBVIOUS
<1> DEFINE T == lpTbl
           size(rows) == TsSize(T, Len(rows))
           put(rows) == CHOOSE f : IsTsLoop(f, T, TsReserve(T, Len(rows)),
                                            size(rows), rows)
<1>1. PICK rows \in Batches :
        /\ size(rows) # 0
        /\ lpTbl' = [put(rows)[size(rows)] EXCEPT !.record_count = @ + size(rows)]
        /\ lpBatched' = (lpBatched \/ lpMode)
        /\ UNCHANGED lpMode
  BY DEF LpTimeSeriesBatchInsert, IsTsLoop
<1> DEFINE n == Len(rows)
           m == TsSize(T, n)
           c == T.free_slot_count
           N == TsReserve(T, n)
           S == [j \in 1 .. m |-> T.free_slots[c - j]]
           Top == {T.free_slots[c - j] : j \in 1 .. m}
           f == CHOOSE h : IsTsLoop(h, T, N, m, rows)
           M == f[m]
<1>2. rows \in Seq(Rows) /\ n \in Nat /\ WF(T, {}) /\ T \in TableType
  BY BatchRows DEF LpInv, WF
<1>3. c \in 0 .. MaxRecords /\ T.record_count \in Int /\ c \in Nat
      /\ T.free_slots \in [Slots -> Slots]
  BY <1>2, Fields, SizesAssumption, SMTT(30)
<1>4. m \in 1 .. c /\ m <= n
  BY <1>1, <1>2, <1>3, SizesAssumption, SMTT(30) DEF TsSize, Smaller
<1>5. lpTbl' = [M EXCEPT !.record_count = @ + m]
  BY <1>1
<1> HIDE DEF m
<1>6. /\ N \in TableType /\ N.free_slots = T.free_slots
      /\ N.free_slot_count = c - m /\ N.status = T.status
      /\ N.low_power_mode = T.low_power_mode /\ N.record_count = T.record_count
  <2>1. N = [T EXCEPT !.free_slot_count = c - m]
    BY DEF TsReserve, m
  <2>2. c - m \in 0 .. MaxRecords
    BY <1>3, <1>4, SizesAssumption, SMTT(30)
  <2>3. QED
    BY <1>2, <2>1, <2>2 DEF TableType
<1> HIDE DEF N
<1>7. /\ StackDistinct(N) /\ Top \subseteq Slots
      /\ Stack(N) = Stack(T) \ Top /\ Top \subseteq Stack(T)
  BY <1>2, <1>4, <1>6, PopEffect DEF WF
<1>8. Used(N) = Used(T) /\ Top \cap Used(T) = {} /\ WF(N, Top)
  <2>1. Used(N) = Used(T)
    BY <1>6 DEF Used
  <2>2. QED
    BY <1>2, <1>6, <1>7, <2>1 DEF WF, Partition
<1>9. \A j \in 1 .. m : T.free_slots[c - j] \in Slots /\ rows[j] \in Rows
  <2> TAKE j \in 1 .. m
  <2>1. j \in 1 .. n /\ c - j \in Slots
    BY <1>2, <1>3, <1>4, SizesAssumption, SMTT(30) DEF Slots
  <2>2. QED
    BY <1>2, <1>3, <2>1, SMTT(30)
<1>10. S \in Seq(Slots) /\ Len(S) = m /\ DOMAIN S = 1 .. m
       /\ \A j \in 1 .. m : S[j] = T.free_slots[c - j]
  BY <1>4, <1>9, SMTT(30)
<1>11. Firsts(S, m) = Top
  <2> HIDE DEF S
  <2>1. QED
    BY <1>10 DEF Firsts
<1>12. Fresh(S, Used(T))
  <2> HIDE DEF S
  <2>1. ASSUME NEW i \in 1 .. m, NEW j \in 1 .. m, S[i] = S[j] PROVE i = j
    <3>1. /\ c - i \in 0 .. c - 1 /\ c - j \in 0 .. c - 1
          /\ T.free_slots[c - i] = T.free_slots[c - j]
      BY <1>3, <1>4, <1>10, <2>1, SMTT(30)
    <3>2. c - i = c - j
      BY <1>2, <3>1 DEF WF, StackDistinct
    <3>3. QED
      BY <1>3, <3>2, SMTT(30)
  <2>2. \A i \in 1 .. m : S[i] \in Top
    BY <1>10
  <2>3. QED
    BY <1>8, <1>10, <2>1, <2>2 DEF Fresh
<1>13. /\ f[0] = N
       /\ \A j \in 1 .. m : f[j] = TsPutRow(f[j - 1], T.free_slots[c - j], rows[j])
  <2>1. m \in Nat
    BY <1>4, SMTT(30)
  <2>2. QED
    BY <1>6, <1>9, <2>1, TsLoop, SMTT(30)
<1> HIDE DEF S, f
<1>14. \A j \in 1 .. Len(S) : f[j - 1] \in TableType => Puts(f[j - 1], f[j], S[j])
  BY <1>9, <1>10, <1>13, TsPutRowPuts
<1>15. \A i \in DOMAIN S : S[i] \in Used(N) \cup Top
  BY <1>10
<1> HIDE DEF Top
<1>16. Put(N, M, S, Top, Used(N), m)
  BY <1>6, <1>7, <1>8, <1>10, <1>13, <1>14, <1>15, PutAll
<1>17. /\ WF(M, {}) /\ M.low_power_mode = T.low_power_mode
       /\ M.record_count = T.record_count
       /\ Cardinality(Used(M)) = Cardinality(Used(T)) + m
  <2>1. Top \ Firsts(S, m) = {}
    BY <1>11
  <2>2. QED
    BY <1>6, <1>8, <1>12, <1>16, <2>1 DEF Put
<1> HIDE DEF M
<1>18. /\ lpTbl' \in TableType /\ lpTbl'.status = M.status
       /\ lpTbl'.free_slots = M.free_slots
       /\ lpTbl'.free_slot_count = M.free_slot_count
       /\ lpTbl'.low_power_mode = M.low_power_mode
       /\ lpTbl'.record_count = T.record_count + m
  <2>1. M \in TableType /\ T.record_count + m \in Int
    BY <1>3, <1>4, <1>17, SMTT(30) DEF WF
  <2>2. lpTbl' = [M EXCEPT !.record_count = T.record_count + m]
    BY <1>5, <1>17
  <2>3. QED
    BY <2>1, <2>2 DEF TableType
<1>19. Used(lpTbl') = Used(M)
  BY <1>18 DEF Used
<1>20. WF(lpTbl', {})
  BY <1>17, <1>18, <1>19, SMTT(30) DEF WF, StackDistinct, Partition, Stack
<1>21. ~lpBatched' => ~lpBatched /\ ~lpMode
  BY <1>1
<1>22. lpBatched' \in BOOLEAN /\ lpMode' = lpMode
  BY <1>1
<1>23. LpInv'
  BY <1>17, <1>18, <1>19, <1>20, <1>21, <1>22 DEF LpInv, CountUnlessBatched
<1>24. WithinLimit
  BY <1>21 DEF WithinLimit
<1>25. QED
  BY <1>23, <1>24

\* Every step keeps the invariant and the limit.
LEMMA LpStep == LpInv /\ [LpNext]_lpVars => LpInv' /\ [WithinLimit]_lpVars
<1> SUFFICES ASSUME LpInv, [LpNext]_lpVars PROVE LpInv' /\ [WithinLimit]_lpVars
  OBVIOUS
<1>1. CASE LpInsert
  BY <1>1, LpInsertStep
<1>2. CASE LpUpdate
  BY <1>2, LpUpdateStep
<1>3. CASE LpDelete
  BY <1>3, LpDeleteStep
<1>4. CASE LpBatchInsert
  BY <1>4, LpBatchStep
<1>5. CASE LpTimeSeriesBatchInsert
  BY <1>5, LpTsBatchStep
<1>6. CASE EnterLowPowerMode \/ ExitLowPowerMode
  BY <1>6, LpModeStep
<1>7. CASE UNCHANGED lpVars
  BY <1>7 DEF lpVars, LpInv, CountUnlessBatched
<1>8. QED
  BY <1>1, <1>2, <1>3, <1>4, <1>5, <1>6, <1>7 DEF LpNext

\* A table that enters and leaves low power mode at any time keeps its free
\* stack exact, counts its records unless a batch method ran in that mode, and
\* does not grow past the low power limit (insert, delete, batch_insert,
\* time_series_batch_insert and set_low_power_mode of table.rs), for every
\* number of slots and every limit.
THEOREM LowPowerIsExact == LpSpec => LpExact
<1>1. LpInv => StackExact /\ CountUnlessBatched
  BY DEF LpInv, WF, StackExact
<1>2. LpSpec => [](StackExact /\ CountUnlessBatched)
  BY <1>1, LpInitInv, LpStep, PTL DEF LpSpec
<1>3. LpSpec => LimitHolds
  <2>1. LpSpec => [][WithinLimit]_lpVars
    BY LpInitInv, LpStep, PTL DEF LpSpec
  <2>2. QED
    BY <2>1 DEF LimitHolds, WithinLimit
<1>4. QED
  BY <1>2, <1>3 DEF LpExact
=============================================================================
