---------------------------- MODULE LowPowerTable ---------------------------
(***************************************************************************)
(* One table of a database that enters and leaves low power mode           *)
(* (RemDb::enter_low_power_mode, exit_low_power_mode), used by one thread  *)
(* with no transaction active.  In low power mode the table is limited to  *)
(* LowPowerMax records, and an insert at the limit overwrites a record.    *)
(* The two batch methods run here without other threads in the way: their  *)
(* critical sections and the copies between them are one step.             *)
(***************************************************************************)
EXTENDS MemoryTable, Sequences

CONSTANTS LpMaxBatch, \* bound on the records of a batch
          MaxCount,   \* batches start with a record_count of at most this
          Supported   \* config.low_power_mode_supported

ASSUME LowPowerAssumption ==
  LpMaxBatch \in Nat /\ MaxCount \in Nat /\ Supported \in BOOLEAN

VARIABLES lpTbl,     \* the table
          lpMode,    \* RemDb::low_power_mode
          lpBatched  \* history: a batch method ran in low power mode

lpVars == <<lpTbl, lpMode, lpBatched>>

LpInit ==
  /\ lpTbl \in NewTables
  /\ lpMode = FALSE
  /\ lpBatched = FALSE

LpInsert ==
  \E row \in Rows :
     /\ ~Conflict(lpTbl, row, {}, 1)
     /\ \E s \in InsertSlot(lpTbl) : lpTbl' = InsertRow(lpTbl, s, row)
     /\ UNCHANGED <<lpMode, lpBatched>>

LpUpdate ==
  \E s \in Used(lpTbl), row \in Rows :
     /\ ~Conflict(lpTbl, row, {s}, 1)
     /\ lpTbl' = UpdateRow(lpTbl, s, row)
     /\ UNCHANGED <<lpMode, lpBatched>>

LpDelete ==
  \E s \in Used(lpTbl) :
     /\ lpTbl' = DeleteRow(lpTbl, s)
     /\ UNCHANGED <<lpMode, lpBatched>>

Batches == UNION {[1 .. n -> Rows] : n \in 1 .. LpMaxBatch}

LpBatchInsert ==
  \E rows \in Batches :
     LET n == Len(rows)
         S == BatchSlots(lpTbl, n)
         put[j \in 0 .. Len(S)] ==
           IF j = 0 THEN BatchReserve(lpTbl, n)
           ELSE PutRow(put[j - 1], S[j], rows[j])
     IN  /\ lpTbl.record_count \in 0 .. MaxCount
         /\ BatchSize(lpTbl, n) # 0
         /\ lpTbl' = BatchCounted(put[Len(S)], EffectiveMax(lpTbl), Len(S))
         /\ lpBatched' = (lpBatched \/ lpMode)
         /\ UNCHANGED lpMode

LpTimeSeriesBatchInsert ==
  \E rows \in Batches :
     LET m == TsSize(lpTbl, Len(rows))
         put[j \in 0 .. m] ==
           IF j = 0 THEN TsReserve(lpTbl, Len(rows))
           ELSE TsPutRow(put[j - 1], lpTbl.free_slots[lpTbl.free_slot_count - j],
                         rows[j])
     IN  /\ m # 0
         /\ lpTbl' = [put[m] EXCEPT !.record_count = @ + m]
         /\ lpBatched' = (lpBatched \/ lpMode)
         /\ UNCHANGED lpMode

EnterLowPowerMode ==
  /\ Supported /\ ~lpMode
  /\ lpMode' = TRUE
  /\ lpTbl' = SetLowPowerMode(lpTbl, TRUE)
  /\ UNCHANGED lpBatched

ExitLowPowerMode ==
  /\ lpMode
  /\ lpMode' = FALSE
  /\ lpTbl' = SetLowPowerMode(lpTbl, FALSE)
  /\ UNCHANGED lpBatched

LpNext ==
  \/ LpInsert \/ LpUpdate \/ LpDelete
  \/ LpBatchInsert \/ LpTimeSeriesBatchInsert
  \/ EnterLowPowerMode \/ ExitLowPowerMode

LpSpec == LpInit /\ [][LpNext]_lpVars

----------------------------------------------------------------------------
\* Overwriting records at the low power limit, one by one or in batches, keeps
\* the free stack exact, also when the mode is entered with more records than
\* the limit and left again.
StackExact == StackDistinct(lpTbl) /\ Partition(lpTbl, {})

\* record_count is the number of records unless a batch method was used in low
\* power lpMode: an insert that overwrites does not count, and one that finds the
\* limit raised again does.
CountUnlessBatched == ~lpBatched => lpTbl.record_count = Cardinality(Used(lpTbl))

\* In low power mode the number of records does not grow past the limit: an
\* insert at the limit (or above it, when the mode was entered with more
\* records) replaces a record.
LimitHolds ==
  [][lpMode /\ lpMode' /\ ~lpBatched' =>
       Cardinality(Used(lpTbl')) <= Larger(Cardinality(Used(lpTbl)), LowPowerMax)]_lpVars

\* Free stack, count and limit of a table that enters and leaves low power mode at any
\* time (table.rs insert, delete, batch_insert, time_series_batch_insert).
LpExact == [](StackExact /\ CountUnlessBatched) /\ LimitHolds
=============================================================================
