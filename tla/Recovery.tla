------------------------------ MODULE Recovery ------------------------------
(***************************************************************************)
(* Crash and restart: the clients of the C API (Transaction) on a database *)
(* whose commits go to the write-ahead log, item by item, and whose memory *)
(* is lost in a crash.  LogManager::recover replays the log on the table.  *)
(*                                                                         *)
(* The log is the list of items that its scan finds; here it finds those   *)
(* that were written.  How the items lie in the file, and what the scan    *)
(* makes of it, is module WalFile.                                         *)
(***************************************************************************)
EXTENDS Transaction

CONSTANTS MaxCrashes,  \* bound on the number of crashes
          Outside      \* clients also work outside transactions, or in ones
                       \* with a full log

ASSUME CrashAssumption ==
  /\ MaxCrashes \in Nat /\ Outside \in BOOLEAN
  /\ NoTx \notin [next : Nat, count : Nat]

VARIABLES wal,      \* the items in the log file, oldest first
          flush,    \* items that commit has still to write; NoTx outside commit
          up,       \* the database has been recovered since its last start
          redo,     \* the item that recover replays next; NoTx outside recover
          crashes,  \* number of crashes so far
          stable,   \* history: what recover may bring back: the records when the
                    \* last commit returned and those of a commit under way
          lost,     \* history: an operation did not reach the log
          torn      \* history: a commit was interrupted between two items

rvars == <<vars, wal, flush, up, redo, crashes, stable, lost, torn>>

Unlogged == UNCHANGED <<wal, up, redo, crashes, torn>>

RInit ==
  /\ Init
  /\ wal = <<>>
  /\ flush = [c \in Clients |-> NoTx]
  /\ up = TRUE
  /\ redo = NoTx
  /\ crashes = 0
  /\ stable = {Content(tbl)}
  /\ lost = FALSE
  /\ torn = FALSE

(***************************************************************************)
(* What clients do while the database is up                                *)
(***************************************************************************)
Idle(c) == up /\ redo = NoTx /\ flush[c] = NoTx

\* A bound: each restart leaves one transaction less.
TxStep(c) ==
  /\ Idle(c)
  /\ \/ Begin(c) /\ counter + crashes <= MaxTx
     \/ RollbackBegin(c) \/ UndoNext(c) \/ RollbackEnd(c)
  /\ UNCHANGED <<flush, stable, lost>> /\ Unlogged

\* Operations outside a transaction do not reach the log.
RecordStep(c) ==
  /\ Idle(c)
  /\ Outside \/ (cur # NoTx /\ cur.count < MaxLog)
  /\ ApiInsert(c) \/ ApiUpdate(c) \/ ApiDelete(c)
  /\ lost' = (lost \/ dropped' \/ cur = NoTx)
  /\ UNCHANGED <<flush, stable>> /\ Unlogged

(***************************************************************************)
(* commit: current_tx is cleared, then commit_log_item writes the items    *)
(* from the log buffer one by one.  An error of the log manager ends it.   *)
(***************************************************************************)

CommitBegin(c) ==
  /\ Idle(c)
  /\ Commit(c)
  /\ flush' = [flush EXCEPT ![c] = [next |-> 1, count |-> cur.count]]
  /\ stable' = stable \cup {Content(tbl)}
  /\ UNCHANGED lost /\ Unlogged

\* Mutant: the items are written newest first, as rollback walks them.
CommitItemReversed(c) ==
  /\ flush[c] # NoTx /\ flush[c].next <= flush[c].count
  /\ wal' = Append(wal, buf[flush[c].count + 1 - flush[c].next])
  /\ flush' = [flush EXCEPT ![c].next = @ + 1]
  /\ UNCHANGED <<vars, up, redo, crashes, stable, lost, torn>>

CommitItem(c) ==
  /\ flush[c] # NoTx /\ flush[c].next <= flush[c].count
  /\ wal' = Append(wal, buf[flush[c].next])
  /\ flush' = [flush EXCEPT ![c].next = @ + 1]
  /\ UNCHANGED <<vars, up, redo, crashes, stable, lost, torn>>

CommitFails(c) ==
  /\ flush[c] # NoTx /\ flush[c].next <= flush[c].count
  /\ flush' = [flush EXCEPT ![c] = NoTx]
  /\ lost' = TRUE
  /\ UNCHANGED <<vars, wal, up, redo, crashes, stable, torn>>

CommitEnd(c) ==
  /\ flush[c] # NoTx /\ flush[c].next > flush[c].count
  /\ flush' = [flush EXCEPT ![c] = NoTx]
  /\ stable' = {Content(tbl)}
  /\ UNCHANGED <<vars, wal, up, redo, crashes, lost, torn>>

(***************************************************************************)
(* The process dies and starts again: tables and indexes are created from  *)
(* the configuration, tx_id_counter starts at 1, the log file is opened.   *)
(***************************************************************************)
Crash ==
  /\ crashes < MaxCrashes
  /\ crashes' = crashes + 1
  /\ up' = FALSE
  /\ redo' = NoTx
  /\ \E T \in NewTables, on \in PowerModes : tbl' = SetLowPowerMode(T, on)
  /\ idx' = NewIndex
  /\ cur' = NoTx
  /\ buf' = [i \in 1 .. MaxLog |-> NoItem]
  /\ counter' = 1
  /\ undo' = [c \in Clients |-> NoTx]
  /\ saved' = [c \in Clients |-> NoTx]
  /\ flush' = [c \in Clients |-> NoTx]
  /\ torn' = (torn \/ \E c \in Clients : /\ flush[c] # NoTx
                                         /\ flush[c].next \in 2 .. flush[c].count)
  /\ UNCHANGED <<dropped, wal, stable, lost>>

(***************************************************************************)
(* recover, phase 3: what an item does to the table and its index          *)
(***************************************************************************)
\* Mutant: the top cell of the stack goes, whichever slot it is.
TakeFreeTop(T, s) == [T EXCEPT !.free_slot_count = Larger(@ - 1, 0)]

\* The cell of slot s leaves the free stack; without one, the top cell does.
TakeFree(T, s) ==
  IF s \in Stack(T) THEN RemoveFree(T, s)
  ELSE [T EXCEPT !.free_slot_count = Larger(@ - 1, 0)]

RedoInsertNew(T, s, item) ==
  [TakeFree(T, s) EXCEPT
     !.data[s] = item.new, !.status[s] = "Used", !.version[s] = Bump(@),
     !.create[s] = item.tx, !.delete[s] = 0,
     !.record_count = @ + 1, !.max_pk = Larger(@, item.new.pk)]

RedoInsertUsed(T, s, item) ==
  [T EXCEPT !.data[s] = item.new, !.version[s] = Bump(@),
            !.create[s] = item.tx, !.max_pk = Larger(@, item.new.pk)]

RedoUpdate(T, s, item) ==
  [T EXCEPT !.data[s] = item.new, !.version[s] = Bump(@),
            !.create[s] = item.tx]

\* D is a table with its index.
Redo(D, item) ==
  LET s == item.id
      used == D.tbl.status[s] = "Used"
      without(key) == IndexDelete(D.idx, key)
      with(I) == IndexInsert(I, MaxRecords, item.new.pk, s)
  IN  CASE item.op = "Insert" ->
             [tbl |-> IF used THEN RedoInsertUsed(D.tbl, s, item)
                      ELSE RedoInsertNew(D.tbl, s, item),
              idx |-> with(without(item.new.pk))]
        [] item.op = "Delete" /\ used ->
             [tbl |-> DeleteRow(D.tbl, s), idx |-> without(D.tbl.data[s].pk)]
        [] item.op = "Update" /\ used ->
             [tbl |-> RedoUpdate(D.tbl, s, item),
              idx |-> with(without(D.tbl.data[s].pk))]
        [] OTHER -> D

\* At a restart, or on a database that is up (recover is a public method).
RecoverBegin ==
  /\ redo = NoTx /\ cur = NoTx
  /\ \A c \in Clients : Ready(c) /\ flush[c] = NoTx
  /\ redo' = 1
  /\ UNCHANGED <<vars, wal, flush, up, crashes, stable, lost, torn>>

RecoverItem ==
  /\ redo # NoTx /\ redo <= Len(wal)
  /\ LET D == Redo([tbl |-> tbl, idx |-> idx], wal[redo])
     IN  tbl' = D.tbl /\ idx' = D.idx
  /\ redo' = redo + 1
  /\ UNCHANGED <<cur, buf, counter, undo, saved, dropped,
                 wal, flush, up, crashes, stable, lost, torn>>

\* Also reached with an empty log, for which recover returns an error.
RecoverEnd ==
  /\ redo # NoTx /\ redo > Len(wal)
  /\ redo' = NoTx
  /\ up' = TRUE
  /\ stable' = {Content(tbl)}
  /\ UNCHANGED <<vars, wal, flush, crashes, lost, torn>>

RNext ==
  \/ \E c \in Clients :
       \/ TxStep(c) \/ RecordStep(c)
       \/ CommitBegin(c) \/ CommitItem(c) \/ CommitFails(c) \/ CommitEnd(c)
  \/ Crash
  \/ RecoverBegin \/ RecoverItem \/ RecoverEnd

RSpec == RInit /\ [][RNext]_rvars

(***************************************************************************)
(* Properties                                                              *)
(***************************************************************************)
RTypeOK ==
  /\ TypeOK
  /\ wal \in Seq(LogItems)
  /\ flush \in [Clients -> [next : Nat \ {0}, count : 0 .. MaxLog] \cup {NoTx}]
  /\ up \in BOOLEAN /\ lost \in BOOLEAN /\ torn \in BOOLEAN
  /\ redo \in (Nat \ {0}) \cup {NoTx}
  /\ crashes \in 0 .. MaxCrashes

AllReplayed == redo # NoTx /\ redo > Len(wal)

\* recover brings back exactly the records of the last commit that returned, or
\* of the one that was under way, each in its slot, wherever the process died
\* (in an earlier recovery too), also when it runs on the live table, as long as
\* every operation was part of a transaction that was written as a whole.
RecoversCommitted ==
  AllReplayed /\ ~lost /\ ~torn => Content(tbl) \in stable

\* After the first restart recover also leaves the primary index with one item
\* per record, even when updates before the crash changed keys and the index of
\* the running database did not follow, and when the last commit was cut short.
\* (After it, keys need not be unique: see KeysUniqueAfterRestart.)
RecoversIndex ==
  AllReplayed /\ ~up /\ ~lost /\ crashes = 1 => ItemsMatchRecords

\* Primary keys stay unique in a database that restarts and recovers, as long as
\* every operation reached the log: validate_constraints sees the records that
\* recover brought back.
KeysUniqueAfterRestart == up /\ redo = NoTx /\ Quiet /\ ~lost => UniquePks(tbl)
\* What recover leaves: the records of the last commit, and an index that has
\* exactly their keys (transaction.rs recover).
RecoversExactly == RecoversCommitted /\ RecoversIndex
=============================================================================
