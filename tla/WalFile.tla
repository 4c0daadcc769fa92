------------------------------ MODULE WalFile -------------------------------
(***************************************************************************)
(* The write-ahead log as a file: how LogManager lays out items, what it   *)
(* leaves after short writes, I/O errors and crashes, and what its two     *)
(* readers (read_variable_size_log_item and the scan of recover) find.     *)
(*                                                                         *)
(* The file is a sequence of cells.  The first holds the log header; an    *)
(* item is HeaderCells cells of header and, for its old and for its new    *)
(* data, a block: one cell with the stored size and then the stored data.  *)
(* Sync and Async mode write the same way.  The XOR checksums are taken to *)
(* tell cells of different items, or in different places, apart.           *)
(***************************************************************************)
EXTENDS Integers, Sequences

CONSTANTS HeaderCells,    \* size_of::<LogItem>()
          DataCells,      \* size of a record
          Layouts,        \* [compressed, packed]: compression is on, and the
                          \* size of a stored record
          PreallocCells,  \* log_prealloc_size
          MaxInvalid, SkipThreshold, SkipBlock,  \* of WALConfig
          Ops,            \* operations that are logged
          MaxItems, MaxFaults, MaxRestarts       \* bounds

ASSUME LayoutAssumption ==
  /\ HeaderCells \in Nat \ {0} /\ DataCells \in Nat \ {0}
  /\ \A l \in Layouts : /\ l.compressed \in BOOLEAN /\ l.packed \in Nat \ {0}
                        /\ ~l.compressed => l.packed = DataCells
  /\ PreallocCells \in Nat /\ MaxInvalid \in Nat
  /\ SkipThreshold \in Nat /\ SkipBlock \in Nat \ {0}
  /\ Ops \subseteq {"Insert", "Update", "Delete", "Schema", "Checkpoint"}

VARIABLES layout,
          file,          \* the cells of the log file
          pos,           \* position of the log handle
          lock,          \* LogManager.lock
          record_count,  \* header.record_count
          offset,        \* current_log_offset
          call,          \* the write under way: its item and its next step
          ops,           \* history: the operation of every item, by item number
          log,           \* history: the items whose write was counted, in order
          whole,         \* history: the items all of whose cells were written
          faults, restarts,
          ioError,       \* history: an I/O call returned an error
          rewritten      \* history: items were written after a restart

manager == <<pos, lock, record_count, offset>>
history == <<ops, log, whole, faults, restarts, ioError, rewritten>>
wvars == <<layout, file, manager, call, history>>

Idle == [item |-> 0, at |-> "idle"]

(***************************************************************************)
(* The encoding of an item                                                 *)
(***************************************************************************)
HasOld(n) == ops[n] \in {"Update", "Delete"}
HasNew(n) == ops[n] \in {"Insert", "Update"}
Blocks(n) == (IF HasOld(n) THEN 1 ELSE 0) + (IF HasNew(n) THEN 1 ELSE 0)

Cell(n, k) == [item |-> n, at |-> k]
Zero == Cell(0, 0)
FileHeader(count) == [item |-> -1, at |-> count]

\* Cells i .. j of item n.
Part(n, i, j) == [k \in 1 .. j - i + 1 |-> Cell(n, i + k - 1)]
BlockCells == 1 + layout.packed
ItemCells(n) == HeaderCells + Blocks(n) * BlockCells

Longer(m, n) == IF m > n THEN m ELSE n

\* f with the cells of s written at position p; a gap reads as zero.
Write(f, p, s) ==
  [i \in 1 .. Longer(Len(f), p + Len(s)) |->
     IF i - p \in DOMAIN s THEN s[i - p]
     ELSE IF i \in DOMAIN f THEN f[i] ELSE Zero]

Init ==
  /\ layout \in Layouts
  /\ file = <<FileHeader(0)>> \o [i \in 1 .. PreallocCells |-> Zero]
  /\ pos = 1 /\ lock = 0 /\ record_count = 0 /\ offset = 1
  /\ call = Idle
  /\ ops = <<>> /\ log = <<>> /\ whole = {}
  /\ faults = 0 /\ restarts = 0
  /\ ioError = FALSE /\ rewritten = FALSE

(***************************************************************************)
(* write_variable_size_log_item and create_checkpoint.  A checkpoint item  *)
(* has no data, and goes where the items would end if none had any.        *)
(***************************************************************************)
Begin ==
  /\ call = Idle /\ Len(ops) < MaxItems
  /\ \E op \in Ops : ops' = Append(ops, op)
  /\ call' = [item |-> Len(ops) + 1, at |-> "lock"]
  /\ UNCHANGED <<layout, file, manager, log, whole, faults, restarts, ioError,
                 rewritten>>

Lock ==
  /\ call.at = "lock" /\ lock = 0
  /\ lock' = 1
  /\ call' = [call EXCEPT !.at = "seek"]
  /\ UNCHANGED <<layout, file, pos, record_count, offset, history>>

Seek ==
  /\ call.at = "seek"
  /\ pos' = IF ops[call.item] = "Checkpoint"
            THEN 1 + record_count * HeaderCells ELSE offset
  /\ call' = [call EXCEPT !.at = "header"]
  /\ UNCHANGED <<layout, file, lock, record_count, offset, history>>

\* The cells the next write stores, and the step after it.
NextPart(n) ==
  CASE call.at = "header" -> Part(n, 1, HeaderCells)
    [] call.at = "first" ->
         Part(n, HeaderCells + 1, HeaderCells + BlockCells)
    [] call.at = "second" ->
         Part(n, HeaderCells + BlockCells + 1, HeaderCells + 2 * BlockCells)

Following(n) ==
  CASE call.at = "header" -> IF Blocks(n) = 0 THEN "count" ELSE "first"
    [] call.at = "first" -> IF Blocks(n) = 1 THEN "count" ELSE "second"
    [] call.at = "second" -> "count"

Writing == call.at \in {"header", "first", "second"}

WritePart ==
  /\ Writing
  /\ LET n == call.item
     IN  /\ file' = Write(file, pos, NextPart(n))
         /\ pos' = pos + Len(NextPart(n))
         /\ call' = [call EXCEPT !.at = Following(n)]
         /\ whole' = IF Following(n) = "count" THEN whole \cup {n} ELSE whole
         /\ rewritten' = (rewritten \/ restarts > 0)
  /\ UNCHANGED <<layout, lock, record_count, offset, ops, log, faults, restarts,
                 ioError>>

\* Mutant: the early return forgets the lock.
ShortWriteKeepsLock ==
  /\ Writing /\ faults < MaxFaults
  /\ \E k \in 0 .. Len(NextPart(call.item)) - 1 :
       /\ file' = Write(file, pos, SubSeq(NextPart(call.item), 1, k))
       /\ pos' = pos + k
  /\ call' = Idle
  /\ faults' = faults + 1
  /\ rewritten' = (rewritten \/ restarts > 0)
  /\ UNCHANGED <<layout, lock, record_count, offset, ops, log, whole, restarts,
                 ioError>>

\* file_write stores less than it was given: unlock and return an error.
ShortWrite ==
  /\ Writing /\ faults < MaxFaults
  /\ \E k \in 0 .. Len(NextPart(call.item)) - 1 :
       /\ file' = Write(file, pos, SubSeq(NextPart(call.item), 1, k))
       /\ pos' = pos + k
  /\ lock' = 0
  /\ call' = Idle
  /\ faults' = faults + 1
  /\ rewritten' = (rewritten \/ restarts > 0)
  /\ UNCHANGED <<layout, record_count, offset, ops, log, whole, restarts,
                 ioError>>

\* file_seek or file_write returns an error: `?` returns with the lock held.
\* The two writes of a block may be cut in two.
IoError ==
  /\ Writing \/ call.at = "seek"
  /\ faults < MaxFaults
  /\ \E k \in IF call.at \in {"first", "second"} THEN {0, 1} ELSE {0} :
       file' = IF k = 0 THEN file
               ELSE Write(file, pos, SubSeq(NextPart(call.item), 1, k))
  /\ call' = Idle
  /\ faults' = faults + 1
  /\ ioError' = TRUE
  /\ rewritten' = (rewritten \/ restarts > 0)
  /\ UNCHANGED <<layout, manager, ops, log, whole, restarts>>

\* Mutant: the offset moves on by the sizes before compression.
CountRawSize ==
  /\ call.at = "count"
  /\ record_count' = record_count + 1
  /\ offset' = IF ops[call.item] = "Checkpoint" THEN offset
               ELSE offset + HeaderCells + Blocks(call.item) * (1 + DataCells)
  /\ lock' = 0
  /\ log' = Append(log, call.item)
  /\ call' = [call EXCEPT !.at = "head"]
  /\ UNCHANGED <<layout, file, pos, ops, whole, faults, restarts, ioError,
                 rewritten>>

Count ==
  /\ call.at = "count"
  /\ record_count' = record_count + 1
  /\ offset' = IF ops[call.item] = "Checkpoint" THEN offset
               ELSE offset + ItemCells(call.item)
  /\ lock' = 0
  /\ log' = Append(log, call.item)
  /\ call' = [call EXCEPT !.at = "head"]
  /\ UNCHANGED <<layout, file, pos, ops, whole, faults, restarts, ioError,
                 rewritten>>

\* write_header (and write_checkpoint), after the lock is released.  An error
\* is returned; the item is written and counted.
WriteHeader ==
  /\ call.at = "head"
  /\ \/ /\ file' = Write(file, 0, <<FileHeader(record_count)>>)
        /\ pos' = 1
        /\ UNCHANGED <<faults, ioError>>
     \/ /\ faults < MaxFaults
        /\ faults' = faults + 1
        /\ ioError' = TRUE
        /\ UNCHANGED <<file, pos>>
  /\ call' = Idle
  /\ UNCHANGED <<layout, lock, record_count, offset, ops, log, whole, restarts,
                 rewritten>>

\* The process dies and LogManager::new opens the file: the count comes from
\* the log header, the offset is that of an empty log.
Restart ==
  /\ restarts < MaxRestarts
  /\ restarts' = restarts + 1
  /\ lock' = 0
  /\ record_count' = file[1].at
  /\ offset' = 1
  /\ pos' = 1
  /\ call' = Idle
  /\ UNCHANGED <<layout, file, ops, log, whole, faults, ioError, rewritten>>

Next ==
  \/ Begin \/ Lock \/ Seek \/ WritePart \/ ShortWrite \/ IoError
  \/ Count \/ WriteHeader \/ Restart

Spec == Init /\ [][Next]_wvars

(***************************************************************************)
(* The readers                                                             *)
(***************************************************************************)
\* n cells from position p on; fewer at the end of the file.
Read(p, n) ==
  SubSeq(file, p + 1, IF p + n > Len(file) THEN Len(file) ELSE p + n)

\* The item whose header lies at p; 0: none, or a short read.
HeaderAt(p) ==
  LET S == {n \in DOMAIN ops : Read(p, HeaderCells) = Part(n, 1, HeaderCells)}
  IN  IF S = {} THEN 0 ELSE CHOOSE n \in S : TRUE

IsSizeCell(c) == /\ c.item > 0
                 /\ c.at \in {HeaderCells + 1, HeaderCells + BlockCells + 1}

\* A block read at p: the stored size, then so many cells.
SizedBlock(p) ==
  IF p < Len(file) /\ IsSizeCell(file[p + 1])
     /\ Len(Read(p + 1, layout.packed)) = layout.packed
  THEN [ok |-> TRUE, data |-> Read(p + 1, layout.packed),
        next |-> p + BlockCells]
  ELSE [ok |-> FALSE, data |-> <<>>, next |-> p]

\* A block read at p without compression: as many cells as a record has.
RawBlock(p) ==
  [ok |-> Len(Read(p, DataCells)) = DataCells,
   data |-> Read(p, DataCells), next |-> p + DataCells]

\* A reader takes blocks as sized, or as raw.
Block(p, sized) == IF sized THEN SizedBlock(p) ELSE RawBlock(p)
NoBlock(p) == [ok |-> TRUE, data |-> <<>>, next |-> p]

\* Mutant: the checksum covers the header only.
IntactHeaderOnly(n, old, new) == TRUE

\* What the checksum of item n covers, besides the header.
Intact(n, old, new) ==
  LET block(i) == Part(n, HeaderCells + (i - 1) * BlockCells + 2,
                       HeaderCells + i * BlockCells)
  IN  /\ old = IF HasOld(n) THEN block(1) ELSE <<>>
      /\ new = IF HasNew(n) THEN block(Blocks(n)) ELSE <<>>

\* The item that a reader accepts at p; 0 if none.
ItemAt(p, sized) ==
  LET n == HeaderAt(p)
      data == p + HeaderCells
      old == IF HasOld(n) THEN Block(data, sized) ELSE NoBlock(data)
      new == IF HasNew(n) THEN Block(old.next, sized) ELSE NoBlock(old.next)
  IN  IF n # 0 /\ old.ok /\ new.ok /\ Intact(n, old.data, new.data)
      THEN n ELSE 0

\* read_variable_size_log_item(index), index < record_count: walk over the
\* items before it.  The size of a second block is looked for right behind
\* that of the first, which loses the way.  0: an error.
ReadItem(index) ==
  LET after(p) ==
        LET n == HeaderAt(p)
        IN  IF n = 0 \/ Blocks(n) = 2 THEN 0 ELSE p + ItemCells(n)
      at[i \in 0 .. index] ==
        IF i = 0 THEN 1 ELSE IF at[i - 1] = 0 THEN 0 ELSE after(at[i - 1])
  IN  IF at[index] = 0 THEN 0 ELSE ItemAt(at[index], TRUE)

\* The scan of recover from position p with `bad` invalid headers so far.  It
\* moves on over an item by the sizes in its header, and over anything else by
\* a header or, at the threshold, a block.
ScanFrom(start) ==
  LET item(p) == ItemAt(p, layout.compressed)
      scan[p \in Nat] == [bad \in Nat |->
        IF p + HeaderCells > Len(file) THEN <<>>
        ELSE IF item(p) # 0
        THEN <<item(p)>> \o scan[p + HeaderCells + Blocks(item(p)) * DataCells][0]
        ELSE IF bad + 1 = SkipThreshold /\ p + SkipBlock < Len(file)
        THEN scan[p + SkipBlock][0]
        ELSE IF bad + 1 > MaxInvalid THEN <<>>
        ELSE scan[p + HeaderCells][bad + 1]]
  IN  scan[start][0]

Scan == ScanFrom(1)

(***************************************************************************)
(* Properties                                                              *)
(***************************************************************************)
TypeOK ==
  /\ layout \in Layouts
  /\ file \in Seq([item : -1 .. MaxItems, at : Nat])
  /\ pos \in Nat /\ lock \in {0, 1}
  /\ record_count \in 0 .. MaxItems /\ offset \in Nat \ {0}
  /\ call \in [item : 0 .. MaxItems,
               at : {"idle", "lock", "seek", "header", "first", "second",
                     "count", "head"}]
  /\ ops \in Seq(Ops) /\ Len(ops) <= MaxItems
  /\ log \in Seq(1 .. MaxItems) /\ whole \subseteq DOMAIN ops
  /\ faults \in 0 .. MaxFaults /\ restarts \in 0 .. MaxRestarts
  /\ ioError \in BOOLEAN /\ rewritten \in BOOLEAN

NoCheckpoints == \A n \in DOMAIN ops : ops[n] # "Checkpoint"

\* Recovery never sees a torn item: whatever short writes, errors, crashes,
\* overwriting after a restart and checkpoint items leave in the file, an item
\* that a reader accepts, at any position, was written to its last cell.
AcceptedWhole ==
  \A p \in 0 .. Len(file), sized \in BOOLEAN :
    ItemAt(p, sized) # 0 => ItemAt(p, sized) \in whole

\* Until a restart and without checkpoints, every counted item can be read back
\* by its number, also when short writes were retried in its place, as long as
\* no item before it is an update (whose two blocks the reader cannot cross).
ReadsBack ==
  restarts = 0 /\ NoCheckpoints =>
    \A i \in 1 .. record_count :
      (\A j \in 1 .. i - 1 : Blocks(log[j]) < 2) => ReadItem(i - 1) = log[i]

\* Items the scan must find: with compression, all up to the first one with
\* data; all without data before it otherwise; and all if the stored data
\* happens to be one cell smaller than the record.
Certain ==
  LET bare == {i \in 1 .. Len(log) : \A j \in 1 .. i : Blocks(log[j]) = 0}
      first == {i \in 1 .. Len(log) : \A j \in 1 .. i - 1 : Blocks(log[j]) = 0}
  IN  CASE layout.compressed /\ BlockCells = DataCells -> 1 .. Len(log)
        [] layout.compressed -> first
        [] OTHER -> bare

\* After a crash at any point, and until the log is written again, the scan
\* finds those items in the order in which they were written.
ScanFindsLeading ==
  ~rewritten /\ NoCheckpoints =>
    \A i \in Certain : i <= Len(Scan) /\ Scan[i] = log[i]

\* The lock is free between calls, unless an I/O call returned an error.
LockReleased == call = Idle /\ ~ioError => lock = 0

\* Durability: after a crash the scan of recover finds every item whose write
\* was counted.
ScanFindsAll ==
  ~rewritten /\ NoCheckpoints => \A i \in DOMAIN log : \E j \in DOMAIN Scan :
                                    Scan[j] = log[i]
\* Counted items can be read by number, and after a crash the scan of recover
\* finds the leading ones (transaction.rs read_log_item, recover).
WalReadable == ReadsBack /\ ScanFindsLeading
=============================================================================
