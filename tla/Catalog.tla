------------------------------ MODULE Catalog -------------------------------
(***************************************************************************)
(* The catalog of one database: the vectors tables, primary_indices and    *)
(* secondary_indices of RemDb, the DDL operations of lib.rs on them, what  *)
(* they write to the write-ahead log, and what LogManager::recover makes   *)
(* of that log after a crash (phases 1 and 2; phase 3 for inserts).        *)
(*                                                                         *)
(* A record is a sequence of cells, one per byte that matters; a field is  *)
(* the run of `size` cells after offset `off`.  Positions count from 1.    *)
(* Allocations may fail.  Operations on the same database do not overlap.  *)
(***************************************************************************)
EXTENDS Integers, SequencesExt, PrimaryIndex

CONSTANTS CtNames,     \* table names
          CtShapes,    \* what CREATE TABLE may ask for: columns and key positions
          CtCols,      \* column names
          CtSizes,     \* sizes of columns that ALTER TABLE adds or modifies
          CtCells,     \* cell values; 0 is a zeroed byte
          CtRecords,   \* max_records
          CtLogFields, \* fields that fit in the 512 bytes of a CreateTable item
          CtMaxTables, \* bound on the number of entries
          CtMaxLog,    \* bound on the number of log items
          CtMaxVersion,\* bound on the number of ALTER TABLEs of a table
          CtMaxCrash   \* bound on the number of crashes

VARIABLES ctTables,  \* RemDb.tables: a table, or None
          ctPrimary, \* RemDb.primary_indices
          ctSecond,  \* RemDb.secondary_indices
          ctLog,     \* the log file
          ctCrashes, \* number of restarts
          ctRebuilt, \* history: positions filled by recover, not altered since
          ctHalf,    \* history: create_table failed with its table installed
          ctPlain    \* history: the log holds all that was done

ctVars == <<ctTables, ctPrimary, ctSecond, ctLog, ctCrashes, ctRebuilt,
            ctHalf, ctPlain>>

None == [name |-> "None"]
CtSlots == 0 .. CtRecords - 1
Present(v, i) == i \in DOMAIN v /\ v[i] # None
Total(sizes) == FoldLeft(LAMBDA a, b : a + b, 0, sizes)
SizesOf(fields) == [k \in DOMAIN fields |-> fields[k].size]
\* A read past the record finds some other byte; 0 stands for it.
ValueOf(record, f) ==
  [k \in 1 .. f.size |-> IF f.off + k <= Len(record) THEN record[f.off + k] ELSE 0]
Zeros(n) == [k \in 1 .. n |-> 0]

\* Offsets as create_table, recover and the DropColumn arm compute them.
LaidOut(fields) ==
  [k \in DOMAIN fields |->
     [fields[k] EXCEPT !.off = Total(SizesOf(SubSeq(fields, 1, k - 1)))]]

\* MemoryTable::new, or new_with_options(def, true) when `skip` is set: then
\* the free stack is left empty.
CtNewTable(name, fields, pk, size, skip) ==
  [ name |-> name, fields |-> fields, pk |-> pk, size |-> size, version |-> 1,
    rows |-> [s \in CtSlots |-> <<>>],
    free |-> IF skip THEN <<>> ELSE [k \in 1 .. CtRecords |-> CtRecords - k] ]

CtUsed(T) == {s \in CtSlots : T.rows[s] # <<>>}

\* A PrimaryIndex keeps the definition of its table and one item per record.
NewPrimary(T) == [name |-> T.name, fields |-> T.fields, pk |-> T.pk, items |-> NewIndex]
KeyReadable(I) == \A k \in DOMAIN I.pk : I.pk[k] <= Len(I.fields)
KeyIn(I, record) ==
  [k \in DOMAIN I.pk |-> ValueOf(record, I.fields[I.pk[k]])]
WithItem(I, record, s) ==
  [I EXCEPT !.items = IndexInsert(@, CtRecords, KeyIn(I, record), s)]
WithoutItem(I, record) ==
  [I EXCEPT !.items = IndexDelete(@, KeyIn(I, record))]

SetOrPush(v, i, x) == IF i <= Len(v) THEN [v EXCEPT ![i] = x] ELSE Append(v, x)
PadTo(v, n) == v \o [k \in 1 .. (IF n > Len(v) THEN n - Len(v) ELSE 0) |-> None]
Put(v, i, x) == [PadTo(v, i) EXCEPT ![i] = x]

NameTaken(v, name) == \E i \in DOMAIN v : v[i] # None /\ v[i].name = name
PositionOf(v, name) == CHOOSE i \in DOMAIN v : v[i] # None /\ v[i].name = name
ColumnAt(fields, col) == {k \in DOMAIN fields : fields[k].name = col}

(***************************************************************************)
(* CREATE TABLE                                                            *)
(***************************************************************************)
\* The first free entry, or the next one.
FirstFree(v) ==
  LET E == {i \in DOMAIN v : v[i] = None}
  IN  IF E = {} THEN Len(v) + 1 ELSE CHOOSE i \in E : \A j \in E : i <= j

FieldDefs(shape) ==
  LaidOut([k \in DOMAIN shape.cols |->
             [name |-> shape.cols[k].name, size |-> shape.cols[k].size, off |-> 0,
              def |-> shape.cols[k].def, pk |-> \E j \in DOMAIN shape.pk : shape.pk[j] = k]])

\* A field goes to the log with its default, and without its offset.
LoggedField(f) == [f EXCEPT !.off = 0]

\* The CreateTable item has 512 bytes; fields that do not fit are left out.
FieldsThatFit(fields) ==
  LET n == IF Len(fields) < CtLogFields THEN Len(fields) ELSE CtLogFields
  IN  [k \in 1 .. n |-> LoggedField(fields[k])]

CreateItem(id, T) ==
  [op |-> "CreateTable", id |-> id, name |-> T.name, pk |-> T.pk,
   fields |-> FieldsThatFit(T.fields)]

\* write_log_item writes the header only: the data it announces is missing.
UnreadableItem == [op |-> "Unreadable"]

CreateTable(name, shape) ==
  /\ Len(ctLog) < CtMaxLog /\ FirstFree(ctTables) <= CtMaxTables
  /\ ~NameTaken(ctTables, name)
  /\ LET i == FirstFree(ctTables)
         fields == FieldDefs(shape)
         T == CtNewTable(name, fields, shape.pk, Total(SizesOf(fields)), FALSE)
     IN  /\ ctTables' = SetOrPush(ctTables, i, T)
         /\ ctRebuilt' = ctRebuilt \ {i}
         /\ \/ /\ ctPrimary' = SetOrPush(ctPrimary, i, NewPrimary(T))
               /\ ctSecond' = SetOrPush(ctSecond, i, None)
               /\ ctLog' = Append(ctLog, CreateItem(i, T))
               /\ ctPlain' = (ctPlain /\ Len(fields) <= CtLogFields)
               /\ UNCHANGED ctHalf
            \/ \* the allocation of the index fails
               /\ ctHalf' = TRUE /\ ctPlain' = FALSE
               /\ UNCHANGED <<ctPrimary, ctSecond, ctLog>>
  /\ UNCHANGED ctCrashes

(***************************************************************************)
(* DROP TABLE.  Its log item announces data that write_log_item does not   *)
(* write: the scan of recover rejects its checksum.                        *)
(***************************************************************************)

Cleared(v, i) == IF i <= Len(v) THEN [v EXCEPT ![i] = None] ELSE v

\* Mutant: the primary index stays.
ClearedPrimaryNever(v, i) == v
ClearedPrimary(v, i) == IF i <= Len(v) THEN [v EXCEPT ![i] = None] ELSE v

DropTable(name) ==
  /\ Len(ctLog) < CtMaxLog
  /\ NameTaken(ctTables, name)
  /\ LET i == PositionOf(ctTables, name)
     IN  /\ ctTables' = [ctTables EXCEPT ![i] = None]
         /\ ctPrimary' = ClearedPrimary(ctPrimary, i)
         /\ ctSecond' = Cleared(ctSecond, i)
         /\ ctRebuilt' = ctRebuilt \ {i}
         /\ ctLog' = Append(ctLog, UnreadableItem)
  /\ ctPlain' = FALSE
  /\ UNCHANGED <<ctCrashes, ctHalf>>

(***************************************************************************)
(* CREATE INDEX.  D is the catalog with its log.  An index that is there   *)
(* already is kept; the new one starts empty.                              *)
(***************************************************************************)
IndexMade(D, name, col) ==
  IF ~NameTaken(D.tables, name) THEN D
  ELSE LET i == PositionOf(D.tables, name)
           C == ColumnAt(D.tables[i].fields, col)
           padded == PadTo(D.second, i)
       IN  IF C = {} THEN D
           ELSE IF padded[i] # None THEN [D EXCEPT !.second = padded]
           ELSE [D EXCEPT
                   !.second = Put(padded, i, [name |-> col, at |-> CHOOSE k \in C : TRUE]),
                   !.log = Append(@, [op |-> "CreateIndex", name |-> name, col |-> col])]

CatalogNow ==
  [tables |-> ctTables, primary |-> ctPrimary, second |-> ctSecond, log |-> ctLog]

CreateIndex(name, col) ==
  /\ Len(ctLog) < CtMaxLog
  /\ LET D == IndexMade(CatalogNow, name, col)
     IN  /\ D # CatalogNow
         /\ ctSecond' = D.second /\ ctLog' = D.log
  /\ UNCHANGED <<ctTables, ctPrimary, ctCrashes, ctRebuilt, ctHalf, ctPlain>>

(***************************************************************************)
(* ALTER TABLE: the new definition, or the old one where the code returns  *)
(* an error.  size_diff is that of the release build.                      *)
(***************************************************************************)

AddColumn(T, col, size, pk, def) ==
  IF ColumnAt(T.fields, col) # {} THEN T
  ELSE [T EXCEPT !.fields = Append(@, [name |-> col, size |-> size,
                                       off |-> T.size, pk |-> pk,
                                       def |-> def]),
                 !.size = @ + size]

DropColumn(T, col) ==
  LET C == ColumnAt(T.fields, col)
  IN  IF C = {} \/ \E k \in C : T.fields[k].pk THEN T
      ELSE LET k == CHOOSE k \in C : TRUE
               fields == LaidOut(RemoveAt(T.fields, k))
           IN  [T EXCEPT !.fields = fields, !.size = Total(SizesOf(fields))]

ModifyColumn(T, col, size, pk) ==
  LET C == ColumnAt(T.fields, col)
      k == CHOOSE k \in C : TRUE
      diff == size - T.fields[k].size
      shifted(j) == IF j > k THEN [T.fields[j] EXCEPT !.off = @ + diff]
                    ELSE IF j = k THEN [T.fields[j] EXCEPT !.size = size, !.pk = pk]
                    ELSE T.fields[j]
  IN  IF C = {} THEN T
      ELSE [T EXCEPT !.fields = [j \in DOMAIN T.fields |-> shifted(j)],
                     !.size = @ + diff]

RenameColumn(T, old, new) ==
  LET C == ColumnAt(T.fields, old)
  IN  IF C = {} \/ ColumnAt(T.fields, new) # {} THEN T
      ELSE [T EXCEPT !.fields = [k \in DOMAIN @ |->
                IF k \in C THEN [@[k] EXCEPT !.name = new] ELSE @[k]]]

\* What a record gets in a column that its old table lacks.
DefaultCell(f) == f.def

\* The record of U made from a record of T: each cell comes from the field of
\* the same name (for RENAME COLUMN: of the same position), as far as that one
\* reaches; a column that T lacks gets its default.
\* Mutant: the cells are copied by position for every operation.
RecordForByPosition(T, U, record, byPosition) ==
  [c \in 1 .. U.size |-> IF c <= Len(record) THEN record[c] ELSE 0]

RecordFor(T, U, record, byPosition) ==
  LET cell(f, j, c) ==
        LET K == IF byPosition THEN {j} ELSE ColumnAt(T.fields, f.name)
            n == c - f.off
            in(k) == T.fields[k].off + n
        IN  IF K = {} THEN DefaultCell(f)
            ELSE LET k == CHOOSE k \in K : TRUE
                 IN  IF n <= T.fields[k].size THEN record[in(k)] ELSE 0
  IN  [c \in 1 .. U.size |->
         LET J == {j \in DOMAIN U.fields : /\ U.fields[j].off < c
                                           /\ c <= U.fields[j].off + U.fields[j].size}
         IN  IF J = {} THEN 0
             ELSE LET j == CHOOSE j \in J : TRUE IN cell(U.fields[j], j, c)]

\* The used slots of T in order go to slots 0, 1, ... of the new table.
Migrated(T, U, byPosition) ==
  LET rank(s) == Cardinality({u \in CtUsed(T) : u < s})
      n == Cardinality(CtUsed(T))
      fresh == CtNewTable(U.name, U.fields, U.pk, U.size, FALSE)
      from(s) == CHOOSE u \in CtUsed(T) : rank(u) = s
  IN  [fresh EXCEPT
         !.version = T.version + 1,
         !.rows = [s \in CtSlots |-> IF s < n
                                     THEN RecordFor(T, U, T.rows[from(s)], byPosition)
                                     ELSE <<>>],
         !.free = SubSeq(@, 1, CtRecords - n)]

\* The index built along with the records, in slot order.
IndexOf(T) ==
  FoldLeft(LAMBDA I, s : WithItem(I, T.rows[s], s), NewPrimary(T),
           [k \in 1 .. Cardinality(CtUsed(T)) |-> k - 1])

Alterations(T) ==
  {[def |-> AddColumn(T, col, size, pk, def), byPosition |-> FALSE] :
      col \in CtCols, size \in CtSizes, pk \in BOOLEAN, def \in CtCells}
    \cup {[def |-> DropColumn(T, col), byPosition |-> FALSE] : col \in CtCols}
    \cup {[def |-> ModifyColumn(T, col, size, pk), byPosition |-> FALSE] :
             col \in CtCols, size \in CtSizes, pk \in BOOLEAN}
    \cup {[def |-> RenameColumn(T, old, new), byPosition |-> TRUE] :
             old, new \in CtCols}

\* An allocation that fails leaves everything as it was.  The item it logs is
\* as unreadable as that of DROP TABLE.  Without an entry for its index the
\* assignment to primary_indices[i] panics, with a record whose key cannot be
\* read insert_composite does: then the process dies, as in Crash.
Alter(i) ==
  /\ Len(ctLog) < CtMaxLog
  /\ Present(ctTables, i) /\ ctTables[i].version <= CtMaxVersion
  /\ i <= Len(ctPrimary) /\ i <= Len(ctSecond)
  /\ \E a \in Alterations(ctTables[i]) :
       LET T == Migrated(ctTables[i], a.def, a.byPosition)
       IN  /\ a.def # ctTables[i]
           /\ CtUsed(T) = {} \/ KeyReadable(NewPrimary(T))
           /\ ctTables' = [ctTables EXCEPT ![i] = T]
           /\ ctPrimary' = [ctPrimary EXCEPT ![i] = IndexOf(T)]
           /\ ctSecond' = [ctSecond EXCEPT ![i] = None]
  /\ ctRebuilt' = ctRebuilt \ {i}
  /\ ctLog' = Append(ctLog, UnreadableItem)
  /\ ctPlain' = FALSE
  /\ UNCHANGED <<ctCrashes, ctHalf>>

(***************************************************************************)
(* A record inserted through the C API in a transaction of its own.        *)
(***************************************************************************)
Insert(i) ==
  /\ Len(ctLog) < CtMaxLog
  /\ Present(ctTables, i) /\ Present(ctPrimary, i)
  /\ KeyReadable(ctPrimary[i]) /\ KeyReadable(NewPrimary(ctTables[i]))
  /\ LET T == ctTables[i]
         s == Last(T.free)
     IN  /\ T.free # <<>>
         /\ \E record \in [1 .. T.size -> CtCells] :
              /\ \A u \in CtUsed(T) :
                   KeyIn(NewPrimary(T), T.rows[u]) # KeyIn(NewPrimary(T), record)
              /\ ctTables' = [ctTables EXCEPT ![i].rows[s] = record,
                                              ![i].free = Front(@)]
              /\ ctPrimary' = [ctPrimary EXCEPT ![i] = WithItem(@, record, s)]
              /\ ctLog' = Append(ctLog, [op |-> "Insert", id |-> i, slot |-> s,
                                         data |-> record])
  /\ UNCHANGED <<ctSecond, ctCrashes, ctRebuilt, ctHalf, ctPlain>>

(***************************************************************************)
(* Crash and recover                                                       *)
(***************************************************************************)
Readable(log) == SelectSeq(log, LAMBDA item : item.op # "Unreadable")
HasData(log) == \E k \in DOMAIN log : log[k].op = "Insert"

\* A size and a default that were logged are taken as they are.
ReadSize(f) == f.size
ReadDefault(f) == f.def
ReadField(f) == [f EXCEPT !.size = ReadSize(f), !.def = ReadDefault(f)]

\* record_size is computed: no writer puts it in the item.
ReadTable(item) ==
  LET fields == LaidOut([k \in DOMAIN item.fields |-> ReadField(item.fields[k])])
  IN  CtNewTable(item.name, fields, item.pk, Total(SizesOf(fields)), TRUE)

\* Phase 2.  A CreateTable item is skipped when its entry is taken or its name
\* is.  The new table has its offsets laid out again and an empty free stack.
SchemaStep(D, item, fails) ==
  CASE item.op = "CreateTable" ->
         IF fails \/ Present(D.tables, item.id) \/ NameTaken(D.tables, item.name)
         THEN D
         ELSE LET T == ReadTable(item)
              IN  [D EXCEPT !.tables = Put(@, item.id, T),
                            !.primary = Put(@, item.id, NewPrimary(T)),
                            !.second = Put(@, item.id, None)]
    [] item.op = "CreateIndex" -> IndexMade(D, item.name, item.col)
    [] OTHER -> D

\* Mutant: the last byte is forgotten.
DataStepShort(D, item) ==
  IF item.op # "Insert" \/ ~Present(D.tables, item.id) THEN D
  ELSE LET T == D.tables[item.id]
           record == [c \in 1 .. T.size |-> IF c < T.size THEN item.data[c] ELSE 0]
           I == D.primary[item.id]
       IN  [D EXCEPT
              !.tables[item.id].rows[item.slot] = record,
              !.primary[item.id] = WithItem(WithoutItem(I, record), record, item.slot)]

\* Phase 3: as many bytes as the table's records have are copied.
DataStep(D, item) ==
  IF item.op # "Insert" \/ ~Present(D.tables, item.id) THEN D
  ELSE LET T == D.tables[item.id]
           n == IF Len(item.data) < T.size THEN Len(item.data) ELSE T.size
           before == IF T.rows[item.slot] = <<>> THEN Zeros(T.size)
                     ELSE T.rows[item.slot]
           record == [c \in 1 .. T.size |-> IF c <= n THEN item.data[c]
                                            ELSE before[c]]
           I == D.primary[item.id]
       IN  [D EXCEPT
              !.tables[item.id].rows[item.slot] = record,
              !.primary[item.id] = WithItem(WithoutItem(I, record), record, item.slot)]

\* A log without a valid data item restores nothing, not even its tables.
\* `fails`: the positions of CreateTable items whose allocations fail.
Recovered(log, fails) ==
  LET items == Readable(log)
      blank == [tables |-> <<>>, primary |-> <<>>, second |-> <<>>, log |-> log]
      schema == FoldLeft(LAMBDA D, k : SchemaStep(D, items[k], k \in fails), blank,
                         [k \in 1 .. Len(items) |-> k])
  IN  IF HasData(items) THEN FoldLeft(DataStep, schema, items) ELSE blank

\* The process dies, restarts and recovers.
Crash ==
  /\ ctCrashes < CtMaxCrash
  /\ \E fails \in {{}} \cup {{k} : k \in DOMAIN Readable(ctLog)} :
       LET D == Recovered(ctLog, fails)
       IN  /\ ctTables' = D.tables /\ ctPrimary' = D.primary
           /\ ctSecond' = D.second /\ ctLog' = D.log
           /\ ctRebuilt' = {i \in DOMAIN D.tables : D.tables[i] # None}
           /\ ctPlain' = (ctPlain /\ fails = {} /\ (HasData(ctLog) \/ ctLog = <<>>))
  /\ ctCrashes' = ctCrashes + 1
  /\ ctHalf' = FALSE

CtInit ==
  /\ ctTables = <<>> /\ ctPrimary = <<>> /\ ctSecond = <<>>
  /\ ctLog = <<>> /\ ctCrashes = 0 /\ ctRebuilt = {}
  /\ ctHalf = FALSE /\ ctPlain = TRUE

CtNext ==
  \/ \E name \in CtNames : \/ \E shape \in CtShapes : CreateTable(name, shape)
                           \/ DropTable(name)
                           \/ \E col \in CtCols : CreateIndex(name, col)
  \/ \E i \in DOMAIN ctTables : Alter(i) \/ Insert(i)
  \/ Crash

CtSpec == CtInit /\ [][CtNext]_ctVars

(***************************************************************************)
(* Properties                                                              *)
(***************************************************************************)
Tables == {i \in DOMAIN ctTables : ctTables[i] # None}

\* The name search of create_table and of recover keeps names apart: no two
\* entries of the catalog have the same table name, whatever was created,
\* dropped, or rebuilt from the log.
CtNamesUnique ==
  \A i, j \in Tables : ctTables[i].name = ctTables[j].name => i = j

\* Fields tile the record: after any series of ALTER TABLEs, and after a
\* recovery, each field begins where the one before it ends and record_size is
\* where the last one ends.
CtFieldsTile ==
  \A i \in Tables :
     LET T == ctTables[i]
     IN  T.fields = LaidOut(T.fields) /\ T.size = Total(SizesOf(T.fields))

\* Unless create_table failed between installing a table and its index, and as
\* long as recover could see all that was done: entry i of primary_indices was
\* made for the table of entry i and has one item per record of it, with the key
\* and the slot of the record.
CtPrimaryExact ==
  ~ctHalf /\ (ctPlain \/ ctCrashes = 0) =>
    /\ \A i \in DOMAIN ctPrimary : ctPrimary[i] # None => i \in Tables
    /\ \A i \in Tables :
         LET T == ctTables[i]
             I == ctPrimary[i]
         IN  /\ [I EXCEPT !.items = NewIndex] = NewPrimary(T)
             /\ Len(I.items) = Cardinality(CtUsed(T))
             /\ KeyReadable(I) =>
                  {<<I.items[k].key, I.items[k].id>> : k \in DOMAIN I.items}
                    = {<<KeyIn(I, T.rows[s]), s>> : s \in CtUsed(T)}

\* A secondary index stands at a table, and the column position it reads is
\* that of the column it was made for: alter_table, which moves columns, drops it.
CtSecondaryReadsItsColumn ==
  \A i \in DOMAIN ctSecond :
     ctSecond[i] # None =>
       /\ i \in Tables
       /\ ctTables[i].fields[ctSecond[i].at].name = ctSecond[i].name

\* A table that recover has rebuilt has no free slot, however few records it
\* has: it takes no insert until alter_table makes it anew.
CtRebuiltTakesNoInsert == \A i \in ctRebuilt : ctTables[i].free = <<>>

\* The values of the columns that a step leaves in a table, as a bag of rows.
RowsOn(T, cols) ==
  LET row(s) == [c \in cols |-> ValueOf(T.rows[s],
                                        T.fields[CHOOSE k \in ColumnAt(T.fields, c) : TRUE])]
      R == {row(s) : s \in CtUsed(T)}
  IN  [r \in R |-> Cardinality({s \in CtUsed(T) : row(s) = r})]

\* The columns of T that are in U with the same size.
KeptColumns(T, U) ==
  {c \in CtCols : \E j \in ColumnAt(T.fields, c), k \in ColumnAt(U.fields, c) :
                     T.fields[j].size = U.fields[k].size}

\* ALTER TABLE moves every record to a new table, slot by slot and field by
\* field: the rows of the columns it keeps are the same ones, as a bag.
CtAlterKeepsRows ==
  \A i \in DOMAIN ctTables :
       (/\ Present(ctTables, i) /\ Present(ctTables', i)
        /\ ctTables'[i].version > ctTables[i].version)
       => LET cols == KeptColumns(ctTables[i], ctTables'[i])
          IN  RowsOn(ctTables'[i], cols) = RowsOn(ctTables[i], cols)

KeyListNamesKeys(T) ==
  \A k \in DOMAIN T.pk : T.pk[k] <= Len(T.fields) /\ T.fields[T.pk[k]].pk

\* def.primary_key holds positions that alter_table does not renumber.  The only
\* steps after which it no longer names key columns are the removal of a column
\* in front of one and a MODIFY COLUMN that takes the key flag away.
CtKeyListBreaksOnlySo ==
  \A i \in DOMAIN ctTables :
       LET T == ctTables[i]
           U == ctTables'[i]
       IN  (/\ Present(ctTables, i) /\ Present(ctTables', i)
            /\ KeyListNamesKeys(T) /\ ~KeyListNamesKeys(U))
           => \/ /\ Len(U.fields) < Len(T.fields)
                 /\ \E k \in DOMAIN T.pk, j \in DOMAIN T.fields :
                      j < T.pk[k] /\ ColumnAt(U.fields, T.fields[j].name) = {}
              \/ \E k \in DOMAIN T.pk : /\ Len(U.fields) = Len(T.fields)
                                        /\ ~U.fields[T.pk[k]].pk

Restarted == ctCrashes' # ctCrashes

\* As long as tables were only created (with fields that fit in the log item)
\* and filled, recover brings back every table at its entry, with its columns,
\* key and records, each in its slot, provided the log holds at least one record;
\* a log of tables alone brings back nothing.
CtRecoversPlain ==
  [][Restarted /\ ctPlain /\ (ctPlain' \/ ~HasData(ctLog)) =>
       IF HasData(ctLog)
       THEN /\ \A i \in Tables : /\ Present(ctTables', i)
                                 /\ [ctTables'[i] EXCEPT !.free = ctTables[i].free]
                                      = ctTables[i]
            /\ \A i \in DOMAIN ctTables' : ctTables'[i] # None => i \in Tables
       ELSE ctTables' = <<>>]_ctVars

\* The catalog between two calls: names unique, fields side by side, primary
\* and secondary indexes in step with the records, and rebuilt tables full
\* (lib.rs create_table, drop_table, alter_table, create_index).
CtConsistent ==
  /\ CtNamesUnique /\ CtFieldsTile /\ CtPrimaryExact
  /\ CtSecondaryReadsItsColumn /\ CtRebuiltTakesNoInsert

\* alter_table moves every record into the new layout, and only DROP COLUMN of a
\* column in front of a key column breaks the list of key columns.
CtAlterSound == [][CtAlterKeepsRows /\ CtKeyListBreaksOnlySo]_ctVars
=============================================================================
